-------------------------- MODULE MCDataParts_proofs --------------------------
(***************************************************************************)
(* The inductive invariants of the parts in MCDataParts: that they hold at *)
(* the start and that every step of the part keeps them, and that a step   *)
(* of the send side or of a ring is one of the pipe or of the fifo that it *)
(* implements. MCData_proofs has the theorems.                             *)
(***************************************************************************)
EXTENDS MCDataParts, SequenceTheorems, FiniteSetTheorems, WellFoundedInduction, TLAPS

(* A set of numbers that is not empty has a least one.                        *)
LEMMA LeastNumber ==
  ASSUME NEW T \in SUBSET Nat, T # {}
  PROVE  \E x \in T : \A y \in T : ~(y < x)
<1> DEFINE R == OpToRel(<, Nat)
<1>1. IsWellFoundedOn(R, Nat)
  BY NatLessThanWellFounded
<1>2. \A x, y \in Nat : y < x => <<y, x>> \in R
  BY DEF OpToRel
<1> HIDE DEF R
<1>3. \E x \in T : \A y \in T : ~(<<y, x>> \in R)
  BY <1>1, WFMin
<1> QED
  BY <1>2, <1>3

(* Induction: a set of numbers with 0 and the next of each of its numbers has *)
(* them all.                                                                  *)
LEMMA Induct ==
  ASSUME NEW T \in SUBSET Nat, 0 \in T, \A n \in T : n + 1 \in T
  PROVE  \A n \in Nat : n \in T
<1> DEFINE D == Nat \ T
<1>1. SUFFICES ASSUME D # {} PROVE FALSE
  OBVIOUS
<1>2. PICK x \in D : \A y \in D : ~(y < x)
  BY <1>1, LeastNumber
<1>3. x # 0 /\ x - 1 \in Nat /\ x - 1 < x
  OBVIOUS
<1>4. x - 1 \in T
  BY <1>2, <1>3
<1> QED
  BY <1>3, <1>4

(* f joins the first n sequences of q. *)
Joins(f, q, n) == f = [i \in 1..n |-> IF i = 1 THEN q[i] ELSE f[i-1] \o q[i]]

(* There is such a function, of sequences over the same set.                  *)
LEMMA JoinsExist ==
  ASSUME NEW S, NEW q \in Seq(Seq(S))
  PROVE  \E f \in [1..Len(q) -> Seq(S)] : Joins(f, q, Len(q))
<1> DEFINE T == {n \in Nat : n <= Len(q) => \E f \in [1..n -> Seq(S)] : Joins(f, q, n)}
<1>1. 0 \in T
  <2> DEFINE f == [i \in 1..0 |-> <<>>]
  <2>1. f \in [1..0 -> Seq(S)]
    OBVIOUS
  <2>2. Joins(f, q, 0)
    BY DEF Joins
  <2> QED
    BY <2>1, <2>2
<1>2. ASSUME NEW n \in T
      PROVE  n + 1 \in T
  <2> SUFFICES ASSUME n + 1 <= Len(q)
               PROVE  \E f \in [1..(n + 1) -> Seq(S)] : Joins(f, q, n + 1)
    OBVIOUS
  <2>1. PICK f \in [1..n -> Seq(S)] : Joins(f, q, n)
    OBVIOUS
  <2>2. q[n + 1] \in Seq(S)
    BY ElementOfSeq
  <2> DEFINE x == IF n = 0 THEN q[1] ELSE f[n] \o q[n + 1]
             g == [i \in 1..(n + 1) |-> IF i <= n THEN f[i] ELSE x]
  <2>3. x \in Seq(S)
    BY <2>2
  <2>4. g \in [1..(n + 1) -> Seq(S)]
    BY <2>3
  <2>5. \A i \in 1..n : f[i] = IF i = 1 THEN q[i] ELSE f[i-1] \o q[i]
    BY <2>1 DEF Joins
  <2>6. \A i \in 1..(n + 1) : g[i] = IF i = 1 THEN q[i] ELSE g[i-1] \o q[i]
    <3> SUFFICES ASSUME NEW i \in 1..(n + 1)
                 PROVE  g[i] = IF i = 1 THEN q[i] ELSE g[i-1] \o q[i]
      OBVIOUS
    <3>1. CASE i <= n
      <4>0. i \in 1..n
        BY <3>1
      <4>1. f[i] = IF i = 1 THEN q[i] ELSE f[i-1] \o q[i]
        BY <2>5, <4>0
      <4>2. g[i] = f[i]
        BY <3>1
      <4>3. i # 1 => g[i - 1] = f[i - 1]
        BY <3>1
      <4> HIDE DEF g
      <4> QED
        BY <4>1, <4>2, <4>3
    <3>2. CASE i = n + 1
      <4>1. i # 1 => i - 1 = n /\ n # 0 /\ n \in 1..n
        BY <3>2
      <4> QED
        BY <3>2, <4>1
    <3> QED
      BY <3>1, <3>2
  <2> HIDE DEF g
  <2>7. Joins(g, q, n + 1)
    BY <2>4, <2>6 DEF Joins
  <2> QED
    BY <2>4, <2>7
<1> HIDE DEF T
<1>3. \A n \in Nat : n \in T
  BY <1>1, <1>2, Induct DEF T
<1>4. Len(q) \in T
  BY <1>3
<1> QED
  BY <1>4 DEF T

(* The first n entries are the same.                                          *)
Agree(q, r, n) == \A i \in 1..n : q[i] = r[i]

(* What two of them make of the same sequences is the same.                   *)
LEMMA JoinsAgree ==
  ASSUME NEW q, NEW r, NEW n \in Nat \ {0}, NEW l \in Nat, NEW f, NEW g,
         Joins(f, q, n), Joins(g, r, l), n <= l, Agree(q, r, n)
  PROVE  f[n] = g[n]
<1> DEFINE T == {k \in Nat : k \in 1..n => f[k] = g[k]}
<1>1. 0 \in T
  OBVIOUS
<1>2. /\ \A i \in 1..n : f[i] = IF i = 1 THEN q[i] ELSE f[i-1] \o q[i]
      /\ \A i \in 1..l : g[i] = IF i = 1 THEN r[i] ELSE g[i-1] \o r[i]
  BY DEF Joins
<1>3. ASSUME NEW k \in T
      PROVE  k + 1 \in T
  BY <1>2 DEF Agree
<1> HIDE DEF T
<1>4. \A k \in Nat : k \in T
  BY <1>1, <1>3, Induct DEF T
<1> QED
  BY <1>4 DEF T

(* FlattenSeq, without the choice in its recursion.                           *)
LEMMA FlattenIs ==
  ASSUME NEW q, Len(q) \in Nat \ {0}, NEW f, Joins(f, q, Len(q))
  PROVE  Log!FlattenSeq(q) = f[Len(q)]
<1> DEFINE g == CHOOSE g : Joins(g, q, Len(q))
<1>1. Joins(g, q, Len(q))
  OBVIOUS
<1>2. Log!FlattenSeq(q) = g[Len(q)]
  BY DEF Log!FlattenSeq, Joins
<1> HIDE DEF g
<1>3. f[Len(q)] = g[Len(q)]
  BY <1>1, JoinsAgree DEF Agree
<1> QED
  BY <1>2, <1>3

(* Such a function, one sequence at a time.                                   *)
LEMMA JoinsAt ==
  ASSUME NEW q, NEW f, NEW n \in Nat, Joins(f, q, n)
  PROVE  /\ n # 0 => f[1] = q[1]
         /\ \A i \in 1..n : i # n => f[i + 1] = f[i] \o q[i + 1]
<1>1. \A i \in 1..n : f[i] = IF i = 1 THEN q[i] ELSE f[i - 1] \o q[i]
  BY DEF Joins
<1>2. n # 0 => 1 \in 1..n
  OBVIOUS
<1>3. \A i \in 1..n : i # n => i + 1 \in 1..n /\ i + 1 # 1 /\ (i + 1) - 1 = i
  OBVIOUS
<1> QED
  BY <1>1, <1>2, <1>3

(* Nothing joined is nothing,                                                 *)
LEMMA FlattenEmpty ==
  ASSUME NEW q, q = <<>>
  PROVE  Log!FlattenSeq(q) = <<>>
BY DEF Log!FlattenSeq

(* sequences over a set joined are one over that set,                         *)
LEMMA FlattenType ==
  ASSUME NEW S, NEW q \in Seq(Seq(S))
  PROVE  Log!FlattenSeq(q) \in Seq(S)
<1>1. CASE q = <<>>
  <2>1. Log!FlattenSeq(q) = <<>>
    BY <1>1, FlattenEmpty
  <2> QED
    BY <2>1
<1>2. CASE q # <<>>
  <2>1. PICK f \in [1..Len(q) -> Seq(S)] : Joins(f, q, Len(q))
    BY JoinsExist
  <2>2. Len(q) \in Nat \ {0} /\ Len(q) \in 1..Len(q)
    BY <1>2
  <2>3. Log!FlattenSeq(q) = f[Len(q)]
    BY <2>1, <2>2, FlattenIs
  <2>4. f[Len(q)] \in Seq(S)
    BY <2>2
  <2> QED
    BY <2>3, <2>4
<1> QED
  BY <1>1, <1>2

(* the last one joined comes last,                                            *)
LEMMA FlattenAppend ==
  ASSUME NEW S, NEW q \in Seq(Seq(S)), NEW x \in Seq(S)
  PROVE  Log!FlattenSeq(Append(q, x)) = Log!FlattenSeq(q) \o x
<1> DEFINE r == Append(q, x)
           n == Len(q)
<1>1. /\ r \in Seq(Seq(S)) /\ Len(r) = n + 1 /\ r[n + 1] = x /\ n \in Nat
      /\ \A i \in 1..n : r[i] = q[i]
  OBVIOUS
<1> HIDE DEF r
<1>2. PICK g \in [1..Len(r) -> Seq(S)] : Joins(g, r, Len(r))
  BY <1>1, JoinsExist
<1>3. Log!FlattenSeq(r) = g[n + 1]
  <2>1. Len(r) \in Nat \ {0}
    BY <1>1
  <2> QED
    BY <1>1, <1>2, <2>1, FlattenIs
<1>4. CASE n = 0
  <2>1. q = <<>> /\ Log!FlattenSeq(q) = <<>>
    BY <1>4, FlattenEmpty
  <2>2. Joins(g, r, 1)
    BY <1>1, <1>2, <1>4
  <2>3. g[1] = r[1]
    <3>1. 1 \in Nat /\ 1 # 0
      OBVIOUS
    <3> QED
      BY <2>2, <3>1, JoinsAt
  <2>4. Log!FlattenSeq(r) = x
    BY <1>1, <1>3, <1>4, <2>3
  <2>5. <<>> \o x = x
    OBVIOUS
  <2> QED
    BY <2>1, <2>4, <2>5 DEF r
<1>5. CASE n # 0
  <2>1. PICK f \in [1..n -> Seq(S)] : Joins(f, q, n)
    BY JoinsExist
  <2>2. Log!FlattenSeq(q) = f[n]
    BY <1>1, <1>5, <2>1, FlattenIs
  <2>3. f[n] = g[n]
    <3> HIDE DEF n
    <3> DEFINE l == Len(r)
    <3>1. Joins(f, q, n) /\ Joins(g, r, l) /\ n <= l /\ l \in Nat /\ n \in Nat
      BY <1>1, <1>2, <2>1
    <3> HIDE DEF l
    <3>2. Agree(q, r, n)
      BY <1>1 DEF Agree
    <3>3. n \in Nat \ {0}
      BY <1>1, <1>5
    <3> QED
      BY <3>1, <3>2, <3>3, JoinsAgree
  <2>4. g[n + 1] = g[n] \o r[n + 1]
    <3> HIDE DEF n
    <3>1. Joins(g, r, n + 1) /\ n \in 1..(n + 1) /\ n # n + 1 /\ n + 1 \in Nat
      BY <1>1, <1>2, <1>5
    <3> QED
      BY <3>1, JoinsAt
  <2> QED
    BY <1>1, <1>3, <2>2, <2>3, <2>4 DEF r
<1> QED
  BY <1>4, <1>5

(* and the first one first.                                                   *)
LEMMA FlattenHead ==
  ASSUME NEW S, NEW q \in Seq(Seq(S)), q # <<>>
  PROVE  Log!FlattenSeq(q) = Head(q) \o Log!FlattenSeq(Tail(q))
<1> DEFINE r == Tail(q)
           n == Len(r)
<1>1. /\ r \in Seq(Seq(S)) /\ Len(q) = n + 1 /\ Head(q) = q[1] /\ q[1] \in Seq(S) /\ n \in Nat
      /\ \A i \in 1..n : r[i] = q[i + 1] /\ r[i] \in Seq(S)
  OBVIOUS
<1> HIDE DEF r, n
<1>2. PICK g \in [1..Len(q) -> Seq(S)] : Joins(g, q, Len(q))
  BY JoinsExist
<1>3. Log!FlattenSeq(q) = g[n + 1]
  <2>1. Len(q) \in Nat \ {0}
    BY <1>1
  <2> QED
    BY <1>1, <1>2, <2>1, FlattenIs
<1>4. g[1] = q[1] /\ \A i \in 1..n : g[i + 1] = g[i] \o r[i]
  <2>1. Joins(g, q, n + 1) /\ n + 1 \in Nat /\ n + 1 # 0
    BY <1>1, <1>2
  <2>2. \A i \in 1..n : i \in 1..(n + 1) /\ i # n + 1
    BY <1>1
  <2>a. g[1] = q[1] /\ \A i \in 1..(n + 1) : i # n + 1 => g[i + 1] = g[i] \o q[i + 1]
    BY ONLY <2>1, JoinsAt, Zenon
  <2>3. \A i \in 1..n : g[i + 1] = g[i] \o q[i + 1]
    BY <2>2, <2>a
  <2>4. g[1] = q[1]
    BY <2>a
  <2> QED
    BY <1>1, <2>3, <2>4
<1>5. CASE n = 0
  <2>1. r = <<>> /\ Log!FlattenSeq(r) = <<>>
    BY <1>1, <1>5, FlattenEmpty DEF n
  <2>2. q[1] \o <<>> = q[1]
    BY <1>1
  <2> QED
    BY <1>1, <1>3, <1>4, <1>5, <2>1, <2>2 DEF r
<1>6. CASE n # 0
  <2>1. PICK f \in [1..n -> Seq(S)] : Joins(f, r, n)
    BY <1>1, JoinsExist DEF n
  <2>2. Log!FlattenSeq(r) = f[n]
    BY <1>1, <1>6, <2>1, FlattenIs DEF n
  <2>a. f[1] = r[1] /\ \A i \in 1..n : i # n => f[i + 1] = f[i] \o r[i + 1]
    BY <1>1, <1>6, <2>1, JoinsAt
  <2> DEFINE T == {i \in Nat : i \in 1..n => g[i + 1] = q[1] \o f[i]}
  <2>3. 0 \in T
    OBVIOUS
  <2>4. ASSUME NEW i \in T
        PROVE  i + 1 \in T
    <3>0. i \in Nat /\ i + 1 \in Nat
      OBVIOUS
    <3>1. i \in 1..n => g[i + 1] = q[1] \o f[i]
      OBVIOUS
    <3> SUFFICES ASSUME i + 1 \in 1..n
                 PROVE  g[(i + 1) + 1] = q[1] \o f[i + 1]
      BY <3>0
    <3> HIDE DEF T
    <3>2. g[(i + 1) + 1] = g[i + 1] \o r[i + 1] /\ r[i + 1] \in Seq(S)
      BY <1>1, <1>4
    <3>3. CASE i = 0
      <4>1. i + 1 = 1
        BY <3>3
      <4>2. 1 \in 1..n /\ (i + 1) + 1 = 1 + 1
        BY <1>1, <1>6, <3>3
      <4>3. g[1 + 1] = g[1] \o r[1]
        BY <1>4, <4>2
      <4> QED
        BY <1>4, <2>a, <4>1, <4>2, <4>3
    <3>4. CASE i # 0
      <4>1. i \in 1..n /\ i # n
        BY <1>1, <3>0, <3>4
      <4>2. f[i] \in Seq(S) /\ g[i + 1] = q[1] \o f[i] /\ f[i + 1] = f[i] \o r[i + 1]
        BY <2>a, <3>1, <4>1
      <4> DEFINE a == q[1]
                 b == f[i]
                 c == r[i + 1]
      <4>a. a \in Seq(S) /\ b \in Seq(S) /\ c \in Seq(S)
        BY <1>1, <3>2, <4>2
      <4> HIDE DEF a, b, c
      <4>b. (a \o b) \o c = a \o (b \o c)
        BY <4>a
      <4>3. (q[1] \o f[i]) \o r[i + 1] = q[1] \o (f[i] \o r[i + 1])
        BY <4>b DEF a, b, c
      <4> QED
        BY <3>2, <4>2, <4>3
    <3> QED
      BY <3>0, <3>3, <3>4
  <2> HIDE DEF T
  <2>5. \A i \in Nat : i \in T
    BY <2>3, <2>4, Induct DEF T
  <2>6. n \in T
    BY <1>1, <2>5
  <2>7. n \in 1..n
    BY <1>1, <1>6
  <2>8. g[n + 1] = q[1] \o f[n]
    BY <2>6, <2>7 DEF T
  <2> QED
    BY <1>1, <1>3, <2>2, <2>8 DEF r
<1> QED
  BY <1>5, <1>6

(* f takes the payload bytes out of the first n bytes of s.                   *)
Takes(f, s, n) ==
  f = [k \in 0..n |-> IF k = 0 THEN <<>>
                      ELSE IF s[k][2] > 6 THEN Append(f[k - 1], s[k]) ELSE f[k - 1]]

(* Such a function, one byte at a time.                                       *)
LEMMA TakesAt ==
  ASSUME NEW s, NEW n \in Nat, NEW f, Takes(f, s, n)
  PROVE  /\ f[0] = <<>>
         /\ \A k \in 0..n : k # n =>
              f[k + 1] = IF s[k + 1][2] > 6 THEN Append(f[k], s[k + 1]) ELSE f[k]
<1>1. \A k \in 0..n : f[k] = IF k = 0 THEN <<>>
                             ELSE IF s[k][2] > 6 THEN Append(f[k - 1], s[k]) ELSE f[k - 1]
  BY DEF Takes
<1>2. 0 \in 0..n
  OBVIOUS
<1>3. \A k \in 0..n : k # n => k + 1 \in 0..n /\ k + 1 # 0 /\ (k + 1) - 1 = k
  OBVIOUS
<1> QED
  BY <1>1, <1>2, <1>3

(* There is one, of sequences over the same set.                              *)
LEMMA TakesExist ==
  ASSUME NEW S, NEW s \in Seq(S)
  PROVE  \E f \in [0..Len(s) -> Seq(S)] : Takes(f, s, Len(s))
<1> DEFINE T == {n \in Nat : n <= Len(s) => \E f \in [0..n -> Seq(S)] : Takes(f, s, n)}
<1>1. 0 \in T
  <2> DEFINE f == [i \in 0..0 |-> <<>>]
  <2>1. f \in [0..0 -> Seq(S)]
    OBVIOUS
  <2>2. Takes(f, s, 0)
    BY DEF Takes
  <2> QED
    BY <2>1, <2>2
<1>2. ASSUME NEW n \in T
      PROVE  n + 1 \in T
  <2> SUFFICES ASSUME n + 1 <= Len(s)
               PROVE  \E f \in [0..(n + 1) -> Seq(S)] : Takes(f, s, n + 1)
    OBVIOUS
  <2>1. PICK f \in [0..n -> Seq(S)] : Takes(f, s, n)
    OBVIOUS
  <2>2. s[n + 1] \in S
    BY ElementOfSeq
  <2> DEFINE x == IF s[n + 1][2] > 6 THEN Append(f[n], s[n + 1]) ELSE f[n]
             g == [i \in 0..(n + 1) |-> IF i <= n THEN f[i] ELSE x]
  <2>3. x \in Seq(S)
    BY <2>2
  <2> HIDE DEF x
  <2>4. g \in [0..(n + 1) -> Seq(S)]
    BY <2>3
  <2>5. \A k \in 0..n : f[k] = IF k = 0 THEN <<>>
                               ELSE IF s[k][2] > 6 THEN Append(f[k - 1], s[k]) ELSE f[k - 1]
    BY <2>1 DEF Takes
  <2>6. \A k \in 0..(n + 1) :
          g[k] = IF k = 0 THEN <<>>
                 ELSE IF s[k][2] > 6 THEN Append(g[k - 1], s[k]) ELSE g[k - 1]
    <3> SUFFICES ASSUME NEW k \in 0..(n + 1)
                 PROVE  g[k] = IF k = 0 THEN <<>>
                               ELSE IF s[k][2] > 6 THEN Append(g[k - 1], s[k]) ELSE g[k - 1]
      OBVIOUS
    <3>1. CASE k <= n
      <4>1. k \in 0..n
        BY <3>1
      <4>2. f[k] = IF k = 0 THEN <<>>
                   ELSE IF s[k][2] > 6 THEN Append(f[k - 1], s[k]) ELSE f[k - 1]
        BY <2>5, <4>1
      <4>3. g[k] = f[k] /\ (k # 0 => g[k - 1] = f[k - 1])
        BY <3>1
      <4> HIDE DEF g
      <4> QED
        BY <4>2, <4>3
    <3>2. CASE k = n + 1
      <4>1. k # 0 /\ k - 1 = n /\ g[n] = f[n] /\ g[k] = x
        BY <3>2
      <4> HIDE DEF g
      <4> QED
        BY <3>2, <4>1 DEF x
    <3> QED
      BY <3>1, <3>2
  <2> HIDE DEF g
  <2>7. Takes(g, s, n + 1)
    BY <2>4, <2>6 DEF Takes
  <2> QED
    BY <2>4, <2>7
<1> HIDE DEF T
<1>3. \A n \in Nat : n \in T
  BY <1>1, <1>2, Induct DEF T
<1>4. Len(s) \in T
  BY <1>3
<1> QED
  BY <1>4 DEF T

(* What two of them make of the same bytes is the same.                       *)
LEMMA TakesAgree ==
  ASSUME NEW s, NEW t, NEW n \in Nat, NEW l \in Nat, NEW f, NEW g,
         Takes(f, s, n), Takes(g, t, l), n <= l, Agree(s, t, n)
  PROVE  f[n] = g[n]
<1> DEFINE T == {k \in Nat : k \in 0..n => f[k] = g[k]}
<1>1. /\ \A k \in 0..n : f[k] = IF k = 0 THEN <<>>
                                ELSE IF s[k][2] > 6 THEN Append(f[k - 1], s[k]) ELSE f[k - 1]
      /\ \A k \in 0..l : g[k] = IF k = 0 THEN <<>>
                                ELSE IF t[k][2] > 6 THEN Append(g[k - 1], t[k]) ELSE g[k - 1]
  BY DEF Takes
<1>2. 0 \in T
  <2>1. 0 \in 0..n /\ 0 \in 0..l
    OBVIOUS
  <2>2. f[0] = <<>> /\ g[0] = <<>>
    BY <1>1, <2>1
  <2> QED
    BY <2>2
<1>3. ASSUME NEW k \in T
      PROVE  k + 1 \in T
  <2> SUFFICES ASSUME k + 1 \in 0..n
               PROVE  f[k + 1] = g[k + 1]
    OBVIOUS
  <2>1. k \in Nat /\ k \in 0..n /\ f[k] = g[k]
    OBVIOUS
  <2> HIDE DEF T
  <2>2. k + 1 \in 0..l /\ k + 1 \in 1..n /\ k + 1 # 0 /\ (k + 1) - 1 = k
    BY <2>1
  <2>3. s[k + 1] = t[k + 1]
    BY <2>2 DEF Agree
  <2>4. /\ f[k + 1] = IF s[k + 1][2] > 6 THEN Append(f[k], s[k + 1]) ELSE f[k]
        /\ g[k + 1] = IF t[k + 1][2] > 6 THEN Append(g[k], t[k + 1]) ELSE g[k]
    BY <1>1, <2>2
  <2> QED
    BY <2>1, <2>3, <2>4
<1> HIDE DEF T
<1>4. \A k \in Nat : k \in T
  BY <1>2, <1>3, Induct DEF T
<1> QED
  BY <1>4 DEF T

(* PayloadOf, without the choice in its recursion.                            *)
LEMMA PayloadIs ==
  ASSUME NEW s, Len(s) \in Nat, NEW f, Takes(f, s, Len(s))
  PROVE  Send!PayloadOf(s) = f[Len(s)]
<1> DEFINE g == CHOOSE g : Takes(g, s, Len(s))
<1>1. Takes(g, s, Len(s))
  OBVIOUS
<1>2. Send!PayloadOf(s) = g[Len(s)]
  BY DEF Send!PayloadOf, Takes, Send!HeaderSize
<1> HIDE DEF g
<1>3. f[Len(s)] = g[Len(s)]
  BY <1>1, TakesAgree DEF Agree
<1> QED
  BY <1>2, <1>3

(* What PayloadOf takes out are bytes of the sequence,                        *)
LEMMA PayloadType ==
  ASSUME NEW S, NEW s \in Seq(S)
  PROVE  Send!PayloadOf(s) \in Seq(S)
<1>1. PICK f \in [0..Len(s) -> Seq(S)] : Takes(f, s, Len(s))
  BY TakesExist
<1>2. Len(s) \in Nat /\ Len(s) \in 0..Len(s)
  OBVIOUS
<1>3. Send!PayloadOf(s) = f[Len(s)]
  BY <1>1, <1>2, PayloadIs
<1>4. f[Len(s)] \in Seq(S)
  BY <1>2
<1> QED
  BY <1>3, <1>4

(* none of a header,                                                          *)
LEMMA NoPayload ==
  ASSUME NEW S, NEW s \in Seq(S), \A i \in 1..Len(s) : ~(s[i][2] > 6)
  PROVE  Send!PayloadOf(s) = <<>>
<1> DEFINE f == [k \in 0..Len(s) |-> <<>>]
<1>1. Len(s) \in Nat /\ Len(s) \in 0..Len(s)
  OBVIOUS
<1>2. \A k \in 0..Len(s) :
        f[k] = IF k = 0 THEN <<>>
               ELSE IF s[k][2] > 6 THEN Append(f[k - 1], s[k]) ELSE f[k - 1]
  <2> TAKE k \in 0..Len(s)
  <2>1. k # 0 => k \in 1..Len(s) /\ k - 1 \in 0..Len(s)
    BY <1>1
  <2>2. f[k] = <<>> /\ (k # 0 => f[k - 1] = <<>> /\ ~(s[k][2] > 6))
    BY <2>1
  <2> HIDE DEF f
  <2> QED
    BY <2>2
<1>3. Takes(f, s, Len(s))
  BY <1>2 DEF Takes
<1>4. f[Len(s)] = <<>>
  BY <1>1
<1> HIDE DEF f
<1> QED
  BY <1>1, <1>3, <1>4, PayloadIs

(* all of a payload,                                                          *)
LEMMA AllPayload ==
  ASSUME NEW S, NEW s \in Seq(S), \A i \in 1..Len(s) : s[i][2] > 6
  PROVE  Send!PayloadOf(s) = s
<1> DEFINE f == [k \in 0..Len(s) |-> SubSeq(s, 1, k)]
<1>1. Len(s) \in Nat /\ Len(s) \in 0..Len(s) /\ SubSeq(s, 1, Len(s)) = s
  BY SubSeqFull
<1>2. \A k \in 0..Len(s) :
        f[k] = IF k = 0 THEN <<>>
               ELSE IF s[k][2] > 6 THEN Append(f[k - 1], s[k]) ELSE f[k - 1]
  <2> TAKE k \in 0..Len(s)
  <2>1. CASE k = 0
    BY <2>1, SubSeqEmpty
  <2>2. CASE k # 0
    <3>1. k \in 1..Len(s) /\ k - 1 \in 0..Len(s) /\ 1 \in 1..Len(s) /\ k \in 1..Len(s)
      BY <1>1, <2>2
    <3>2. SubSeq(s, 1, k) = SubSeq(s, 1, k - 1) \o <<s[k]>>
      BY <3>1, SubSeqRecursiveSecond
    <3>3. SubSeq(s, 1, k - 1) \in Seq(S) /\ s[k] \in S
      BY <3>1
    <3>4. SubSeq(s, 1, k) = Append(SubSeq(s, 1, k - 1), s[k])
      BY <3>2, <3>3, AppendIsConcat
    <3>5. s[k][2] > 6
      BY <3>1
    <3> QED
      BY <2>2, <3>1, <3>4, <3>5
  <2> QED
    BY <2>1, <2>2
<1>3. Takes(f, s, Len(s))
  BY <1>2 DEF Takes
<1>4. f[Len(s)] = s
  BY <1>1
<1> HIDE DEF f
<1> QED
  BY <1>1, <1>3, <1>4, PayloadIs

(* and of two sequences the payload of the first comes first.                 *)
LEMMA PayloadConcat ==
  ASSUME NEW S, NEW s \in Seq(S), NEW t \in Seq(S)
  PROVE  Send!PayloadOf(s \o t) = Send!PayloadOf(s) \o Send!PayloadOf(t)
<1> DEFINE u == s \o t
           m == Len(s)
           n == Len(t)
           l == Len(u)
<1>1. /\ m \in Nat /\ n \in Nat /\ u \in Seq(S) /\ l = m + n /\ l \in Nat
      /\ \A i \in 1..m : u[i] = s[i]
      /\ \A i \in 1..n : u[m + i] = t[i] /\ t[i] \in S
  <2>1. /\ m \in Nat /\ n \in Nat /\ u \in Seq(S) /\ Len(u) = m + n
        /\ \A i \in 1..(m + n) : u[i] = IF i <= m THEN s[i] ELSE t[i - m]
    BY ConcatProperties, LenProperties
  <2> HIDE DEF u, m
  <2>2. \A i \in 1..m : u[i] = s[i]
    BY <2>1
  <2>3. ASSUME NEW i \in 1..n PROVE u[m + i] = t[i]
    <3>1. m + i \in 1..(m + n) /\ ~(m + i <= m) /\ (m + i) - m = i
      BY <2>1
    <3>2. u[m + i] = t[(m + i) - m]
      BY <2>1, <3>1
    <3> QED
      BY <3>1, <3>2
  <2> QED
    BY <2>1, <2>2, <2>3
<1>2. PICK f \in [0..m -> Seq(S)] : Takes(f, s, m)
  BY TakesExist
<1>3. PICK g \in [0..n -> Seq(S)] : Takes(g, t, n)
  BY TakesExist
<1>4. PICK h \in [0..l -> Seq(S)] : Takes(h, u, l)
  BY <1>1, TakesExist
<1>5. /\ Send!PayloadOf(s) = f[m] /\ Send!PayloadOf(t) = g[n] /\ Send!PayloadOf(u) = h[l]
  BY <1>1, <1>2, <1>3, <1>4, PayloadIs
<1> HIDE DEF u, m, n, l
<1>6. m \in Nat /\ n \in Nat /\ l \in Nat /\ m <= l
  BY <1>1
<1>7. h[m] = f[m] /\ f[m] \in Seq(S)
  <2>1. \A i \in 1..m : s[i] = u[i]
    BY <1>1
  <2>2. Agree(s, u, m)
    BY <2>1 DEF Agree
  <2>3. f[m] = h[m]
    <3>1. Takes(f, s, m) /\ Takes(h, u, l)
      BY <1>2, <1>4
    <3>2. \A a, b : Takes(a, s, m) /\ Takes(b, u, l) => a[m] = b[m]
      <4> TAKE a, b
      <4> HAVE Takes(a, s, m) /\ Takes(b, u, l)
      <4> QED
        BY <1>6, <2>2, TakesAgree
    <3> QED
      BY <3>1, <3>2
  <2>4. m \in 0..m
    BY <1>6
  <2> QED
    BY <2>3, <2>4
<1> DEFINE T == {k \in Nat : k \in 0..n => h[m + k] = f[m] \o g[k]}
<1>c. Takes(g, t, n) /\ n \in Nat
  BY <1>3, <1>6
<1>d. Takes(h, u, l) /\ l \in Nat
  BY <1>4, <1>6
<1>a. /\ g[0] = <<>>
      /\ \A k \in 0..n : k # n =>
           g[k + 1] = IF t[k + 1][2] > 6 THEN Append(g[k], t[k + 1]) ELSE g[k]
  BY ONLY <1>c, TakesAt
<1>b. \A k \in 0..l : k # l =>
        h[k + 1] = IF u[k + 1][2] > 6 THEN Append(h[k], u[k + 1]) ELSE h[k]
  BY ONLY <1>d, TakesAt
<1>8. 0 \in T
  <2>1. f[m] \o <<>> = f[m] /\ m + 0 = m
    BY <1>1, <1>7
  <2> QED
    BY <1>7, <1>a, <2>1
<1>9. ASSUME NEW k \in T
      PROVE  k + 1 \in T
  <2>0. k \in Nat /\ k + 1 \in Nat
    OBVIOUS
  <2>a. k \in 0..n => h[m + k] = f[m] \o g[k]
    OBVIOUS
  <2> SUFFICES ASSUME k + 1 \in 0..n
               PROVE  h[m + (k + 1)] = f[m] \o g[k + 1]
    BY <2>0
  <2>1. k \in Nat /\ k \in 0..n /\ k # n /\ h[m + k] = f[m] \o g[k]
    BY <1>6, <2>0, <2>a
  <2> HIDE DEF T
  <2>2. /\ m + k \in 0..l /\ m + k # l /\ (m + k) + 1 = m + (k + 1)
        /\ k + 1 \in 1..n
    BY <1>1, <2>1
  <2>3. u[m + (k + 1)] = t[k + 1] /\ t[k + 1] \in S
    BY <1>1, <2>2
  <2>4. h[m + (k + 1)] = IF t[k + 1][2] > 6 THEN Append(h[m + k], t[k + 1]) ELSE h[m + k]
    <3>1. h[(m + k) + 1] = IF u[(m + k) + 1][2] > 6
                           THEN Append(h[m + k], u[(m + k) + 1]) ELSE h[m + k]
      BY <1>b, <2>2
    <3> QED
      BY <2>2, <2>3, <3>1
  <2>5. g[k + 1] = IF t[k + 1][2] > 6 THEN Append(g[k], t[k + 1]) ELSE g[k]
    BY <1>a, <2>1
  <2>6. CASE t[k + 1][2] > 6
    <3> DEFINE a == f[m]
               b == g[k]
               c == t[k + 1]
    <3>1. a \in Seq(S) /\ b \in Seq(S) /\ c \in S
      BY <1>7, <2>1, <2>3
    <3> HIDE DEF a, b, c
    <3>2. a \o b \in Seq(S) /\ <<c>> \in Seq(S)
      BY <3>1
    <3>3. Append(a \o b, c) = (a \o b) \o <<c>> /\ Append(b, c) = b \o <<c>>
      BY <3>1, <3>2, AppendIsConcat
    <3>4. (a \o b) \o <<c>> = a \o (b \o <<c>>)
      BY <3>1, <3>2
    <3> QED
      BY <2>1, <2>4, <2>5, <2>6, <3>3, <3>4 DEF a, b, c
  <2>7. CASE ~(t[k + 1][2] > 6)
    BY <2>1, <2>4, <2>5, <2>7
  <2> QED
    BY <2>6, <2>7
<1> HIDE DEF T
<1>10. \A k \in Nat : k \in T
  BY <1>8, <1>9, Induct DEF T
<1>11. h[m + n] = f[m] \o g[n]
  <2>1. n \in T /\ n \in 0..n
    BY <1>6, <1>10
  <2> QED
    BY <2>1 DEF T
<1> QED
  BY <1>1, <1>5, <1>11 DEF u

-----------------------------------------------------------------------------
-----------------------------------------------------------------------------
(* The inductive invariant of the handler table: an entry is empty, or was    *)
(* registered.                                                                *)
HandlerInv ==
  /\ table \in [DOMAIN table -> Handler!Entry]
  /\ \A i \in DOMAIN table :
       IF table[i].handler = "none" THEN table[i].status = {}
       ELSE <<i, table[i].handler, table[i].status>> \in registered
  /\ Handler!RanAsRegistered

(* It holds at the start.                                                     *)
LEMMA HandlerStarts ==
  ASSUME Handler!Init
  PROVE  HandlerInv
<1> USE DEF Handler!Init, Handler!NoLast
<1>1. table \in [DOMAIN table -> Handler!Entry]
  OBVIOUS
<1>2. Handler!RanAsRegistered
  BY PartsAssumption DEF Handler!RanAsRegistered, Handler!MsgHandlerAssumption
<1> QED
  BY <1>1, <1>2 DEF HandlerInv

(* Every step of the table keeps it.                                          *)
LEMMA HandlerStep ==
  ASSUME HandlerInv, [Handler!Next]_(Handler!vars)
  PROVE  HandlerInv'
<1> USE DEF HandlerInv, Handler!NoLast
<1>a. Handlers \cap {"none", "unknown", "invalid status", "nothing"} = {}
  BY PartsAssumption DEF Handler!MsgHandlerAssumption
<1>1. ASSUME NEW min \in MsgIds, NEW max \in MsgIds, Handler!InitTable(min, max)
      PROVE  HandlerInv'
  BY <1>1, <1>a DEF Handler!InitTable, Handler!Entry, Handler!RanAsRegistered
<1>2. CASE Handler!Destroy
  BY <1>2, <1>a DEF Handler!Destroy, Handler!Entry, Handler!RanAsRegistered
<1>3. ASSUME NEW i \in MsgIds, NEW status \in SUBSET Bits, Handler!Dispatch(i, status)
      PROVE  HandlerInv'
  <2>1. UNCHANGED <<table, registered>>
    BY <1>3 DEF Handler!Dispatch
  <2>2. last' = [id |-> i, status |-> status, result |-> Handler!Result(i, status)]
    BY <1>3 DEF Handler!Dispatch
  <2>3. CASE i \notin DOMAIN table
    BY <2>1, <2>2, <2>3, <1>a DEF Handler!Result, Handler!RanAsRegistered
  <2>4. CASE i \in DOMAIN table
    <3> DEFINE e == table[i]
    <3>1. e.handler # "none" => <<i, e.handler, e.status>> \in registered
      BY <2>4
    <3>2. e.handler = "none" => e.status = {}
      BY <2>4
    <3>3. last'.result = IF Handler!Allowed(e, status) THEN e.handler ELSE "invalid status"
      BY <2>2, <2>4 DEF Handler!Result
    <3>4. ASSUME last'.result \in Handlers
          PROVE  \E r \in registered :
                   /\ r[1] = last'.id /\ (r[3] = {} \/ r[3] \cap last'.status # {})
                   /\ r[2] = last'.result
      <4>1. e.handler # "none" /\ e.handler = last'.result /\ Handler!Allowed(e, status)
        BY <3>3, <3>4, <1>a
      <4> <<i, e.handler, e.status>> \in registered
        BY <3>1, <4>1
      <4> WITNESS <<i, e.handler, e.status>> \in registered
      <4> QED
        BY <4>1, <2>2 DEF Handler!Allowed
    <3>5. ASSUME last'.result = "invalid status"
          PROVE  \E r \in registered :
                   r[1] = last'.id /\ ~(r[1] = last'.id /\ (r[3] = {} \/ r[3] \cap last'.status # {}))
      <4>1. e.handler \in Handlers \cup {"none"}
        BY <2>4 DEF Handler!Entry
      <4>2. ~Handler!Allowed(e, status)
        BY <3>3, <3>5, <4>1, <1>a
      <4>3. e.handler # "none"
        BY <4>2, <3>2 DEF Handler!Allowed
      <4> <<i, e.handler, e.status>> \in registered
        BY <3>1, <4>3
      <4> WITNESS <<i, e.handler, e.status>> \in registered
      <4> QED
        BY <4>2, <2>2 DEF Handler!Allowed
    <3>6. Handler!RanAsRegistered'
      BY <2>1, <3>4, <3>5 DEF Handler!RanAsRegistered
    <3> QED
      BY <2>1, <3>6
  <2> QED
    BY <2>3, <2>4
<1>4. ASSUME NEW i \in MsgIds, NEW status \in SUBSET Bits, NEW h \in Handlers,
             Handler!RegisterMsg(i, h, status)
      PROVE  HandlerInv'
  <2>1. /\ i \in DOMAIN table /\ table[i].handler = "none"
        /\ table' = [table EXCEPT ![i] = [status |-> status, handler |-> h]]
        /\ registered' = registered \cup {<<i, h, status>>}
        /\ last' = Handler!NoLast
    BY <1>4 DEF Handler!RegisterMsg, Handler!FreeEntry
  <2>2. table' \in [DOMAIN table' -> Handler!Entry]
    BY <2>1 DEF Handler!Entry
  <2>3. ASSUME NEW j \in DOMAIN table'
        PROVE  IF table'[j].handler = "none" THEN table'[j].status = {}
               ELSE <<j, table'[j].handler, table'[j].status>> \in registered'
    BY <2>1, <2>3, <1>a
  <2>4. Handler!RanAsRegistered'
    BY <2>1, <1>a DEF Handler!RanAsRegistered
  <2> QED
    BY <2>2, <2>3, <2>4
<1>5. CASE UNCHANGED Handler!vars
  BY <1>5 DEF Handler!vars, Handler!RanAsRegistered
<1> QED
  BY <1>1, <1>2, <1>3, <1>4, <1>5 DEF Handler!Next

-----------------------------------------------------------------------------
(* The buffer the work thread has in its hand.                                *)
LogInHand == IF pc \in {"write", "give_back"} THEN 1 ELSE 0

(* The inductive invariant of the log. A work thread that runs finds, or      *)
(* gives back, a buffer to swap in; with a limit there are never more buffers *)
(* than it and the three of the start.                                        *)
LogInv ==
  /\ cur \in Seq(Nat) /\ full \in Seq(Seq(Nat)) /\ avail \in Nat /\ lines \in Nat
  /\ pc \notin {"none", "ended"} => Len(full) + avail + LogInHand >= 1
  /\ LogBufs # 0 => 1 + Len(full) + avail + LogInHand <= LogBufs + 3

(* It holds at the start.                                                     *)
LEMMA LogStarts ==
  ASSUME Log!Init
  PROVE  LogInv
<1>1. LogBufs \in Nat
  BY PartsAssumption DEF Log!AsyncLogAssumption
<1>2. /\ cur = <<>> /\ full = <<>> /\ lines = 0
      /\ (pc = "none" /\ avail = 0) \/ (pc = "ready" /\ avail = 1)
  BY DEF Log!Init, Log!SpareAtStart
<1>3. Len(full) = 0 /\ LogInHand = 0
  BY <1>2 DEF LogInHand
<1> QED
  BY <1>1, <1>2, <1>3 DEF LogInv

(* _get_next_data_buf keeps it, with the buffer the thread gives back.        *)
LEMMA NextBufStep ==
  ASSUME LogInv, pc \in {"ready", "give_back"},
         NEW otherwise \in {"ended", "flush"},
         \/ pc = "ready" /\ otherwise = "ended" /\ Log!GetNextDataBuf(avail, otherwise)
         \/ pc = "give_back" /\ otherwise = "flush" /\ Log!GetNextDataBuf(avail + 1, otherwise),
         lines' = lines
  PROVE  LogInv'
<1> DEFINE spare == IF pc = "ready" THEN avail ELSE avail + 1
<1>1. /\ cur \in Seq(Nat) /\ full \in Seq(Seq(Nat)) /\ avail \in Nat /\ lines \in Nat
      /\ Len(full) \in Nat /\ LogBufs \in Nat
  BY PartsAssumption DEF LogInv, Log!AsyncLogAssumption
<1>2. spare \in Nat /\ Log!GetNextDataBuf(spare, otherwise)
  BY <1>1
<1>3. /\ Len(full) + spare >= 1
      /\ LogBufs # 0 => 1 + Len(full) + spare <= LogBufs + 3
  BY <1>1 DEF LogInv, LogInHand
<1> HIDE DEF spare
<1>4. CASE full # <<>> /\ full' = Tail(full) /\ avail' = spare /\ pc' = "write" /\ cur' = cur
  <2>1. full' \in Seq(Seq(Nat)) /\ Len(full') = Len(full) - 1 /\ Len(full) >= 1
    BY <1>1, <1>4
  <2>2. LogInHand' = 1
    BY <1>4 DEF LogInHand
  <2> QED
    BY <1>1, <1>2, <1>3, <1>4, <2>1, <2>2 DEF LogInv
<1>5. CASE full = <<>> /\ full' = full /\ avail' = spare - 1 /\ pc' = "write" /\ cur' = <<>>
  <2>1. LogInHand' = 1 /\ Len(full) = 0
    BY <1>5 DEF LogInHand
  <2>2. spare >= 1 /\ avail' \in Nat
    BY <1>2, <1>3, <1>5, <2>1
  <2> QED
    BY <1>1, <1>2, <1>3, <1>5, <2>1, <2>2 DEF LogInv
<1>6. CASE full = <<>> /\ full' = full /\ avail' = spare /\ pc' = otherwise /\ cur' = cur
  <2>1. LogInHand' = 0
    BY <1>6 DEF LogInHand
  <2> QED
    BY <1>1, <1>2, <1>3, <1>6, <2>1 DEF LogInv
<1> QED
  BY <1>2, <1>4, <1>5, <1>6 DEF Log!GetNextDataBuf

(* Every step of the log keeps it.                                            *)
LEMMA LogStep ==
  ASSUME LogInv, [Log!Next]_(Log!vars)
  PROVE  LogInv'
<1>1. /\ cur \in Seq(Nat) /\ full \in Seq(Seq(Nat)) /\ avail \in Nat /\ lines \in Nat
      /\ Len(full) \in Nat /\ LogBufs \in Nat /\ LogLens \subseteq Nat
  BY PartsAssumption DEF LogInv, Log!AsyncLogAssumption
<1>2. CASE UNCHANGED <<cur, full, avail, lines>> /\ LogInHand' = LogInHand
           /\ (pc' \notin {"none", "ended"} => pc \notin {"none", "ended"})
  BY <1>2 DEF LogInv
<1>3. ASSUME UNCHANGED pc
      PROVE  LogInHand' = LogInHand
  BY <1>3 DEF LogInHand
<1>4. ASSUME NEW a \in Appenders, NEW count \in LogLens, Log!Logged(a, count)
      PROVE  LogInv'
  <2>1. /\ pc' = pc /\ pc # "none" /\ lines' = lines + 1
        /\ Log!Line(lines + 1, count) \in Seq(Nat)
    <3>1. \A k \in Nat, n \in Nat : [i \in 1..n |-> k] \in Seq(Nat)
      OBVIOUS
    <3>2. lines + 1 \in Nat /\ count \in Nat
      BY <1>1
    <3>3. Log!Line(lines + 1, count) \in Seq(Nat)
      BY <3>1, <3>2 DEF Log!Line
    <3> QED
      BY <1>4, <3>3 DEF Log!Logged
  <2>2. CASE cur' = cur \o Log!Line(lines + 1, count) /\ UNCHANGED <<full, avail>>
    BY <1>1, <1>3, <2>1, <2>2 DEF LogInv
  <2>3. CASE /\ ~Log!LogFull
             /\ full' = Append(full, cur) /\ cur' = Log!Line(lines + 1, count)
             /\ avail' = IF avail > 0 THEN avail - 1 ELSE 0
    <3>1. full' \in Seq(Seq(Nat)) /\ Len(full') = Len(full) + 1
      BY <1>1, <2>3
    <3>2. LogBufs # 0 => Len(full) <= LogBufs
      BY <1>1, <2>3 DEF Log!LogFull
    <3>3. LogInHand' = LogInHand /\ LogInHand \in {0, 1}
      BY <1>3, <2>1 DEF LogInHand
    <3>4. avail' \in Nat /\ (avail > 0 => avail' = avail - 1) /\ (avail = 0 => avail' = 0)
      BY <1>1, <2>3
    <3>5. LogBufs # 0 => 1 + Len(full') + avail' + LogInHand' <= LogBufs + 3
      <4>1. LogBufs # 0 => 1 + Len(full) + avail + LogInHand <= LogBufs + 3
        BY DEF LogInv
      <4> QED
        BY <1>1, <3>1, <3>2, <3>3, <3>4, <4>1
    <3>6. Len(full') + avail' + LogInHand' >= 1
      BY <1>1, <3>1, <3>3, <3>4
    <3> QED
      BY <1>1, <2>1, <2>3, <3>1, <3>4, <3>5, <3>6 DEF LogInv
  <2> QED
    BY <1>4, <2>2, <2>3 DEF Log!Logged
<1>5. CASE Log!Join
  <2>1. pc' = pc /\ pc \in {"ended", "none"} /\ avail' = 0 /\ UNCHANGED <<cur, full, lines>>
    BY <1>5 DEF Log!Join
  <2>2. LogInHand' = 0 /\ LogInHand = 0
    BY <2>1 DEF LogInHand
  <2> QED
    BY <1>1, <2>1, <2>2 DEF LogInv
<1>6. CASE Log!Write
  BY <1>6, <1>1, <1>2 DEF Log!Write, LogInHand
<1>7. CASE Log!Look \/ Log!GiveBack
  BY <1>7, NextBufStep DEF Log!Look, Log!GiveBack
<1>8. CASE Log!Wait \/ Log!WakeUp \/ Log!Flush
  BY <1>8, <1>2 DEF Log!Wait, Log!WakeUp, Log!Flush, Log!bufVars, LogInHand
<1>9. CASE Log!Stop \/ Log!NotifyStop
  BY <1>9, <1>2 DEF Log!Stop, Log!NotifyStop, Log!Woken, Log!bufVars, LogInHand
<1>10. ASSUME NEW a \in Appenders, NEW count \in LogLens,
              Log!Dropped(a, count) \/ Log!LoggedNowhere(a, count)
       PROVE  LogInv'
  BY <1>10, <1>2, <1>3 DEF Log!Dropped, Log!LoggedNowhere, Log!vars, Log!bufVars
<1>11. ASSUME NEW a \in Appenders, Log!Notify(a)
       PROVE  LogInv'
  BY <1>11, <1>2 DEF Log!Notify, Log!Woken, Log!bufVars, LogInHand
<1>12. CASE UNCHANGED Log!vars
  BY <1>12, <1>2, <1>3 DEF Log!vars, Log!bufVars
<1> QED
  BY <1>4, <1>5, <1>6, <1>7, <1>8, <1>9, <1>10, <1>11, <1>12 DEF Log!Next, Log!Worker

(* With it BuffersAccounted holds.                                            *)
LEMMA LogCounts ==
  ASSUME LogInv
  PROVE  Log!BuffersAccounted
<1>1. full \in Seq(Seq(Nat)) /\ avail \in Nat /\ LogBufs \in Nat
  BY PartsAssumption DEF LogInv, Log!AsyncLogAssumption
<1>2. pc = "ready" /\ full = <<>> /\ cur # <<>> => avail > 0
  BY <1>1 DEF LogInv, LogInHand
<1> QED
  BY <1>1, <1>2 DEF LogInv, LogInHand, Log!BuffersAccounted

-----------------------------------------------------------------------------
(* A byte of message 1..max, or of none (0).                                  *)
SendByte(max) == (0..max) \X Nat

(* The types of the send side, after at most max calls of send_msg.           *)
SendTyped(max) ==
  /\ data \in Seq(SendByte(max)) /\ Len(data) <= SendBuf
  /\ sending \in Seq(SendByte(max)) /\ Len(sending) <= SendBuf
  /\ wait \in Seq(SendByte(max))
  /\ wire \in Seq(SendByte(max))
  /\ calls \in 0..max

(* The inductive invariant of the send side: its types, and that no write is  *)
(* empty.                                                                     *)
SendInv(max) == SendTyped(max) /\ Send!NoEmptyWrite

(* What a call of send_msg does to the bytes, whether the application or the  *)
(* link makes it.                                                             *)
Placing(count, alloc) ==
  LET r == Send!Placed(calls + 1, count, alloc)
      start == r.ok /\ wait = <<>> /\ ~writing
  IN
  /\ calls' = calls + 1
  /\ wait' = r.wait
  /\ \/ /\ start
        /\ writing' = TRUE /\ sending' = r.data /\ data' = sending /\ chain' = "post"
     \/ /\ ~start
        /\ data' = r.data
        /\ UNCHANGED <<writing, sending, chain>>
  /\ UNCHANGED wire

(* The steps of the send side, with what they do besides left out.            *)
SendStep(max) ==
  \/ calls < max /\ \E count \in SendSizes, alloc \in BOOLEAN : Placing(count, alloc)
  \/ \E n \in 1..Len(sending) : Send!WriteDone(n)
  \/ Send!PostWrite \/ Send!Refill \/ Send!NextWrite

(* A step of SendPath is one.                                                 *)
LEMMA StepOfSend ==
  ASSUME Send!Next
  PROVE  SendStep(SendMax)
<1>1. ASSUME NEW count \in SendSizes, NEW alloc \in {TRUE, ~AllocFails}, Send!SendMsg(count, alloc)
      PROVE  SendStep(SendMax)
  <2>1. calls < SendMax /\ Placing(count, alloc) /\ alloc \in BOOLEAN
    BY <1>1 DEF Send!SendMsg, Placing
  <2> QED
    BY <2>1 DEF SendStep
<1> QED
  BY <1>1 DEF Send!Next, SendStep

(* A sequence cut in two is the two pieces.                                   *)
LEMMA CutInTwo ==
  ASSUME NEW S, NEW s \in Seq(S), NEW n \in 0..Len(s)
  PROVE  /\ SubSeq(s, 1, n) \in Seq(S) /\ SubSeq(s, n + 1, Len(s)) \in Seq(S)
         /\ Len(SubSeq(s, n + 1, Len(s))) = Len(s) - n
         /\ SubSeq(s, 1, n) \o SubSeq(s, n + 1, Len(s)) = s
<1>1. Len(s) \in Nat
  BY LenProperties
<1>2. 1 \in 1..Len(s) + 1 /\ n \in (1 - 1)..Len(s) /\ Len(s) \in n..Len(s)
  BY <1>1
<1>3. SubSeq(s, 1, n) \o SubSeq(s, n + 1, Len(s)) = SubSeq(s, 1, Len(s))
  BY <1>2, ConcatAdjacentSubSeq
<1>4. SubSeq(s, 1, Len(s)) = s
  BY SubSeqFull
<1>5. SubSeq(s, 1, n) \in Seq(S)
  BY <1>1
<1>6. SubSeq(s, n + 1, Len(s)) \in Seq(S) /\ Len(SubSeq(s, n + 1, Len(s))) = Len(s) - n
  BY <1>1
<1> QED
  BY <1>3, <1>4, <1>5, <1>6

(* A sequence goes on after any of its prefixes.                              *)
LEMMA SequenceSplits ==
  ASSUME NEW S, NEW s \in Seq(S), NEW t \in Seq(S),
         Len(s) <= Len(t), \A i \in 1..Len(s) : t[i] = s[i]
  PROVE  \E u \in Seq(S) : t = s \o u
<1> DEFINE u == SubSeq(t, Len(s) + 1, Len(t))
<1>1. Len(s) \in Nat /\ Len(t) \in Nat /\ \A i \in 1..Len(t) : t[i] \in S
  BY LenProperties, ElementOfSeq
<1>2. /\ u \in Seq(S) /\ Len(u) = Len(t) - Len(s)
      /\ \A i \in 1..(Len(t) - Len(s)) : u[i] = t[Len(s) + i]
  <2>1. /\ u \in Seq(S) /\ Len(u) = IF Len(s) + 1 <= Len(t) THEN Len(t) - (Len(s) + 1) + 1 ELSE 0
        /\ \A i \in 1..(Len(t) - (Len(s) + 1) + 1) : u[i] = t[(Len(s) + 1) + i - 1]
    <3>1. \A i \in (Len(s) + 1)..Len(t) : t[i] \in S
      BY <1>1
    <3> QED
      BY <1>1, <3>1, SubSeqProperties
  <2> HIDE DEF u
  <2> QED
    BY <1>1, <2>1
<1> HIDE DEF u
<1>3. /\ s \o u \in Seq(S) /\ Len(s \o u) = Len(s) + Len(u)
      /\ \A i \in 1..(Len(s) + Len(u)) :
           (s \o u)[i] = IF i <= Len(s) THEN s[i] ELSE u[i - Len(s)]
  BY <1>2, ConcatProperties
<1>4. Len(s \o u) = Len(t)
  BY <1>1, <1>2, <1>3
<1>5. ASSUME NEW i \in 1..Len(t) PROVE t[i] = (s \o u)[i]
  <2>1. (s \o u)[i] = IF i <= Len(s) THEN s[i] ELSE u[i - Len(s)]
    BY <1>1, <1>2, <1>3
  <2>2. CASE i <= Len(s)
    BY <2>1, <2>2, <1>1
  <2>3. CASE i > Len(s)
    <3>1. i - Len(s) \in 1..(Len(t) - Len(s)) /\ Len(s) + (i - Len(s)) = i
      BY <1>1, <2>3
    <3> QED
      BY <1>1, <1>2, <2>1, <2>3, <3>1, SMTT(30)
  <2>4. i <= Len(s) \/ i > Len(s)
    BY <1>1
  <2> QED
    BY <2>2, <2>3, <2>4
<1>6. t = s \o u
  BY <1>3, <1>4, <1>5, SeqEqual
<1> QED
  BY <1>2, <1>6

(* wsend_buffer::append keeps to the size of the buffer. *)
LEMMA AppendedType ==
  ASSUME NEW S, NEW b \in Seq(S), Len(b) <= SendBuf, NEW s \in Seq(S), SendBuf \in Nat
  PROVE  /\ Send!Fits(b, s) \in 0..Len(s)
         /\ Send!Appended(b, s) \in Seq(S)
         /\ Len(Send!Appended(b, s)) = Len(b) + Send!Fits(b, s)
         /\ Len(b) + Send!Fits(b, s) <= SendBuf
         /\ \A i \in 1..Len(b) : Send!Appended(b, s)[i] = b[i]
<1> DEFINE n == Send!Fits(b, s)
<1>1. Len(b) \in Nat /\ Len(s) \in Nat
  OBVIOUS
<1>2. n \in 0..Len(s) /\ Len(b) + n <= SendBuf
  BY <1>1 DEF Send!Fits, Send!Least
<1> HIDE DEF n
<1>3. SubSeq(s, 1, n) \in Seq(S) /\ Len(SubSeq(s, 1, n)) = n
  BY <1>1, <1>2
<1>4. /\ b \o SubSeq(s, 1, n) \in Seq(S) /\ Len(b \o SubSeq(s, 1, n)) = Len(b) + n
      /\ \A i \in 1..Len(b) : (b \o SubSeq(s, 1, n))[i] = b[i]
  BY <1>1, <1>2, <1>3, ConcatProperties
<1> QED
  BY <1>2, <1>4 DEF n, Send!Appended

(* The parts of a message have their sizes. *)
LEMMA PartsType ==
  ASSUME NEW max \in Nat, NEW m \in 0..max, NEW count \in Nat
  PROVE  /\ Send!Payload(m, count) \in Seq(SendByte(max)) /\ Len(Send!Payload(m, count)) = count
         /\ Send!IdBytes(m) \in Seq(SendByte(max)) /\ Len(Send!IdBytes(m)) = 2
         /\ Send!SizeBytes(m) \in Seq(SendByte(max)) /\ Len(Send!SizeBytes(m)) = 4
         /\ << <<Send!Junk, 5>>, <<Send!Junk, 6>> >> \in Seq(SendByte(max))
<1>1. /\ Send!Payload(m, count) \in Seq(SendByte(max))
      /\ Len(Send!Payload(m, count)) = count
  <2>1. \A k \in 1..count : <<m, 6 + k>> \in SendByte(max)
    BY DEF SendByte
  <2>2. [k \in 1..count |-> <<m, 6 + k>>] \in [1..count -> SendByte(max)]
    BY <2>1
  <2>3. \A f \in [1..count -> SendByte(max)] : f \in Seq(SendByte(max)) /\ Len(f) = count
    OBVIOUS
  <2>4. Send!Payload(m, count) = [k \in 1..count |-> <<m, 6 + k>>]
    BY DEF Send!Payload, Send!HeaderSize
  <2> QED
    BY <2>2, <2>3, <2>4
<1>2. \A k \in 1..6 : <<m, k>> \in SendByte(max) /\ <<0, k>> \in SendByte(max)
  BY DEF SendByte
<1> HIDE DEF SendByte
<1>3. Send!IdBytes(m) \in Seq(SendByte(max)) /\ Len(Send!IdBytes(m)) = 2
  BY <1>2 DEF Send!IdBytes
<1>4. Send!SizeBytes(m) \in Seq(SendByte(max)) /\ Len(Send!SizeBytes(m)) = 4
  BY <1>2 DEF Send!SizeBytes
<1>5. << <<Send!Junk, 5>>, <<Send!Junk, 6>> >> \in Seq(SendByte(max))
  BY <1>2 DEF Send!Junk
<1> QED
  BY <1>1, <1>3, <1>4, <1>5

(* Bytes of headers, and bytes of payloads.                                   *)
OfHeaders(s) == \A i \in 1..Len(s) : ~(s[i][2] > 6)
OfPayload(s) == \A i \in 1..Len(s) : s[i][2] > 6

(* The parts of a message are of the one or of the other.                     *)
LEMMA PartsKind ==
  ASSUME NEW m, NEW count \in Nat
  PROVE  /\ OfPayload(Send!Payload(m, count))
         /\ OfHeaders(Send!IdBytes(m)) /\ OfHeaders(Send!SizeBytes(m))
         /\ OfHeaders(<< <<Send!Junk, 5>>, <<Send!Junk, 6>> >>)
<1>1. OfPayload(Send!Payload(m, count))
  <2> DEFINE p == [k \in 1..count |-> <<m, 6 + k>>]
  <2>1. Len(p) = count /\ \A k \in 1..count : p[k][2] = 6 + k
    OBVIOUS
  <2>2. Send!Payload(m, count) = p
    BY DEF Send!Payload, Send!HeaderSize
  <2> HIDE DEF p
  <2>3. \A k \in 1..count : 6 + k > 6
    OBVIOUS
  <2> QED
    BY <2>1, <2>2, <2>3 DEF OfPayload
<1>2. OfHeaders(Send!IdBytes(m))
  BY DEF OfHeaders, Send!IdBytes
<1>3. OfHeaders(Send!SizeBytes(m))
  BY DEF OfHeaders, Send!SizeBytes
<1>4. OfHeaders(<< <<Send!Junk, 5>>, <<Send!Junk, 6>> >>)
  BY DEF OfHeaders, Send!Junk
<1> QED
  BY <1>1, <1>2, <1>3, <1>4

(* So are pieces of them,                                                     *)
LEMMA PiecesKind ==
  ASSUME NEW S, NEW s \in Seq(S), NEW a \in Nat \ {0}, NEW b \in 0..Len(s)
  PROVE  /\ OfHeaders(s) => OfHeaders(SubSeq(s, a, b))
         /\ OfPayload(s) => OfPayload(SubSeq(s, a, b))
<1> DEFINE t == SubSeq(s, a, b)
<1>1. /\ Len(t) \in Nat
      /\ \A i \in 1..Len(t) : t[i] = s[a + i - 1] /\ a + i - 1 \in 1..Len(s)
  <2>1. CASE a <= b + 1
    <3>1. Len(t) = b - a + 1 /\ \A i \in 1..(b - a + 1) : t[i] = s[a + i - 1]
      BY <2>1
    <3> QED
      BY <2>1, <3>1
  <2>2. CASE ~(a <= b + 1)
    BY <2>2
  <2> QED
    BY <2>1, <2>2
<1> HIDE DEF t
<1> QED
  BY <1>1 DEF OfHeaders, OfPayload, t

(* and headers in a row.                                                      *)
LEMMA HeadersConcat ==
  ASSUME NEW S, NEW s \in Seq(S), NEW t \in Seq(S), OfHeaders(s), OfHeaders(t)
  PROVE  OfHeaders(s \o t)
<1> DEFINE u == s \o t
           m == Len(s)
           n == Len(t)
<1>1. /\ Len(u) = m + n /\ m \in Nat /\ n \in Nat
      /\ \A i \in 1..(m + n) : u[i] = IF i <= m THEN s[i] ELSE t[i - m]
  BY ConcatProperties, LenProperties
<1>2. /\ \A i \in 1..m : ~(s[i][2] > 6)
      /\ \A i \in 1..n : ~(t[i][2] > 6)
  BY DEF OfHeaders
<1> HIDE DEF u, m, n
<1>3. ASSUME NEW i \in 1..(m + n) PROVE ~(u[i][2] > 6)
  <2>1. CASE i <= m
    <3>1. i \in 1..m /\ u[i] = s[i]
      BY <1>1, <2>1
    <3> QED
      BY <1>2, <3>1
  <2>2. CASE ~(i <= m)
    <3>1. i - m \in 1..n /\ u[i] = t[i - m]
      BY <1>1, <2>2
    <3> QED
      BY <1>2, <3>1
  <2> QED
    BY <2>1, <2>2
<1> QED
  BY <1>1, <1>3 DEF OfHeaders, u

(* Behind a header, a payload in two pieces is the payload.                   *)
LEMMA PayloadBehind ==
  ASSUME NEW S, NEW hd \in Seq(S), NEW p \in Seq(S), NEW f \in 0..Len(p),
         OfHeaders(hd), OfPayload(p)
  PROVE  LET v == hd \o SubSeq(p, 1, f)
             w == SubSeq(p, f + 1, Len(p)) IN
         /\ v \in Seq(S) /\ w \in Seq(S)
         /\ Send!PayloadOf(v \o w) = p
<1> DEFINE a == SubSeq(p, 1, f)
           w == SubSeq(p, f + 1, Len(p))
           v == hd \o a
<1>1. a \in Seq(S) /\ w \in Seq(S)
  BY CutInTwo
<1>2. a \o w = p
  BY CutInTwo
<1> HIDE DEF a, w
<1>3. v \in Seq(S) /\ v \o w = hd \o (a \o w)
  BY <1>1
<1>4. Send!PayloadOf(hd) = <<>>
  BY NoPayload DEF OfHeaders
<1>5. Send!PayloadOf(p) = p
  BY AllPayload DEF OfPayload
<1>6. Send!PayloadOf(hd \o p) = Send!PayloadOf(hd) \o Send!PayloadOf(p)
  BY PayloadConcat
<1>7. <<>> \o p = p
  OBVIOUS
<1> HIDE DEF v
<1>8. Send!PayloadOf(v \o w) = p
  BY <1>2, <1>3, <1>4, <1>5, <1>6, <1>7
<1> QED
  BY <1>1, <1>3, <1>8 DEF a, v, w

(* The same bytes behind others are the payload of those that come first.     *)
LEMMA CutIsHeader ==
  ASSUME NEW S, NEW b \in Seq(S), NEW hd \in Seq(S), NEW a \in Seq(S), NEW u \in Seq(S),
         OfHeaders(hd), NEW n \in 0..(Len(b) + Len(hd)),
         SubSeq((b \o hd) \o a, 1, n) = b \o u
  PROVE  Send!PayloadOf(u) = <<>>
<1> DEFINE h == b \o hd
           g == h \o a
           c == SubSeq(g, 1, n)
           m == Len(b)
           k == Len(hd)
           l == Len(u)
<1>1. m \in Nat /\ k \in Nat /\ l \in Nat /\ Len(a) \in Nat
  OBVIOUS
<1>2. h \in Seq(S) /\ Len(h) = m + k /\ \A i \in 1..k : h[m + i] = hd[i]
  OBVIOUS
<1> HIDE DEF h
<1>3. /\ g \in Seq(S) /\ Len(g) = Len(h) + Len(a)
      /\ \A i \in 1..Len(h) : g[i] = h[i]
  <2>1. \A i \in 1..Len(h) : i \in 1..(Len(h) + Len(a))
    BY <1>1, <1>2
  <2>2. /\ g \in Seq(S) /\ Len(g) = Len(h) + Len(a)
        /\ \A i \in 1..(Len(h) + Len(a)) : g[i] = IF i <= Len(h) THEN h[i] ELSE a[i - Len(h)]
    <3>1. h \in Seq(S)
      BY <1>2
    <3> QED
      BY <3>1, ConcatProperties
  <2> QED
    BY <2>1, <2>2
<1> HIDE DEF g
<1>4. /\ Len(c) = n /\ \A i \in 1..n : c[i] = g[i]
  BY <1>1, <1>2, <1>3
<1> HIDE DEF c
<1>5. /\ c = b \o u
      /\ Len(c) = m + l /\ \A i \in 1..l : c[m + i] = u[i]
  <2>1. c = b \o u
    BY DEF c, g, h
  <2> QED
    BY <2>1
<1> HIDE DEF m, k, l
<1>6. ASSUME NEW i \in 1..l PROVE u[i] = hd[i] /\ i \in 1..k
  <2>1. m + l = n /\ n <= m + k
    BY <1>4, <1>5 DEF m, k
  <2>2. m + i \in 1..n /\ m + i \in 1..Len(h) /\ i \in 1..k
    BY <1>1, <1>2, <2>1
  <2> QED
    BY <1>2, <1>3, <1>4, <1>5, <2>2
<1>7. \A i \in 1..l : ~(u[i][2] > 6)
  BY <1>6 DEF OfHeaders, k
<1> QED
  BY <1>7, NoPayload DEF l

(* send_msg only adds to the end of the buffer and of the queue, to the end   *)
(* of the buffer only while the queue is empty, and something of a message    *)
(* that it accepts with an empty queue goes to the buffer. What it adds has   *)
(* the payload of the message if it accepts it, and none if it refuses.       *)
LEMMA PlacedGrows ==
  ASSUME NEW max \in Nat, SendTyped(max), calls < max,
         NEW count \in SendSizes, NEW alloc \in BOOLEAN
  PROVE  LET r == Send!Placed(calls + 1, count, alloc) IN
         /\ r.data \in Seq(SendByte(max)) /\ Len(r.data) <= SendBuf
         /\ \E v, w \in Seq(SendByte(max)) :
              /\ r.data = data \o v /\ r.wait = wait \o w /\ (v = <<>> \/ wait = <<>>)
              /\ Send!PayloadOf(v \o w) = IF r.ok THEN Send!Payload(calls + 1, count) ELSE <<>>
         /\ r.ok /\ wait = <<>> => r.data # <<>>
<1> DEFINE m == calls + 1
           r == Send!Placed(m, count, alloc)
           B == SendByte(max)
<1>1. SendBuf \in Nat /\ SendBuf >= 6 /\ SendSizes \subseteq Nat \ {0}
  BY PartsAssumption DEF Send!SendPathAssumption, Send!HeaderSize
<1>2. /\ data \in Seq(B) /\ Len(data) \in Nat /\ Len(data) <= SendBuf
      /\ wait \in Seq(B) /\ m \in 0..max /\ count \in Nat \ {0}
      /\ data = data \o <<>> /\ wait = wait \o <<>> /\ <<>> \in Seq(B)
  <2>1. data \in Seq(B) /\ Len(data) <= SendBuf /\ wait \in Seq(B) /\ calls \in 0..max
    BY DEF SendTyped
  <2> HIDE DEF B
  <2>2. Len(data) \in Nat /\ data = data \o <<>> /\ wait = wait \o <<>> /\ <<>> \in Seq(B)
    BY <2>1, ConcatEmptySeq, LenProperties
  <2> QED
    BY <1>1, <2>1, <2>2
<1> HIDE DEF m
<1>3. /\ Send!Payload(m, count) \in Seq(B) /\ Len(Send!Payload(m, count)) = count
      /\ Send!IdBytes(m) \in Seq(B) /\ Len(Send!IdBytes(m)) = 2
      /\ Send!SizeBytes(m) \in Seq(B) /\ Len(Send!SizeBytes(m)) = 4
      /\ << <<Send!Junk, 5>>, <<Send!Junk, 6>> >> \in Seq(B)
  BY <1>2, PartsType
<1> HIDE DEF B
<1>a. /\ OfPayload(Send!Payload(m, count)) /\ OfHeaders(Send!IdBytes(m))
      /\ OfHeaders(Send!SizeBytes(m)) /\ OfHeaders(<< <<Send!Junk, 5>>, <<Send!Junk, 6>> >>)
  BY <1>2, PartsKind
<1>b. Send!PayloadOf(<<>>) = <<>>
  <2> DEFINE e == <<>>
  <2>1. e \in Seq(B) /\ \A k \in 1..Len(e) : ~(e[k][2] > 6)
    OBVIOUS
  <2> HIDE DEF e
  <2>2. Send!PayloadOf(e) = <<>>
    BY <2>1, NoPayload
  <2> QED
    BY <2>2 DEF e
<1>4. CASE /\ r = Send!Queued(m, count, alloc)
           /\ wait # <<>> \/ SendBuf - Len(data) < 4
  <2> DEFINE q == Send!QueuedFrame(m, count)
             p == Send!Payload(m, count)
             z == Send!SizeBytes(m)
             j == << <<Send!Junk, 5>>, <<Send!Junk, 6>> >>
  <2>1. q \in Seq(B) /\ Send!PayloadOf(q) = p
    <3>1. q = p \/ q = (z \o j) \o p
      BY DEF Send!QueuedFrame
    <3>2. z \in Seq(B) /\ j \in Seq(B) /\ p \in Seq(B)
      BY <1>3
    <3>3. OfHeaders(z) /\ OfHeaders(j) /\ OfPayload(p)
      BY <1>a
    <3> HIDE DEF z, j, p, q
    <3>4. z \o j \in Seq(B)
      BY <3>2, ConcatProperties
    <3>5. OfHeaders(z \o j)
      BY <3>2, <3>3, HeadersConcat
    <3>6. Send!PayloadOf(z \o j) = <<>>
      BY <3>4, <3>5, NoPayload DEF OfHeaders
    <3>7. Send!PayloadOf(p) = p
      BY <3>2, <3>3, AllPayload DEF OfPayload
    <3>8. CASE q = p
      BY <3>2, <3>7, <3>8
    <3>9. CASE q = (z \o j) \o p
      <4>1. q \in Seq(B)
        BY <3>2, <3>4, <3>9, ConcatProperties
      <4>2. Send!PayloadOf((z \o j) \o p) = Send!PayloadOf(z \o j) \o Send!PayloadOf(p)
        BY <3>2, <3>4, PayloadConcat
      <4>3. <<>> \o p = p
        BY <3>2
      <4> QED
        BY <3>6, <3>7, <3>9, <4>1, <4>2, <4>3
    <3> QED
      BY <3>1, <3>8, <3>9
  <2>2. /\ r.data = data /\ r.ok = alloc
        /\ r.wait = IF alloc THEN wait \o q ELSE wait
    BY <1>4 DEF Send!Queued
  <2> HIDE DEF q, r
  <2>3. \E v, w \in Seq(B) :
          /\ r.data = data \o v /\ r.wait = wait \o w /\ (v = <<>> \/ wait = <<>>)
          /\ Send!PayloadOf(v \o w) = IF r.ok THEN p ELSE <<>>
    <3>1. <<>> \o q = q /\ <<>> \o <<>> = <<>>
      BY <2>1
    <3>2. CASE alloc
      BY <1>2, <2>1, <2>2, <3>1, <3>2
    <3>3. CASE ~alloc
      BY <1>2, <1>b, <2>2, <3>1, <3>3
    <3> QED
      BY <3>2, <3>3
  <2>4. wait = <<>> => data # <<>>
    <3>1. data = <<>> => Len(data) = 0
      OBVIOUS
    <3> QED
      BY <1>1, <1>2, <1>4, <3>1
  <2> QED
    BY <1>2, <2>2, <2>3, <2>4 DEF r, m, B
<1>5. CASE /\ r = Send!Buffered(m, count, alloc)
           /\ wait = <<>> /\ SendBuf - Len(data) >= 4
  <2> DEFINE i == Send!IdBytes(m)
             z == Send!SizeBytes(m)
             d == Send!Appended(data, i)
             h == Send!WithHeader(m)
             p == Send!Payload(m, count)
             fits == Send!Fits(h, p)
             filled == Send!Appended(h, p)
             cut == SubSeq(filled, 1, Len(filled) - (4 + fits))
  <2>1. /\ d \in Seq(B) /\ Len(d) = Len(data) + 2 /\ Len(d) \in Nat
        /\ \A k \in 1..Len(data) : d[k] = data[k]
    <3>1. i \in Seq(B) /\ Len(i) = 2
      BY <1>3
    <3> HIDE DEF i
    <3>2. Send!Fits(data, i) = 2
      BY <1>1, <1>2, <1>5, <3>1 DEF Send!Fits, Send!Least
    <3>3. /\ Send!Appended(data, i) \in Seq(B)
          /\ Len(Send!Appended(data, i)) = Len(data) + Send!Fits(data, i)
          /\ \A k \in 1..Len(data) : Send!Appended(data, i)[k] = data[k]
      BY <1>1, <1>2, <3>1, AppendedType
    <3>4. Len(data) + 2 \in Nat
      BY <1>2
    <3> QED
      BY <3>2, <3>3, <3>4
  <2>2. z \in Seq(B) /\ Len(z) = 4 /\ h = Send!Appended(d, z)
    BY <1>3 DEF Send!WithHeader
  <2>3. p \in Seq(B) /\ Len(p) = count
    BY <1>3
  <2>a. OfHeaders(i) /\ OfHeaders(z) /\ OfPayload(p) /\ i \in Seq(B)
    BY <1>3, <1>a
  <2>b. /\ Send!Fits(data, i) \in 0..Len(i)
        /\ d = data \o SubSeq(i, 1, Send!Fits(data, i))
        /\ h = d \o SubSeq(z, 1, Send!Fits(d, z))
        /\ filled = h \o SubSeq(p, 1, fits)
    <3>1. Send!Fits(data, i) \in 0..Len(i)
      BY <1>1, <1>2, <2>a, AppendedType
    <3> QED
      BY <3>1 DEF Send!WithHeader, Send!Appended
  <2> HIDE DEF i, z, d, h, p
  <2>4. Len(d) <= SendBuf /\ SendBuf - Len(d) >= 2
    BY <1>1, <1>2, <1>5, <2>1
  <2>5. /\ Send!Fits(d, z) \in 0..Len(z) /\ Send!Fits(d, z) >= 2
        /\ h \in Seq(B) /\ Len(h) = Len(d) + Send!Fits(d, z) /\ Len(h) <= SendBuf
        /\ \A k \in 1..Len(d) : h[k] = d[k]
    <3>1. Send!Fits(d, z) >= 2
      BY <1>1, <2>1, <2>2, <2>4 DEF Send!Fits, Send!Least
    <3>2. /\ Send!Fits(d, z) \in 0..Len(z)
          /\ Send!Appended(d, z) \in Seq(B)
          /\ Len(Send!Appended(d, z)) = Len(d) + Send!Fits(d, z)
          /\ Len(d) + Send!Fits(d, z) <= SendBuf
          /\ \A k \in 1..Len(d) : Send!Appended(d, z)[k] = d[k]
      BY <1>1, <2>1, <2>2, <2>4, AppendedType, ZenonT(30)
    <3> QED
      BY <2>2, <3>1, <3>2
  <2>6. Len(h) \in Nat /\ Len(h) >= Len(data) + 4
    BY <1>2, <2>1, <2>2, <2>5
  <2>7. /\ fits \in 0..count /\ filled \in Seq(B) /\ Len(filled) = Len(h) + fits
        /\ Len(filled) <= SendBuf
        /\ \A k \in 1..Len(h) : filled[k] = h[k]
    <3>1. h \in Seq(B) /\ Len(h) <= SendBuf
      BY <2>5
    <3>2. /\ Send!Fits(h, p) \in 0..Len(p)
          /\ Send!Appended(h, p) \in Seq(B)
          /\ Len(Send!Appended(h, p)) = Len(h) + Send!Fits(h, p)
          /\ Len(h) + Send!Fits(h, p) <= SendBuf
          /\ \A k \in 1..Len(h) : Send!Appended(h, p)[k] = h[k]
      BY <1>1, <2>3, <3>1, AppendedType
    <3> QED
      BY <2>3, <3>2
  <2> HIDE DEF fits, filled, r
  <2>8. \A k \in 1..Len(data) : filled[k] = data[k]
    <3> TAKE k \in 1..Len(data)
    <3>1. k \in 1..Len(d) /\ k \in 1..Len(h)
      BY <1>2, <2>1, <2>6
    <3> QED
      BY <2>1, <2>5, <2>7, <3>1
  <2>9. fits \in Nat /\ Len(filled) \in Nat
    BY <1>2, <2>6, <2>7
  <2>10. /\ cut \in Seq(B) /\ Len(cut) = Len(h) - 4
         /\ Len(cut) <= SendBuf /\ Len(cut) >= Len(data)
         /\ \A k \in 1..Len(data) : cut[k] = data[k]
    <3>1. Len(filled) - (4 + fits) = Len(h) - 4 /\ Len(h) - 4 \in 0..Len(filled)
      BY <1>2, <2>6, <2>7, <2>9
    <3>2. /\ SubSeq(filled, 1, Len(h) - 4) \in Seq(B)
          /\ Len(SubSeq(filled, 1, Len(h) - 4)) = Len(h) - 4
          /\ \A k \in 1..(Len(h) - 4) : SubSeq(filled, 1, Len(h) - 4)[k] = filled[k]
      BY <2>7, <3>1
    <3>3. Len(data) <= Len(h) - 4 /\ Len(h) - 4 <= SendBuf
      BY <1>1, <1>2, <2>5, <2>6
    <3>4. \A k \in 1..Len(data) : k \in 1..(Len(h) - 4)
      BY <1>2, <2>6, <3>3
    <3> QED
      BY <2>8, <3>1, <3>2, <3>3, <3>4
  <2> HIDE DEF cut
  <2>11. SubSeq(p, fits + 1, count) \in Seq(B)
    BY <1>2, <2>3, <2>7
  <2>12. \/ fits = count /\ r.data = filled /\ r.wait = wait /\ r.ok
         \/ r.data = filled /\ r.wait = wait \o SubSeq(p, fits + 1, count) /\ r.ok
         \/ r.data = cut /\ r.wait = wait /\ ~r.ok
    <3>1. fits = count \/ (fits < count /\ alloc) \/ (fits < count /\ ~alloc)
      BY <1>2, <2>7
    <3>2. r = CASE fits = count ->
                     [data |-> filled, wait |-> wait, ok |-> TRUE]
                [] fits < count /\ alloc ->
                     [data |-> filled, ok |-> TRUE,
                      wait |-> wait \o SubSeq(p, fits + 1, count)]
                [] fits < count /\ ~alloc ->
                     [data |-> cut, wait |-> wait, ok |-> FALSE]
      BY <1>5 DEF Send!Buffered, Send!Rest, h, p, fits, filled, cut
    <3>3. fits = count => ~(fits < count)
      BY <2>9
    <3>4. CASE fits = count
      BY <3>2, <3>3, <3>4
    <3>5. CASE fits < count /\ alloc
      BY <3>2, <3>3, <3>5
    <3>6. CASE fits < count /\ ~alloc
      BY <3>2, <3>3, <3>6
    <3> QED
      BY <3>1, <3>4, <3>5, <3>6
  <2>c. PICK hd \in Seq(B) : OfHeaders(hd) /\ h = data \o hd
    <3>1. /\ z \in Seq(B) /\ Send!Fits(d, z) \in 0..Len(z)
          /\ h = (data \o SubSeq(i, 1, Send!Fits(data, i))) \o SubSeq(z, 1, Send!Fits(d, z))
      BY <2>2, <2>5, <2>b
    <3> DEFINE x == Send!Fits(data, i)
               y == Send!Fits(d, z)
    <3>2. /\ data \in Seq(B) /\ i \in Seq(B) /\ z \in Seq(B) /\ OfHeaders(i) /\ OfHeaders(z)
          /\ x \in 0..Len(i) /\ y \in 0..Len(z)
          /\ h = (data \o SubSeq(i, 1, x)) \o SubSeq(z, 1, y)
      BY <1>2, <2>a, <2>b, <3>1
    <3> HIDE DEF x, y
    <3> DEFINE u == SubSeq(i, 1, x)
               v == SubSeq(z, 1, y)
    <3>3. u \in Seq(B) /\ OfHeaders(u)
      <4>1. 1 \in Nat \ {0}
        OBVIOUS
      <4> QED
        BY <3>2, <4>1, PiecesKind
    <3>4. v \in Seq(B) /\ OfHeaders(v)
      <4>1. 1 \in Nat \ {0}
        OBVIOUS
      <4> QED
        BY <3>2, <4>1, PiecesKind
    <3>5. h = (data \o u) \o v
      BY <3>2
    <3> HIDE DEF u, v
    <3>6. u \o v \in Seq(B) /\ h = data \o (u \o v)
      <4>1. data \in Seq(B) /\ u \in Seq(B) /\ v \in Seq(B)
        BY <3>2, <3>3, <3>4
      <4>2. u \o v \in Seq(B) /\ (data \o u) \o v = data \o (u \o v)
        BY <4>1
      <4> QED
        BY <3>5, <4>2
    <3>7. OfHeaders(u \o v)
      BY <3>3, <3>4, HeadersConcat
    <3> QED
      BY <3>6, <3>7
  <2>13. \E v, w \in Seq(B) :
           /\ filled = data \o v /\ w = SubSeq(p, fits + 1, count)
           /\ Send!PayloadOf(v \o w) = p
    <3> DEFINE a == SubSeq(p, 1, fits)
               v == hd \o a
               w == SubSeq(p, fits + 1, count)
    <3>1. v \in Seq(B) /\ w \in Seq(B) /\ Send!PayloadOf(v \o w) = p
      <4>1. fits \in 0..Len(p)
        BY <2>3, <2>7
      <4> QED
        BY <2>3, <2>a, <2>c, <4>1, PayloadBehind
    <3>2. a \in Seq(B)
      BY <2>3, <2>7
    <3> HIDE DEF a
    <3>3. (data \o hd) \o a = data \o (hd \o a)
      BY <1>2, <2>c, <3>2
    <3>4. filled = data \o v
      BY <2>b, <2>c, <3>3 DEF a
    <3> QED
      BY <3>1, <3>4
  <2>14. \E u \in Seq(B) : cut = data \o u /\ Send!PayloadOf(u) = <<>>
    <3>1. /\ data \in Seq(B) /\ cut \in Seq(B) /\ Len(data) <= Len(cut)
          /\ \A k \in 1..Len(data) : cut[k] = data[k]
      BY <1>2, <2>10
    <3>2. PICK u \in Seq(B) : cut = data \o u
      BY <3>1, SequenceSplits
    <3> DEFINE a == SubSeq(p, 1, fits)
               n == Len(filled) - (4 + fits)
    <3>3. a \in Seq(B)
      BY <2>3, <2>7
    <3>4. Len(h) = Len(data) + Len(hd) /\ Len(hd) \in Nat
      BY <1>2, <2>c
    <3>5. n \in 0..(Len(data) + Len(hd))
      BY <1>2, <2>6, <2>7, <2>9, <3>4
    <3>6. SubSeq((data \o hd) \o a, 1, n) = data \o u
      BY <2>b, <2>c, <3>2 DEF cut
    <3> HIDE DEF a, n
    <3>7. Send!PayloadOf(u) = <<>>
      BY <1>2, <2>c, <3>3, <3>5, <3>6, CutIsHeader
    <3> QED
      BY <3>2, <3>7
  <2>15. filled # <<>>
    <3>1. Len(filled) > 0
      BY <1>2, <2>6, <2>7, <2>9
    <3> QED
      BY <3>1
  <2>16. r.data \in Seq(B) /\ Len(r.data) <= SendBuf
    BY <2>7, <2>10, <2>12
  <2>17. \E v, w \in Seq(B) :
           /\ r.data = data \o v /\ r.wait = wait \o w /\ (v = <<>> \/ wait = <<>>)
           /\ Send!PayloadOf(v \o w) = IF r.ok THEN p ELSE <<>>
    <3>1. CASE r.data = filled /\ r.wait = wait \o SubSeq(p, fits + 1, count) /\ r.ok
      BY <1>5, <2>13, <3>1
    <3>2. CASE fits = count /\ r.data = filled /\ r.wait = wait /\ r.ok
      <4>1. SubSeq(p, fits + 1, count) = <<>>
        BY <1>2, <2>3, <3>2
      <4>2. r.wait = wait \o SubSeq(p, fits + 1, count)
        BY <1>2, <3>2, <4>1
      <4> QED
        BY <3>1, <3>2, <4>2
    <3>3. CASE r.data = cut /\ r.wait = wait /\ ~r.ok
      <4>1. PICK u \in Seq(B) : cut = data \o u /\ Send!PayloadOf(u) = <<>>
        BY <2>14
      <4>2. u \o <<>> = u
        OBVIOUS
      <4> QED
        BY <1>2, <1>5, <3>3, <4>1, <4>2
    <3> QED
      BY <2>12, <3>1, <3>2, <3>3
  <2>18. r.ok => r.data # <<>>
    BY <2>12, <2>15
  <2> QED
    BY <2>16, <2>17, <2>18 DEF r, m, p, B
<1> QED
  <2>1. SendBuf - Len(data) >= 4 \/ SendBuf - Len(data) < 4
    BY <1>1, <1>2
  <2> QED
    BY <1>4, <1>5, <2>1 DEF Send!Placed, Send!LeastAvail

(* Sequences with the same elements are the same. *)
LEMMA SameElements ==
  ASSUME NEW S, NEW s \in Seq(S), NEW t \in Seq(S), Len(s) = Len(t),
         \A i \in 1..Len(s) : s[i] = t[i]
  PROVE  s = t
OBVIOUS

(* A sequence is a prefix of the ones that go on after it.                    *)
LEMMA PrefixOf ==
  ASSUME NEW S, NEW s \in Seq(S), NEW u \in Seq(S)
  PROVE  Len(s) <= Len(s \o u) /\ s = SubSeq(s \o u, 1, Len(s))
<1>1. /\ Len(s) \in Nat /\ Len(u) \in Nat
      /\ s \o u \in Seq(S) /\ Len(s \o u) = Len(s) + Len(u)
      /\ \A i \in 1..Len(s) : (s \o u)[i] = s[i]
  BY ConcatProperties, LenProperties
<1>2. /\ SubSeq(s \o u, 1, Len(s)) \in Seq(S) /\ Len(SubSeq(s \o u, 1, Len(s))) = Len(s)
      /\ \A i \in 1..Len(s) : SubSeq(s \o u, 1, Len(s))[i] = (s \o u)[i]
  BY <1>1
<1>3. s = SubSeq(s \o u, 1, Len(s))
  BY <1>1, <1>2, SeqEqual
<1>4. Len(s) <= Len(s \o u)
  BY <1>1
<1> QED
  BY <1>3, <1>4

(* What the work thread holds and what it has written are lines; it holds     *)
(* something only on its way to the file.                                     *)
LogBytes ==
  /\ held \in Seq(Nat) /\ logFile \in Seq(Nat)
  /\ pc # "write" => held = <<>>

(* The bytes of the log that are not in the file yet.                         *)
Logging == held \o Log!FlattenSeq(full) \o cur

(* Every step of the log keeps that, and is one of the pipe or leaves the bytes *)
(* where they are.                                                            *)
LEMMA LogPipe ==
  ASSUME LogInv, LogBytes, [Log!Next]_(Log!vars)
  PROVE  /\ LogBytes'
         /\ Log!Pipe!Take \/ Log!Pipe!PassOn \/ UNCHANGED <<Logging, logFile>>
<1> DEFINE F == Log!FlattenSeq(full)
<1>1. /\ cur \in Seq(Nat) /\ full \in Seq(Seq(Nat)) /\ lines \in Nat /\ LogLens \subseteq Nat
      /\ held \in Seq(Nat) /\ logFile \in Seq(Nat) /\ (pc # "write" => held = <<>>)
  BY PartsAssumption DEF LogInv, LogBytes, Log!AsyncLogAssumption
<1>2. F \in Seq(Nat) /\ Logging = held \o F \o cur /\ Logging \in Seq(Nat)
  <2>1. F \in Seq(Nat)
    BY <1>1, FlattenType
  <2> HIDE DEF F
  <2>2. held \o F \o cur \in Seq(Nat)
    BY <1>1, <2>1
  <2> QED
    BY <2>1, <2>2 DEF F, Logging
<1>3. Log!Pending = Logging
  BY DEF Log!Pending, Logging
<1>4. CASE UNCHANGED <<cur, full, held, logFile>> /\ (pc' # "write" => pc # "write" \/ held = <<>>)
  BY <1>4 DEF LogBytes, Logging
<1>5. ASSUME NEW a \in Appenders, NEW count \in LogLens, Log!Logged(a, count)
      PROVE  LogBytes' /\ Log!Pipe!Take
  <2> DEFINE x == Log!Line(lines + 1, count)
  <2>1. x \in Seq(Nat)
    <3>1. \A k \in Nat, n \in Nat : [i \in 1..n |-> k] \in Seq(Nat)
      OBVIOUS
    <3>2. lines + 1 \in Nat /\ count \in Nat
      BY <1>1
    <3> QED
      BY <3>1, <3>2 DEF Log!Line
  <2>2. UNCHANGED <<held, logFile, pc>>
    BY <1>5 DEF Log!Logged
  <2>3. Logging' = Logging \o x
    <3>1. CASE cur' = cur \o x /\ full' = full
      <4>1. Logging' = held \o F \o (cur \o x)
        BY <2>2, <3>1 DEF Logging
      <4>2. held \o F \in Seq(Nat)
        BY <1>1, <1>2
      <4> HIDE DEF x, F
      <4> DEFINE h == held \o F
      <4>3. Logging' = h \o (cur \o x) /\ Logging = h \o cur /\ h \in Seq(Nat)
        BY <1>2, <4>1, <4>2
      <4> HIDE DEF h
      <4>4. cur \in Seq(Nat)
        BY <1>1
      <4> HIDE DEF x
      <4>5. h \o (cur \o x) = (h \o cur) \o x
        BY ONLY <2>1, <4>3, <4>4, ConcatAssociative
      <4> QED
        BY <4>3, <4>5
    <3>2. CASE full' = Append(full, cur) /\ cur' = x
      <4>1. Log!FlattenSeq(full') = F \o cur
        BY <1>1, <3>2, FlattenAppend
      <4>2. Logging' = held \o (F \o cur) \o x
        BY <2>2, <3>2, <4>1 DEF Logging
      <4> HIDE DEF x, F
      <4>a. held \in Seq(Nat) /\ F \in Seq(Nat) /\ cur \in Seq(Nat)
        BY <1>1, <1>2
      <4>3. held \o (F \o cur) = held \o F \o cur
        BY ONLY <4>a, ConcatAssociative
      <4> QED
        BY <1>2, <4>2, <4>3
    <3> QED
      BY <1>5, <3>1, <3>2 DEF Log!Logged
  <2>4. Log!Pipe!Take
    <3> HIDE DEF x
    <3>1. Len(Logging) <= Len(Logging \o x) /\ Logging = SubSeq(Logging \o x, 1, Len(Logging))
      BY <1>2, <2>1, PrefixOf
    <3>2. /\ Len(Log!Pending) <= Len(Log!Pending')
          /\ Log!Pending = SubSeq(Log!Pending', 1, Len(Log!Pending))
      BY <1>3, <2>3, <3>1 DEF Log!Pending, Logging
    <3> QED
      BY <2>2, <3>2 DEF Log!Pipe!Take
  <2> QED
    BY <1>1, <2>2, <2>4 DEF LogBytes
<1>6. CASE Log!Write
  <2>1. /\ logFile' = logFile \o held /\ held' = <<>> /\ UNCHANGED <<cur, full>>
    BY <1>6 DEF Log!Write
  <2>2. LogBytes'
    BY <1>1, <2>1 DEF LogBytes
  <2>3. Logging' = <<>> \o F \o cur
    BY <2>1 DEF Logging
  <2> HIDE DEF F
  <2>4. Logging' = F \o cur
    BY <1>1, <1>2, <2>3
  <2>5. logFile' \o Logging' = logFile \o Logging
    <3> DEFINE b == F \o cur
    <3>a. held \in Seq(Nat) /\ F \in Seq(Nat) /\ cur \in Seq(Nat) /\ logFile \in Seq(Nat)
      BY <1>1, <1>2
    <3>b. held \o F \o cur = held \o (F \o cur)
      BY ONLY <3>a, ConcatAssociative
    <3>1. b \in Seq(Nat) /\ Logging = held \o b
      BY <1>2, <3>a, <3>b
    <3> HIDE DEF b
    <3>c. logFile \in Seq(Nat) /\ held \in Seq(Nat) /\ b \in Seq(Nat)
      BY <3>a, <3>1
    <3>2. (logFile \o held) \o b = logFile \o (held \o b)
      BY ONLY <3>c, ConcatAssociative
    <3> QED
      BY <2>1, <2>4, <3>1, <3>2 DEF b
  <2>6. Len(logFile) <= Len(logFile')
    BY <1>1, <2>1, PrefixOf
  <2> QED
    BY <1>3, <2>2, <2>5, <2>6 DEF Log!Pipe!PassOn, Log!Pending, Logging
<1>7. ASSUME pc \in {"ready", "give_back"}, UNCHANGED logFile,
             NEW spare, NEW otherwise \in {"ended", "flush"}, Log!GetNextDataBuf(spare, otherwise)
      PROVE  LogBytes' /\ UNCHANGED <<Logging, logFile>>
  <2>1. held = <<>>
    BY <1>1, <1>7
  <2>2. CASE full # <<>> /\ held' = Head(full) /\ full' = Tail(full) /\ pc' = "write" /\ cur' = cur
    <3>1. F = Head(full) \o Log!FlattenSeq(Tail(full))
      BY <1>1, <2>2, FlattenHead
    <3>2. Logging = F \o cur
      <4> HIDE DEF F
      <4> QED
        BY <1>1, <1>2, <2>1
    <3>3. Logging' = Head(full) \o Log!FlattenSeq(Tail(full)) \o cur
      BY <2>2 DEF Logging
    <3>4. held' \in Seq(Nat)
      BY <1>1, <2>2
    <3> QED
      BY <1>1, <1>7, <2>2, <3>1, <3>2, <3>3, <3>4 DEF LogBytes
  <2>3. CASE full = <<>> /\ full' = full /\ held' = cur /\ cur' = <<>> /\ pc' = "write"
    <3>1. F = <<>> /\ Log!FlattenSeq(full') = <<>>
      BY <2>3, FlattenEmpty
    <3>2. Logging = <<>> \o <<>> \o cur /\ Logging' = cur \o <<>> \o <<>>
      BY <1>2, <2>1, <2>3, <3>1 DEF Logging
    <3>3. Logging' = Logging
      BY <1>1, <3>2
    <3> QED
      BY <1>1, <1>7, <2>3, <3>3 DEF LogBytes
  <2>4. CASE UNCHANGED <<cur, full, held>> /\ pc' = otherwise
    BY <1>1, <1>7, <2>1, <2>4 DEF LogBytes, Logging
  <2> QED
    BY <1>7, <2>2, <2>3, <2>4 DEF Log!GetNextDataBuf
<1>8. CASE Log!Look \/ Log!GiveBack
  BY <1>8, <1>7 DEF Log!Look, Log!GiveBack
<1>9. CASE Log!Wait \/ Log!WakeUp \/ Log!Flush
  BY <1>9, <1>4 DEF Log!Wait, Log!WakeUp, Log!Flush, Log!bufVars
<1>10. CASE Log!Stop \/ Log!NotifyStop \/ Log!Join
  BY <1>10, <1>4 DEF Log!Stop, Log!NotifyStop, Log!Join, Log!Woken, Log!bufVars
<1>11. ASSUME NEW a \in Appenders, NEW count \in LogLens,
              Log!Dropped(a, count) \/ Log!LoggedNowhere(a, count)
       PROVE  LogBytes' /\ UNCHANGED <<Logging, logFile>>
  BY <1>11, <1>4 DEF Log!Dropped, Log!LoggedNowhere, Log!vars, Log!bufVars, LogBytes,
     Logging
<1>12. ASSUME NEW a \in Appenders, Log!Notify(a)
       PROVE  LogBytes' /\ UNCHANGED <<Logging, logFile>>
  BY <1>12, <1>4 DEF Log!Notify, Log!Woken, Log!bufVars, LogBytes, Logging
<1>13. CASE UNCHANGED Log!vars
  BY <1>13, <1>4 DEF Log!vars, Log!bufVars
<1> QED
  BY <1>5, <1>6, <1>8, <1>9, <1>10, <1>11, <1>12, <1>13 DEF Log!Next, Log!Worker

-----------------------------------------------------------------------------
(* The bytes of the send side, the first to go first.                         *)
Held == sending \o data \o wait

(* A call of send_msg keeps the invariant of the send side and is a step of   *)
(* the pipe: it adds bytes behind the others, with the payload of its message *)
(* if it accepts it and with none if it refuses.                              *)
LEMMA PlacingStep ==
  ASSUME NEW max \in Nat, SendInv(max), calls < max,
         NEW count \in SendSizes, NEW alloc \in BOOLEAN, Placing(count, alloc)
  PROVE  /\ SendInv(max)'
         /\ Send!Pipe!Take /\ calls' = calls + 1
         /\ \E u \in Seq(SendByte(max)) :
              /\ Held' = Held \o u
              /\ Send!PayloadOf(u) = IF Send!Placed(calls + 1, count, alloc).ok
                                     THEN Send!Payload(calls + 1, count) ELSE <<>>
<1> DEFINE B == SendByte(max)
<1>1. /\ SendBuf \in Nat
      /\ data \in Seq(B) /\ Len(data) <= SendBuf
      /\ sending \in Seq(B) /\ Len(sending) <= SendBuf
      /\ wait \in Seq(B) /\ wire \in Seq(B) /\ calls \in 0..max
  BY PartsAssumption DEF SendInv, SendTyped, Send!SendPathAssumption
<1>2. /\ chain \in {"post", "op"} => sending # <<>>
      /\ chain \in {"none", "written"} => sending = <<>>
      /\ writing <=> chain # "none"
  BY DEF SendInv, Send!NoEmptyWrite
<1> HIDE DEF B
<1> DEFINE r == Send!Placed(calls + 1, count, alloc)
<1>3. /\ r.data \in Seq(B) /\ Len(r.data) <= SendBuf
      /\ r.ok /\ wait = <<>> => r.data # <<>>
      /\ \E v, w \in Seq(B) :
           /\ r.data = data \o v /\ r.wait = wait \o w /\ (v = <<>> \/ wait = <<>>)
           /\ Send!PayloadOf(v \o w) = (IF r.ok THEN Send!Payload(calls + 1, count) ELSE <<>>)
  BY PlacedGrows DEF SendInv, B
<1>4. /\ calls' = calls + 1 /\ wait' = r.wait /\ wire' = wire
      /\ \/ /\ r.ok /\ wait = <<>> /\ ~writing
            /\ writing' = TRUE /\ sending' = r.data /\ data' = sending /\ chain' = "post"
         \/ data' = r.data /\ writing' = writing /\ sending' = sending /\ chain' = chain
  BY DEF Placing
<1> HIDE DEF r
<1>5. PICK v \in Seq(B), w \in Seq(B) :
        /\ r.data = data \o v /\ r.wait = wait \o w /\ (v = <<>> \/ wait = <<>>)
        /\ Send!PayloadOf(v \o w) = (IF r.ok THEN Send!Payload(calls + 1, count) ELSE <<>>)
  BY <1>3
<1>6. calls' \in 0..max
  BY <1>1, <1>4
<1>7. wait' \in Seq(B) /\ wait' = wait \o w
  BY <1>1, <1>4, <1>5, ConcatProperties
<1>8. /\ Held \in Seq(B) /\ v \o w \in Seq(B)
      /\ sending \o (data \o v) \o (wait \o w) = Held \o (v \o w)
  <2>1. /\ sending \in Seq(B) /\ data \in Seq(B) /\ wait \in Seq(B)
        /\ v \in Seq(B) /\ w \in Seq(B)
    BY <1>1
  <2> DEFINE x == sending \o data
  <2>2. x \in Seq(B) /\ x \o wait \in Seq(B) /\ v \o w \in Seq(B)
    BY <2>1, ConcatProperties
  <2>3. sending \o (data \o v) = x \o v
    BY <2>1, SMTT(30)
  <2> HIDE DEF x
  <2>4. CASE v = <<>>
    <3>1. x \o v = x /\ v \o w = w
      BY <2>1, <2>2, <2>4, ConcatEmptySeq
    <3>2. x \o (wait \o w) = (x \o wait) \o w
      BY <2>1, <2>2, SMTT(30)
    <3> QED
      BY <2>2, <2>3, <3>1, <3>2 DEF Held, x
  <2>5. CASE wait = <<>>
    <3>1. wait \o w = w /\ x \o wait = x
      BY <2>1, <2>2, <2>5, ConcatEmptySeq
    <3>2. (x \o v) \o w = x \o (v \o w)
      BY <2>1, <2>2, SMTT(30)
    <3> QED
      BY <2>2, <2>3, <3>1, <3>2 DEF Held, x
  <2> QED
    BY <1>5, <2>4, <2>5
<1>9. /\ /\ data' \in Seq(B) /\ Len(data') <= SendBuf
         /\ sending' \in Seq(B) /\ Len(sending') <= SendBuf
      /\ /\ chain' \in {"post", "op"} => sending' # <<>>
         /\ chain' \in {"none", "written"} => sending' = <<>>
         /\ writing' <=> chain' # "none"
      /\ Held' = Held \o (v \o w)
  <2>1. CASE /\ r.ok /\ wait = <<>> /\ ~writing
             /\ writing' = TRUE /\ sending' = r.data /\ data' = sending /\ chain' = "post"
    <3>1. sending = <<>> /\ data' = <<>>
      BY <1>2, <2>1
    <3>2. sending \o (data \o v) = r.data /\ sending' \o data' = r.data
      <4>1. r.data \o <<>> = r.data /\ <<>> \o r.data = r.data
        BY <1>3, ConcatEmptySeq
      <4> QED
        BY <1>5, <2>1, <3>1, <4>1
    <3>3. Held' = Held \o (v \o w)
      BY <1>7, <1>8, <3>2 DEF Held
    <3> QED
      BY <1>1, <1>3, <2>1, <3>1, <3>3
  <2>2. CASE data' = r.data /\ writing' = writing /\ sending' = sending /\ chain' = chain
    <3>1. Held' = Held \o (v \o w)
      BY <1>5, <1>7, <1>8, <2>2 DEF Held
    <3> QED
      BY <1>1, <1>2, <1>3, <2>2, <3>1
  <2> QED
    BY <1>4, <2>1, <2>2
<1>10. SendInv(max)'
  BY <1>1, <1>4, <1>6, <1>7, <1>9 DEF SendInv, SendTyped, Send!NoEmptyWrite, B
<1>11. Send!Pipe!Take
  <2>1. Len(Held) <= Len(Held') /\ Held = SubSeq(Held', 1, Len(Held))
    BY <1>8, <1>9, PrefixOf
  <2> QED
    BY <1>4, <2>1 DEF Send!Pipe!Take, Held
<1> QED
  BY <1>4, <1>5, <1>8, <1>9, <1>10, <1>11 DEF r, B

(* Every step of the send side keeps its invariant, and is one of the pipe or *)
(* leaves it alone.                                                           *)
LEMMA SendSideStep ==
  ASSUME NEW max \in Nat, SendInv(max), SendStep(max)
  PROVE  /\ SendInv(max)'
         /\ \/ Send!Pipe!Take /\ calls' # calls
            \/ Send!Pipe!PassOn
            \/ UNCHANGED <<Held, wire>>
<1> DEFINE B == SendByte(max)
<1>1. /\ SendBuf \in Nat
      /\ data \in Seq(B) /\ Len(data) <= SendBuf
      /\ sending \in Seq(B) /\ Len(sending) <= SendBuf
      /\ wait \in Seq(B) /\ wire \in Seq(B) /\ calls \in 0..max
  BY PartsAssumption DEF SendInv, SendTyped, Send!SendPathAssumption
<1>2. /\ chain \in {"post", "op"} => sending # <<>>
      /\ chain \in {"none", "written"} => sending = <<>>
      /\ writing <=> chain # "none"
  BY DEF SendInv, Send!NoEmptyWrite
<1> HIDE DEF B
<1>3. SUFFICES ASSUME TRUE
      PROVE  /\ /\ data' \in Seq(B) /\ Len(data') <= SendBuf
                /\ sending' \in Seq(B) /\ Len(sending') <= SendBuf
                /\ wait' \in Seq(B) /\ wire' \in Seq(B) /\ calls' \in 0..max
             /\ /\ chain' \in {"post", "op"} => sending' # <<>>
                /\ chain' \in {"none", "written"} => sending' = <<>>
                /\ writing' <=> chain' # "none"
             /\ \/ Send!Pipe!Take /\ calls' # calls
                \/ Send!Pipe!PassOn
                \/ UNCHANGED <<Held, wire>>
  BY <1>3 DEF SendInv, SendTyped, Send!NoEmptyWrite, B
<1>4. ASSUME NEW count \in SendSizes, NEW alloc \in BOOLEAN, calls < max, Placing(count, alloc)
      PROVE  /\ /\ data' \in Seq(B) /\ Len(data') <= SendBuf
                /\ sending' \in Seq(B) /\ Len(sending') <= SendBuf
                /\ wait' \in Seq(B) /\ wire' \in Seq(B) /\ calls' \in 0..max
             /\ /\ chain' \in {"post", "op"} => sending' # <<>>
                /\ chain' \in {"none", "written"} => sending' = <<>>
                /\ writing' <=> chain' # "none"
             /\ Send!Pipe!Take /\ calls' # calls
  <2>1. SendInv(max)' /\ Send!Pipe!Take /\ calls' = calls + 1
    BY <1>4, PlacingStep
  <2>2. calls' # calls
    BY <1>1, <2>1
  <2> QED
    BY <2>1, <2>2 DEF SendInv, SendTyped, Send!NoEmptyWrite, B
<1>5. ASSUME NEW n \in 1..Len(sending), Send!WriteDone(n)
      PROVE  /\ /\ data' \in Seq(B) /\ Len(data') <= SendBuf
                /\ sending' \in Seq(B) /\ Len(sending') <= SendBuf
                /\ wait' \in Seq(B) /\ wire' \in Seq(B) /\ calls' \in 0..max
             /\ /\ chain' \in {"post", "op"} => sending' # <<>>
                /\ chain' \in {"none", "written"} => sending' = <<>>
                /\ writing' <=> chain' # "none"
             /\ Send!Pipe!PassOn
  <2> DEFINE gone == SubSeq(sending, 1, n)
             left == SubSeq(sending, n + 1, Len(sending))
  <2>1. /\ chain = "op" /\ wire' = wire \o gone /\ sending' = left
        /\ chain' = (IF n = Len(sending) THEN "written" ELSE "op")
        /\ data' = data /\ wait' = wait /\ writing' = writing /\ calls' = calls
    BY <1>5 DEF Send!WriteDone
  <2>2. Len(sending) \in Nat
    BY <1>1, LenProperties
  <2>a. sending \in Seq(B) /\ n \in 0..Len(sending)
    BY <1>1, <1>5, <2>2
  <2>3. gone \in Seq(B) /\ left \in Seq(B) /\ Len(left) = Len(sending) - n
    BY ONLY <2>a, CutInTwo
  <2>4. gone \o left = sending
    BY ONLY <2>a, CutInTwo
  <2> HIDE DEF gone, left
  <2>5. /\ wire' \in Seq(B) /\ data \o wait \in Seq(B) /\ left \o data \in Seq(B)
        /\ sending \o data \in Seq(B)
    BY <1>1, <2>1, <2>3, ConcatProperties
  <2>6. wire' \o Held' = wire \o Held
    <3> DEFINE x == left \o data \o wait
    <3>1. /\ wire \in Seq(B) /\ gone \in Seq(B) /\ left \in Seq(B)
          /\ data \in Seq(B) /\ wait \in Seq(B)
      BY <1>1, <2>3
    <3>2. x \in Seq(B) /\ left \o data \in Seq(B)
      BY <3>1, ConcatProperties
    <3>3. gone \o x = (gone \o (left \o data)) \o wait
      BY <3>1, <3>2, SMTT(30)
    <3>4. gone \o (left \o data) = (gone \o left) \o data
      BY <3>1, SMTT(30)
    <3> HIDE DEF x
    <3>5. (wire \o gone) \o x = wire \o (gone \o x)
      BY <3>1, <3>2, SMTT(30)
    <3>6. Held' = x /\ gone \o x = Held
      BY <2>1, <2>4, <3>3, <3>4 DEF Held, x
    <3> QED
      BY <2>1, <3>5, <3>6
  <2>7. Len(wire) <= Len(wire')
    BY <1>1, <2>1, <2>3, PrefixOf
  <2>8. Send!Pipe!PassOn
    BY <2>6, <2>7 DEF Send!Pipe!PassOn, Held
  <2>9. /\ Len(left) <= SendBuf
        /\ n = Len(sending) => left = <<>>
        /\ n # Len(sending) => left # <<>>
    <3>1. left = <<>> <=> Len(left) = 0
      BY <2>3
    <3> QED
      BY <1>1, <1>5, <2>2, <2>3, <3>1
  <2> QED
    BY <1>1, <1>2, <2>1, <2>3, <2>5, <2>8, <2>9
<1>6. CASE Send!PostWrite
  BY <1>1, <1>2, <1>6 DEF Send!PostWrite, Held
<1>7. CASE Send!NextWrite
  BY <1>1, <1>2, <1>7 DEF Send!NextWrite, Held
<1>8. CASE Send!Refill
  <2> DEFINE n == Send!Least(SendBuf, Len(wait))
             gone == SubSeq(wait, 1, n)
             left == SubSeq(wait, n + 1, Len(wait))
  <2>1. /\ chain = "written" /\ chain' = "refilled" /\ sending = <<>>
        /\ writing' = writing /\ wire' = wire /\ calls' = calls
        /\ \/ sending' = data /\ data' = <<>> /\ wait' = wait
           \/ data = <<>> /\ sending' = gone /\ wait' = left /\ data' = data
    BY <1>2, <1>8 DEF Send!Refill
  <2>2. n \in Nat /\ n <= Len(wait) /\ n <= SendBuf /\ Len(wait) \in Nat
    BY <1>1 DEF Send!Least
  <2> HIDE DEF n
  <2>3. /\ gone \in Seq(B) /\ Len(gone) = n /\ left \in Seq(B)
        /\ SubSeq(wait, 1, Len(wait)) = wait
    BY <1>1, <2>2, SubSeqFull
  <2>4. gone \o left = wait
    <3>1. SubSeq(wait, 1, n) \o SubSeq(wait, n + 1, Len(wait)) = SubSeq(wait, 1, Len(wait))
      <4>1. /\ 1 \in 1..Len(wait) + 1 /\ n \in (1 - 1)..Len(wait)
            /\ Len(wait) \in n..Len(wait)
        BY <2>2
      <4> QED
        BY <1>1, <4>1, ConcatAdjacentSubSeq
    <3> QED
      BY <2>3, <3>1
  <2> HIDE DEF gone, left
  <2>5. Held' = Held
    <3>1. /\ <<>> \o data = data /\ data \o <<>> = data /\ <<>> \o <<>> = <<>>
          /\ <<>> \o wait = wait /\ gone \o <<>> = gone
      BY <1>1, <2>3, ConcatEmptySeq
    <3>2. CASE sending' = data /\ data' = <<>> /\ wait' = wait
      BY <2>1, <3>1, <3>2 DEF Held
    <3>3. CASE data = <<>> /\ sending' = gone /\ wait' = left /\ data' = data
      BY <2>1, <2>4, <3>1, <3>3 DEF Held
    <3> QED
      BY <2>1, <3>2, <3>3
  <2>6. <<>> \in Seq(B) /\ Len(<<>>) <= SendBuf
    BY <1>1
  <2> QED
    BY <1>1, <1>2, <2>1, <2>2, <2>3, <2>5, <2>6
<1> QED
  BY <1>4, <1>5, <1>6, <1>7, <1>8 DEF SendStep

(* A frame has the payload of its message.                                    *)
LEMMA FramePayload ==
  ASSUME NEW max \in Nat, NEW m \in 0..max, NEW count \in Nat
  PROVE  /\ Send!Frame(m, count) \in Seq(SendByte(max))
         /\ Send!PayloadOf(Send!Frame(m, count)) = Send!Payload(m, count)
<1> DEFINE B == SendByte(max)
           h == [k \in 1..6 |-> <<m, k>>]
           p == Send!Payload(m, count)
           f == Send!Frame(m, count)
<1>1. \A k \in Nat : <<m, k>> \in B /\ <<m, k>>[2] = k
  BY DEF SendByte
<1>2. p \in Seq(B) /\ Len(p) = count /\ \A k \in 1..count : p[k] = <<m, 6 + k>>
  <2>1. \A k \in 1..count : p[k] = <<m, 6 + k>>
    BY DEF Send!Payload, Send!HeaderSize
  <2> QED
    BY <2>1, PartsType
<1> HIDE DEF B
<1>3. h \in Seq(B) /\ Len(h) = 6 /\ \A k \in 1..6 : h[k] = <<m, k>>
  BY <1>1
<1>4. f \in Seq(B) /\ Len(f) = 6 + count /\ \A k \in 1..(6 + count) : f[k] = <<m, k>>
  <2> DEFINE n == 6 + count
             g == [k \in 1..n |-> <<m, k>>]
  <2>1. n \in Nat /\ f = g
    BY DEF Send!Frame, Send!HeaderSize
  <2> HIDE DEF n
  <2>2. g \in Seq(B) /\ Len(g) = n /\ \A k \in 1..n : g[k] = <<m, k>>
    BY <1>1, <2>1
  <2> QED
    BY <2>1, <2>2 DEF n
<1>5. OfHeaders(h) /\ OfPayload(p)
  <2>1. \A k \in 1..6 : ~(h[k][2] > 6)
    BY <1>1, <1>3
  <2> QED
    BY <1>3, <2>1, PartsKind DEF OfHeaders
<1> HIDE DEF h, p, f
<1>6. f = h \o p
  <2> DEFINE t == h \o p
  <2>1. t \in Seq(B) /\ Len(t) = 6 + count
        /\ \A k \in 1..(6 + count) : t[k] = IF k <= 6 THEN h[k] ELSE p[k - 6]
    <3>1. h \in Seq(B) /\ p \in Seq(B)
      BY <1>2, <1>3
    <3>2. /\ t \in Seq(B) /\ Len(t) = Len(h) + Len(p)
          /\ \A k \in 1..(Len(h) + Len(p)) : t[k] = IF k <= Len(h) THEN h[k] ELSE p[k - Len(h)]
      BY <3>1, ConcatProperties
    <3> HIDE DEF t
    <3> QED
      BY <1>2, <1>3, <3>2
  <2> HIDE DEF t
  <2>2. ASSUME NEW k \in 1..(6 + count) PROVE f[k] = t[k]
    <3>1. CASE k <= 6
      <4>1. k \in 1..6
        BY <3>1
      <4>2. f[k] = <<m, k>> /\ t[k] = h[k]
        BY <1>4, <2>1, <3>1
      <4>3. h[k] = <<m, k>>
        BY <1>3, <4>1
      <4> QED
        BY <4>2, <4>3
    <3>2. CASE ~(k <= 6)
      <4>1. k - 6 \in 1..count /\ 6 + (k - 6) = k
        BY <3>2
      <4> QED
        BY <1>2, <1>4, <2>1, <3>2, <4>1
    <3> QED
      BY <3>1, <3>2
  <2>3. f = t
    BY <1>4, <2>1, <2>2, SameElements
  <2> QED
    BY <2>3 DEF t
<1>7. Send!PayloadOf(h) = <<>> /\ Send!PayloadOf(p) = p
  BY <1>2, <1>3, <1>5, NoPayload, AllPayload DEF OfHeaders, OfPayload
<1>8. Send!PayloadOf(h \o p) = Send!PayloadOf(h) \o Send!PayloadOf(p)
  BY <1>2, <1>3, PayloadConcat
<1>9. <<>> \o p = p
  BY <1>2
<1> QED
  BY <1>4, <1>6, <1>7, <1>8, <1>9 DEF f, p, B

(* The payloads of the messages that were accepted are those of the bytes     *)
(* that are out or held.                                                      *)
AcceptedInv(max) ==
  /\ accepted \in Seq(SendByte(max))
  /\ Send!PayloadOf(accepted) = Send!PayloadOf(wire \o Held)

(* The bytes of the send side are bytes.                                      *)
LEMMA HeldType ==
  ASSUME NEW max \in Nat, SendInv(max)
  PROVE  Held \in Seq(SendByte(max)) /\ wire \in Seq(SendByte(max)) /\ calls \in 0..max
<1> DEFINE B == SendByte(max)
<1>1. data \in Seq(B) /\ sending \in Seq(B) /\ wait \in Seq(B) /\ wire \in Seq(B) /\ calls \in 0..max
  BY DEF SendInv, SendTyped
<1> HIDE DEF B
<1>2. sending \o data \in Seq(B)
  BY <1>1
<1>3. (sending \o data) \o wait \in Seq(B)
  BY <1>1, <1>2, ConcatProperties
<1> QED
  BY <1>1, <1>3 DEF Held, B

(* Every step of SendPath keeps that: the frame of a message is accepted      *)
(* where its payload is added.                                                *)
LEMMA AcceptedStep ==
  ASSUME SendMax \in Nat, SendInv(SendMax), AcceptedInv(SendMax), Send!Next
  PROVE  AcceptedInv(SendMax)'
<1> DEFINE B == SendByte(SendMax)
<1>1. /\ Held \in Seq(B) /\ wire \in Seq(B) /\ accepted \in Seq(B)
      /\ calls \in 0..SendMax /\ SendSizes \subseteq Nat
      /\ Send!PayloadOf(accepted) = Send!PayloadOf(wire \o Held)
  BY PartsAssumption, HeldType DEF AcceptedInv, Send!SendPathAssumption
<1>2. ASSUME NEW count \in SendSizes, NEW alloc \in {TRUE, ~AllocFails}, Send!SendMsg(count, alloc)
      PROVE  AcceptedInv(SendMax)'
  <2> DEFINE m == calls + 1
             ok == Send!Placed(m, count, alloc).ok
             f == Send!Frame(m, count)
             p == Send!Payload(m, count)
  <2>1. /\ calls < SendMax /\ alloc \in BOOLEAN /\ Placing(count, alloc) /\ wire' = wire
        /\ accepted' = IF ok THEN accepted \o f ELSE accepted
    BY <1>2 DEF Send!SendMsg, Placing
  <2>2. m \in 0..SendMax /\ count \in Nat
    BY <1>1, <2>1
  <2>3. f \in Seq(B) /\ Send!PayloadOf(f) = p
    BY <2>2, FramePayload
  <2>4. PICK u \in Seq(B) :
          Held' = Held \o u /\ Send!PayloadOf(u) = IF ok THEN p ELSE <<>>
    BY <2>1, PlacingStep
  <2> HIDE DEF ok, f, p, B
  <2> DEFINE a == Send!PayloadOf(accepted)
             t == wire \o Held
  <2>5. t \in Seq(B) /\ wire \o (Held \o u) = t \o u
    BY <1>1
  <2>6. wire' \o Held' = t \o u
    BY <2>1, <2>4, <2>5
  <2> HIDE DEF t
  <2>7. Send!PayloadOf(t \o u) = a \o Send!PayloadOf(u) /\ a \in Seq(B)
    <3>1. Send!PayloadOf(t \o u) = Send!PayloadOf(t) \o Send!PayloadOf(u)
      BY <2>5, PayloadConcat
    <3>2. a \in Seq(B)
      BY <1>1, PayloadType
    <3> QED
      BY <1>1, <3>1, <3>2 DEF t
  <2>8. accepted' \in Seq(B) /\ Send!PayloadOf(accepted') = a \o Send!PayloadOf(u)
    <3>1. CASE ok
      <4>1. Send!PayloadOf(accepted \o f) = a \o Send!PayloadOf(f)
        BY <1>1, <2>3, PayloadConcat
      <4>2. accepted \o f \in Seq(B)
        BY <1>1, <2>3
      <4> QED
        BY <2>1, <2>3, <2>4, <3>1, <4>1, <4>2
    <3>2. CASE ~ok
      <4> HIDE DEF a
      <4>1. a \o <<>> = a
        BY <2>7
      <4> QED
        BY <1>1, <2>1, <2>4, <3>2, <4>1 DEF a
    <3> QED
      BY <3>1, <3>2
  <2> QED
    BY <2>6, <2>7, <2>8 DEF AcceptedInv, B
<1>3. ASSUME UNCHANGED <<accepted, calls>>, SendStep(SendMax)
      PROVE  AcceptedInv(SendMax)'
  <2>1. Send!Pipe!PassOn \/ UNCHANGED <<Held, wire>>
    BY <1>3, SendSideStep
  <2>2. wire' \o Held' = wire \o Held
    BY <2>1 DEF Send!Pipe!PassOn, Held
  <2> QED
    BY <1>1, <1>3, <2>2 DEF AcceptedInv
<1>4. ASSUME NEW n \in 1..Len(sending), Send!WriteDone(n)
      PROVE  AcceptedInv(SendMax)'
  BY <1>3, <1>4 DEF SendStep, Send!WriteDone
<1>5. CASE Send!PostWrite
  BY <1>3, <1>5 DEF SendStep, Send!PostWrite
<1>6. CASE Send!Refill
  BY <1>3, <1>6 DEF SendStep, Send!Refill
<1>7. CASE Send!NextWrite
  BY <1>3, <1>7 DEF SendStep, Send!NextWrite
<1> QED
  BY <1>2, <1>4, <1>5, <1>6, <1>7 DEF Send!Next

(* So the payloads that are out are the first of those that were accepted.    *)
LEMMA AcceptedIsOut ==
  ASSUME NEW max \in Nat, SendInv(max), AcceptedInv(max)
  PROVE  Send!PayloadsIntact
<1> DEFINE B == SendByte(max)
           a == Send!PayloadOf(wire)
           b == Send!PayloadOf(Held)
<1>1. Held \in Seq(B) /\ wire \in Seq(B)
  BY HeldType
<1>2. Send!PayloadOf(accepted) = a \o b
  BY <1>1, PayloadConcat DEF AcceptedInv
<1>3. a \in Seq(B) /\ b \in Seq(B)
  BY <1>1, PayloadType
<1>4. Len(a) <= Len(a \o b) /\ a = SubSeq(a \o b, 1, Len(a))
  BY <1>3, PrefixOf
<1>5. SubSeq(a, 1, Len(a)) = a
  BY <1>3
<1> QED
  BY <1>2, <1>4, <1>5 DEF Send!PayloadsIntact, Send!IsPrefix

-----------------------------------------------------------------------------
(* The place that is i behind the first of a ring of m. *)
Place(m, i) == IF i < m THEN i ELSE i - m

(* What a ring of m places makes of a place beyond its end. *)
LEMMA Wrapped ==
  ASSUME NEW m \in Nat \ {0}, NEW i \in 0..(m + m - 1)
  PROVE  i % m = Place(m, i) /\ i % m \in 0..(m - 1)
<1>1. CASE i < m
  BY <1>1 DEF Place
<1>2. CASE ~(i < m)
  BY <1>2 DEF Place
<1> QED
  BY <1>1, <1>2

(* r is a ring of m places with elements of S, h one of them. *)
IsRing(m, r, h, S) == m \in Nat \ {0} /\ r \in [0..(m - 1) -> S] /\ h \in 0..(m - 1)

(* The first of a sequence.                                                   *)
LEMMA FirstElement ==
  ASSUME NEW S, NEW s \in Seq(S), 1 <= Len(s)
  PROVE  SubSeq(s, 1, 1) = <<s[1]>>
<1> DEFINE t == SubSeq(s, 1, 1)
           u == <<s[1]>>
<1>1. t \in Seq(S) /\ Len(t) = 1 /\ t[1] = s[1]
  OBVIOUS
<1>2. u \in Seq(S) /\ Len(u) = 1 /\ u[1] = s[1]
  OBVIOUS
<1> HIDE DEF t, u
<1>3. \A i \in 1..Len(t) : t[i] = u[i]
  BY <1>1, <1>2
<1>4. t = u
  BY <1>1, <1>2, <1>3, SameElements
<1> QED
  BY <1>4 DEF t, u

(* The n elements of a ring of m places r, from place h on. *)
Contents(m, r, h, n) == [i \in 1..n |-> r[(h + i - 1) % m]]

(* They are the elements of n places.                                         *)
LEMMA ContentsType ==
  ASSUME NEW S, NEW m, NEW r, NEW h, IsRing(m, r, h, S), NEW n \in 0..m
  PROVE  /\ Contents(m, r, h, n) \in Seq(S) /\ Len(Contents(m, r, h, n)) = n
         /\ \A i \in 1..n : Contents(m, r, h, n)[i] = r[Place(m, h + i - 1)]
<1> USE DEF IsRing
<1>1. ASSUME NEW i \in 1..n
      PROVE  (h + i - 1) % m = Place(m, h + i - 1) /\ (h + i - 1) % m \in 0..(m - 1)
  <2> DEFINE j == h + i - 1
  <2>1. j \in 0..(m + m - 1)
    OBVIOUS
  <2> HIDE DEF j
  <2>2. j % m = Place(m, j) /\ j % m \in 0..(m - 1)
    BY <2>1, Wrapped
  <2> QED
    BY <2>2 DEF j
<1>2. \A i \in 1..n : r[(h + i - 1) % m] \in S
  BY <1>1
<1>3. Contents(m, r, h, n) \in Seq(S) /\ Len(Contents(m, r, h, n)) = n
  BY <1>2 DEF Contents
<1>4. \A i \in 1..n : Contents(m, r, h, n)[i] = r[(h + i - 1) % m]
  BY DEF Contents
<1> QED
  BY <1>1, <1>3, <1>4

(* The place that is n behind h, and the one that is k behind that.           *)
LEMMA EndMoves ==
  ASSUME NEW m \in Nat \ {0}, NEW h \in 0..(m - 1), NEW n \in 0..m, NEW k \in 0..(m - n)
  PROVE  /\ (h + n) % m = Place(m, h + n)
         /\ (h + n) % m \in 0..(m - 1)
         /\ (((h + n) % m) + k) % m = (h + (n + k)) % m
<1> DEFINE j == h + n
           i == j + k
           t == j % m
           u == t + k
<1>1. j \in 0..(m + m - 1) /\ i \in 0..(m + m - 1) /\ h + (n + k) = i
  OBVIOUS
<1> HIDE DEF j
<1>2. t = Place(m, j) /\ t \in 0..(m - 1)
  BY <1>1, Wrapped
<1> HIDE DEF t
<1>3. u \in 0..(m + m - 1)
  BY <1>2
<1> HIDE DEF i, u
<1>4. i % m = Place(m, i) /\ u % m = Place(m, u)
  BY <1>1, <1>3, Wrapped
<1>5. Place(m, u) = Place(m, i)
  BY <1>1, <1>2 DEF i, u, Place
<1> QED
  BY <1>1, <1>2, <1>4, <1>5 DEF j, t, u

(* q is what a ring r of m places becomes when xs are put from place t on.    *)
Written(m, r, q, t, xs) ==
  \A p \in 0..(m - 1) :
    q[p] = IF t <= p /\ p < t + Len(xs) THEN xs[p - t + 1]
           ELSE IF p < t + Len(xs) - m THEN xs[p - t + 1 + m]
           ELSE r[p]

(* Elements are put behind the last one. *)
LEMMA ContentsGrow ==
  ASSUME NEW S, NEW m, NEW r, NEW q, NEW h, IsRing(m, r, h, S), IsRing(m, q, h, S),
         NEW n \in 0..m, NEW xs \in Seq(S), n + Len(xs) <= m,
         NEW t \in 0..(m - 1), t = (h + n) % m, Written(m, r, q, t, xs)
  PROVE  Contents(m, q, h, n + Len(xs)) = Contents(m, r, h, n) \o xs
<1> DEFINE l == Len(xs)
           old == Contents(m, r, h, n)
           new == Contents(m, q, h, n + l)
<1>1. /\ l \in Nat /\ n + l \in 0..m /\ 0 \in 0..(m - n)
      /\ m \in Nat \ {0} /\ h \in 0..(m - 1)
  BY DEF IsRing
<1> HIDE DEF old, new, l
<1>2. old \in Seq(S) /\ Len(old) = n /\ \A i \in 1..n : old[i] = r[Place(m, h + i - 1)]
  BY ContentsType DEF old
<1>3. /\ new \in Seq(S) /\ Len(new) = n + l
      /\ \A i \in 1..(n + l) : new[i] = q[Place(m, h + i - 1)]
  BY <1>1, ContentsType DEF new
<1>4. t = Place(m, h + n)
  BY <1>1, EndMoves
<1>5. /\ old \o xs \in Seq(S) /\ Len(old \o xs) = n + l
      /\ \A i \in 1..n : (old \o xs)[i] = old[i]
      /\ \A i \in 1..l : (old \o xs)[n + i] = xs[i]
  <2>1. old \in Seq(S) /\ Len(old) = n
    BY <1>2
  <2> QED
    BY <2>1 DEF l
<1>6. ASSUME NEW i \in 1..n
      PROVE  new[i] = old[i]
  <2> DEFINE p == Place(m, h + i - 1)
  <2>1. i \in 1..(n + l)
    BY <1>1
  <2>2. p \in 0..(m - 1) /\ ~(t <= p /\ p < t + l) /\ ~(p < t + l - m)
    BY <1>1, <1>4 DEF Place
  <2> HIDE DEF p
  <2>3. q[p] = r[p]
    BY <2>2 DEF l, Written
  <2> QED
    BY <1>2, <1>3, <2>1, <2>3 DEF p
<1>7. ASSUME NEW k \in 1..l
      PROVE  new[n + k] = xs[k]
  <2> DEFINE i == n + k
             p == Place(m, h + i - 1)
  <2>1. i \in 1..(n + l)
    BY <1>1
  <2>2. p \in 0..(m - 1)
    BY <1>1 DEF Place
  <2>3. \/ t <= p /\ p < t + l /\ p - t + 1 = k
        \/ ~(t <= p) /\ p < t + l - m /\ p - t + 1 + m = k
    <3>1. CASE h + n < m
      <4>1. t = h + n /\ t + k - 1 = h + i - 1
        BY <1>1, <1>4, <3>1 DEF Place
      <4>2. CASE h + i - 1 < m
        BY <1>1, <3>1, <4>1, <4>2 DEF Place
      <4>3. CASE ~(h + i - 1 < m)
        BY <1>1, <3>1, <4>1, <4>3 DEF Place
      <4> QED
        BY <4>2, <4>3
    <3>2. CASE ~(h + n < m)
      BY <1>1, <1>4, <3>2 DEF Place
    <3> QED
      BY <3>1, <3>2
  <2> HIDE DEF p, i
  <2>4. q[p] = xs[k]
    BY <2>2, <2>3 DEF l, Written
  <2>5. new[i] = q[p]
    BY <1>3, <2>1 DEF p
  <2> QED
    BY <2>4, <2>5 DEF i
<1>8. ASSUME NEW i \in 1..(n + l)
      PROVE  new[i] = (old \o xs)[i]
  <2>1. CASE i <= n
    BY <1>5, <1>6, <2>1
  <2>2. CASE ~(i <= n)
    <3>1. i - n \in 1..l /\ n + (i - n) = i
      BY <1>1, <2>2
    <3>2. new[n + (i - n)] = (old \o xs)[n + (i - n)]
      BY <1>5, <1>7, <3>1
    <3> QED
      BY <3>1, <3>2
  <2> QED
    BY <2>1, <2>2
<1>9. new = old \o xs
  BY <1>3, <1>5, <1>8, SameElements
<1> QED
  BY <1>9 DEF new, old, l

(* When the first k of n elements are taken, the others are left.             *)
Leaves(m, r, h, n, k) ==
  /\ Contents(m, r, (h + k) % m, n - k) = SubSeq(Contents(m, r, h, n), k + 1, n)
  /\ (h + k) % m \in 0..(m - 1)
  /\ (((h + k) % m) + (n - k)) % m = (h + n) % m

(* The first k elements are taken. *)
LEMMA ContentsRest ==
  ASSUME NEW S, NEW m, NEW r, NEW h, IsRing(m, r, h, S), NEW n \in 0..m, NEW k \in 0..n
  PROVE  Leaves(m, r, h, n, k)
<1> DEFINE g == (h + k) % m
           l == n - k
           old == Contents(m, r, h, n)
           new == Contents(m, r, g, l)
           rest == SubSeq(old, k + 1, n)
<1>1. /\ l \in 0..m /\ k \in 0..m /\ l \in 0..(m - k) /\ k + l = n
      /\ m \in Nat \ {0} /\ h \in 0..(m - 1)
  BY DEF IsRing
<1> HIDE DEF l
<1>2. g = Place(m, h + k) /\ g \in 0..(m - 1) /\ (g + l) % m = (h + (k + l)) % m
  BY <1>1, EndMoves
<1> HIDE DEF old, g, new
<1>3. old \in Seq(S) /\ Len(old) = n /\ \A i \in 1..n : old[i] = r[Place(m, h + i - 1)]
  BY ContentsType DEF old
<1>8. IsRing(m, r, g, S)
  BY <1>2 DEF IsRing
<1>4. /\ new \in Seq(S) /\ Len(new) = l
      /\ \A i \in 1..l : new[i] = r[Place(m, g + i - 1)]
  <2>1. l \in 0..m
    BY <1>1
  <2> QED
    BY <2>1, <1>8, ContentsType DEF new
<1>5. rest \in Seq(S) /\ Len(rest) = l /\ \A i \in 1..l : rest[i] = old[k + i]
  BY <1>1, <1>3, SMTT(30)
<1>6. ASSUME NEW i \in 1..l
      PROVE  new[i] = rest[i]
  <2>1. k + i \in 1..n
    BY <1>1
  <2>2. Place(m, g + i - 1) = Place(m, h + (k + i) - 1)
    BY <1>1, <1>2, <2>1 DEF Place
  <2> QED
    BY <1>3, <1>4, <1>5, <2>1, <2>2
<1> HIDE DEF rest
<1>7. new = rest
  BY <1>4, <1>5, <1>6, SameElements
<1> QED
  BY <1>1, <1>2, <1>7 DEF g, old, new, l, rest, Leaves

(* The ring: its inductive invariant. *)
RingInv ==
  /\ ring \in [0..(RingSize - 1) -> Values \cup {Garbage}]
  /\ head \in 0..(RingSize - 1) /\ tail \in 0..(RingSize - 1)
  /\ len \in 0..RingSize
  /\ tail = (head + len) % RingSize

(* What write() leaves in the places. *)
LEMMA StoredPlaces ==
  ASSUME RingSize \in Nat \ {0}, RingInv, NEW xs \in Seq(Values), Len(xs) <= RingSize
  PROVE  /\ Ring!Stored(xs) \in [0..(RingSize - 1) -> Values \cup {Garbage}]
         /\ Written(RingSize, ring, Ring!Stored(xs), tail, xs)
<1> USE DEF Written
<1> DEFINE right == RingSize - tail
<1>1. /\ right \in Nat /\ tail \in Nat /\ Len(xs) \in Nat /\ tail < RingSize
      /\ \A i \in 1..Len(xs) : xs[i] \in Values
  BY DEF RingInv
<1>2. CASE Len(xs) <= right
  <2>1. Ring!Stored(xs) =
          [i \in 0..(RingSize - 1) |->
             IF tail <= i /\ i < tail + Len(xs) THEN xs[i - tail + 1] ELSE ring[i]]
    BY <1>2 DEF Ring!Stored, Ring!Copied, Ring!Places
  <2> QED
    BY <1>1, <1>2, <2>1 DEF RingInv
<1>3. CASE ~(Len(xs) <= right)
  <2> DEFINE left == SubSeq(xs, 1, right)
             over == SubSeq(xs, right + 1, Len(xs))
             once == Ring!Copied(ring, tail, left)
  <2>1. /\ left \in Seq(Values) /\ Len(left) = right
        /\ \A i \in 1..right : left[i] = xs[i]
    BY <1>1, <1>3
  <2>2. /\ over \in Seq(Values) /\ Len(over) = Len(xs) - right
        /\ \A i \in 1..(Len(xs) - right) : over[i] = xs[right + i]
    BY <1>1, <1>3
  <2>3. Ring!Stored(xs) = Ring!Copied(once, 0, over)
    BY <1>3 DEF Ring!Stored
  <2> HIDE DEF left, over, right
  <2>4. once = [i \in 0..(RingSize - 1) |->
                  IF tail <= i /\ i < tail + right THEN left[i - tail + 1] ELSE ring[i]]
    BY <2>1 DEF Ring!Copied, Ring!Places
  <2> HIDE DEF once
  <2>5. Ring!Copied(once, 0, over) =
          [i \in 0..(RingSize - 1) |->
             IF 0 <= i /\ i < 0 + (Len(xs) - right) THEN over[i - 0 + 1] ELSE once[i]]
    BY <2>2 DEF Ring!Copied, Ring!Places
  <2>6. right = RingSize - tail
    BY DEF right
  <2>7. ASSUME NEW p \in 0..(RingSize - 1)
        PROVE  /\ Ring!Stored(xs)[p] =
                    IF tail <= p /\ p < tail + Len(xs) THEN xs[p - tail + 1]
                    ELSE IF p < tail + Len(xs) - RingSize THEN xs[p - tail + 1 + RingSize]
                    ELSE ring[p]
               /\ Ring!Stored(xs)[p] \in Values \cup {Garbage}
    <3>1. CASE p < Len(xs) - right
      <4>1. /\ p + 1 \in 1..(Len(xs) - right) /\ right + (p + 1) = p - tail + 1 + RingSize
            /\ p < tail /\ p < tail + Len(xs) - RingSize
            /\ right + (p + 1) \in 1..Len(xs)
        BY <1>1, <2>6, <3>1
      <4>2. Ring!Stored(xs)[p] = over[p + 1]
        BY <1>1, <2>3, <2>5, <3>1
      <4>3. Ring!Stored(xs)[p] = xs[right + (p + 1)]
        BY <2>2, <4>1, <4>2
      <4> QED
        BY <1>1, <4>1, <4>3
    <3>2. CASE ~(p < Len(xs) - right)
      <4>1. Ring!Stored(xs)[p] = once[p]
        BY <1>1, <2>3, <2>5, <3>2
      <4>2. ~(p < tail + Len(xs) - RingSize)
        BY <1>1, <2>6, <3>2
      <4>3. CASE tail <= p
        <5>1. p - tail + 1 \in 1..right /\ p < tail + Len(xs) /\ p < tail + right /\ right <= Len(xs)
          BY <1>1, <1>3, <2>6, <4>3
        <5>2. once[p] = left[p - tail + 1]
          BY <2>4, <4>3, <5>1
        <5> QED
          BY <1>1, <2>1, <4>1, <4>3, <5>1, <5>2
      <4>4. CASE ~(tail <= p)
        BY <2>4, <4>1, <4>2, <4>4 DEF RingInv
      <4> QED
        BY <4>3, <4>4
    <3> QED
      BY <3>1, <3>2
  <2> QED
    BY <2>3, <2>5, <2>7
<1> QED
  BY <1>2, <1>3

(* A ring without elements.                                                   *)
LEMMA EmptyRing ==
  ASSUME NEW m \in Nat \ {0}, NEW r
  PROVE  (0 + 0) % m = 0 /\ Contents(m, r, 0, 0) = <<>> /\ 0 \in 0..(m - 1)
<1>1. Contents(m, r, 0, 0) = <<>>
  BY DEF Contents
<1>2. 0 \in 0..(m + m - 1) /\ 0 \in 0..(m - 1)
  OBVIOUS
<1>3. 0 % m = Place(m, 0)
  BY <1>2, Wrapped
<1>4. Place(m, 0) = 0
  BY DEF Place
<1> QED
  BY <1>1, <1>2, <1>3, <1>4

(* What look() and read() return are the oldest elements.                     *)
LEMMA PeekedFront ==
  ASSUME RingSize \in Nat \ {0}, RingInv, NEW n \in 0..len
  PROVE  Ring!Peeked(n) = SubSeq(Contents(RingSize, ring, head, len), 1, n)
<1> DEFINE V     == Values \cup {Garbage}
           items == Contents(RingSize, ring, head, len)
           front_ == SubSeq(items, 1, n)
           right == RingSize - head
<1>1. /\ right \in Nat /\ right > 0 /\ head \in Nat /\ head < RingSize /\ len \in 0..RingSize
      /\ ring \in [0..(RingSize - 1) -> V]
  BY DEF RingInv
<1>2. IsRing(RingSize, ring, head, V)
  BY DEF RingInv, IsRing
<1> HIDE DEF items, V
<1>3. /\ items \in Seq(V) /\ Len(items) = len
      /\ \A i \in 1..len : items[i] = ring[Place(RingSize, head + i - 1)]
  BY <1>1, <1>2, ContentsType DEF items
<1>4. front_ \in Seq(V) /\ Len(front_) = n /\ \A i \in 1..n : front_[i] = items[i]
  BY <1>1, <1>3
<1> HIDE DEF front_
<1>5. ASSUME NEW p \in Seq(V), Len(p) = n,
             \A i \in 1..n : p[i] = ring[Place(RingSize, head + i - 1)]
      PROVE  p = front_
  <2>1. \A i \in 1..n : i \in 1..len
    BY <1>1
  <2>2. \A i \in 1..Len(p) : p[i] = front_[i]
    BY <1>3, <1>4, <1>5, <2>1
  <2> QED
    BY <1>4, <1>5, <2>2, SameElements
<1>6. CASE n <= right
  <2>1. Ring!Peeked(n) = [i \in 1..n |-> ring[head + i - 1]]
    BY <1>6 DEF Ring!Peeked, Ring!Bytes
  <2>2. \A i \in 1..n : /\ head + i - 1 \in 0..(RingSize - 1)
                        /\ Place(RingSize, head + i - 1) = head + i - 1
    BY <1>1, <1>6 DEF Place
  <2>3. \A i \in 1..n : ring[head + i - 1] \in V
    BY <1>1, <2>2
  <2>4. Ring!Peeked(n) \in Seq(V) /\ Len(Ring!Peeked(n)) = n
    BY <1>1, <2>1, <2>3
  <2>5. \A i \in 1..n : Ring!Peeked(n)[i] = ring[Place(RingSize, head + i - 1)]
    BY <2>1, <2>2
  <2> QED
    BY <1>5, <2>4, <2>5 DEF front_, items
<1>7. CASE ~(n <= right)
  <2> DEFINE one == [i \in 1..right |-> ring[head + i - 1]]
             two == [i \in 1..(n - right) |-> ring[0 + i - 1]]
  <2>1. Ring!Peeked(n) = one \o two
    BY <1>7 DEF Ring!Peeked, Ring!Bytes
  <2>2. \A i \in 1..right : /\ head + i - 1 \in 0..(RingSize - 1)
                            /\ Place(RingSize, head + i - 1) = head + i - 1
    BY <1>1 DEF Place
  <2>3. \A i \in 1..(n - right) : /\ 0 + i - 1 \in 0..(RingSize - 1)
                                  /\ Place(RingSize, head + (right + i) - 1) = 0 + i - 1
    BY <1>1, <1>7 DEF Place
  <2>4. /\ \A i \in 1..right : ring[head + i - 1] \in V
        /\ \A i \in 1..(n - right) : ring[0 + i - 1] \in V
    BY <1>1, <2>2, <2>3
  <2>5. one \in Seq(V) /\ Len(one) = right
    BY <1>1, <2>4
  <2>6. two \in Seq(V) /\ Len(two) = n - right
    BY <1>1, <1>7, <2>4
  <2>7. /\ \A i \in 1..right : one[i] = ring[Place(RingSize, head + i - 1)]
        /\ \A i \in 1..(n - right) : two[i] = ring[Place(RingSize, head + (right + i) - 1)]
    BY <2>2, <2>3
  <2>10. n - right \in Nat /\ right \in Nat /\ right + (n - right) = n
    BY <1>1, <1>7
  <2> HIDE DEF one, two, right
  <2>8. /\ one \o two \in Seq(V) /\ Len(one \o two) = n
        /\ \A i \in 1..right : (one \o two)[i] = one[i]
        /\ \A i \in 1..(n - right) : (one \o two)[right + i] = two[i]
    BY <2>5, <2>6, <2>10
  <2>9. ASSUME NEW i \in 1..n
        PROVE  (one \o two)[i] = ring[Place(RingSize, head + i - 1)]
    <3>1. CASE i <= right
      <4>1. i \in 1..right
        BY <3>1
      <4> QED
        BY <2>7, <2>8, <4>1
    <3>2. CASE ~(i <= right)
      <4>1. i - right \in 1..(n - right) /\ right + (i - right) = i
        BY <2>10, <3>2
      <4>2. /\ (one \o two)[right + (i - right)] = two[i - right]
            /\ two[i - right] = ring[Place(RingSize, head + (right + (i - right)) - 1)]
        BY <2>7, <2>8, <4>1
      <4> QED
        BY <4>1, <4>2
    <3> QED
      BY <3>1, <3>2
  <2> QED
    BY <1>5, <2>1, <2>8, <2>9 DEF front_, items
<1> QED
  BY <1>6, <1>7

(* The bytes in the ring, the oldest first.                                   *)
RingItems == Contents(RingSize, ring, head, len)

(* They are bytes.                                                           *)
LEMMA RingItemsType ==
  ASSUME RingSize \in Nat \ {0}, RingInv
  PROVE  /\ IsRing(RingSize, ring, head, Values \cup {Garbage})
         /\ RingItems \in Seq(Values \cup {Garbage}) /\ Len(RingItems) = len
<1> DEFINE V == Values \cup {Garbage}
<1>1. IsRing(RingSize, ring, head, V) /\ len \in 0..RingSize
  BY DEF RingInv, IsRing
<1> HIDE DEF V
<1>2. /\ Contents(RingSize, ring, head, len) \in Seq(V)
      /\ Len(Contents(RingSize, ring, head, len)) = len
  BY ONLY <1>1, ContentsType
<1>3. RingItems \in Seq(V) /\ Len(RingItems) = len
  BY ONLY <1>2 DEF RingItems
<1> QED
  BY ONLY <1>1, <1>3 DEF V

(* What the fifo says of them.                                                *)
LEMMA RingCalls ==
  /\ Ring!Fifo!Put <=>
       (/\ call'.op = "put" /\ call'.ok = (Len(RingItems) + Len(call'.given) <= RingSize)
        /\ RingItems' = IF call'.ok THEN RingItems \o call'.given ELSE RingItems)
  /\ Ring!Fifo!Fetch <=>
       (/\ call'.op \in {"get", "look", "skip"} /\ call'.ok = (call'.n <= Len(RingItems))
        /\ RingItems' = IF call'.ok /\ call'.op # "look"
                        THEN SubSeq(RingItems, call'.n + 1, Len(RingItems)) ELSE RingItems
        /\ call'.ok /\ call'.op # "skip" => call'.got = SubSeq(RingItems, 1, call'.n))
  /\ Ring!Fifo!Clear <=> (call'.op = "clear" /\ RingItems' = <<>>)
BY Zenon DEF Ring!Fifo!Put, Ring!Fifo!Fetch, Ring!Fifo!Clear, Ring!Fifo!Front,
   Ring!Fifo!Rest,
   RingItems, Contents

(* What write() does to the ring.                                             *)
LEMMA RingWrites ==
  ASSUME RingSize \in Nat \ {0}, RingInv, NEW xs \in Seq(Values), Ring!Write(xs)
  PROVE  RingInv' /\ Ring!Fifo!Put
<1>1. /\ IsRing(RingSize, ring, head, Values \cup {Garbage})
      /\ RingItems \in Seq(Values \cup {Garbage}) /\ Len(RingItems) = len
  BY RingItemsType
<1>2. /\ len \in 0..RingSize /\ head \in 0..(RingSize - 1) /\ tail \in 0..(RingSize - 1)
      /\ tail = (head + len) % RingSize /\ Len(xs) \in Nat
  BY DEF RingInv
<1>3. CASE xs # <<>> /\ Len(xs) <= RingSize - len
  <2>1. /\ ring' = Ring!Stored(xs) /\ tail' = (tail + Len(xs)) % RingSize
        /\ len' = len + Len(xs) /\ head' = head
        /\ call' = [op |-> "put", given |-> xs, n |-> 0, ok |-> TRUE, got |-> <<>>]
    BY <1>3 DEF Ring!Write, Ring!Called
  <2>2. /\ Ring!Stored(xs) \in [0..(RingSize - 1) -> Values \cup {Garbage}]
        /\ Written(RingSize, ring, Ring!Stored(xs), tail, xs)
    BY <1>2, <1>3, StoredPlaces
  <2>3. IsRing(RingSize, Ring!Stored(xs), head, Values \cup {Garbage})
    BY <1>2, <2>2 DEF IsRing
  <2>4. /\ len + Len(xs) \in 0..RingSize /\ len + Len(xs) <= RingSize
        /\ Len(xs) \in 0..(RingSize - len)
    BY <1>2, <1>3
  <2>5. xs \in Seq(Values \cup {Garbage})
    OBVIOUS
  <2>6. Contents(RingSize, Ring!Stored(xs), head, len + Len(xs)) = RingItems \o xs
    <3>1. IsRing(RingSize, ring, head, Values \cup {Garbage})
      BY <1>1
    <3>2. tail = (head + len) % RingSize /\ len \in 0..RingSize /\ tail \in 0..(RingSize - 1)
      BY <1>2
    <3>3. Written(RingSize, ring, Ring!Stored(xs), tail, xs)
      BY <2>2
    <3>4. len + Len(xs) <= RingSize
      BY <2>4
    <3> QED
      BY <3>1, <3>2, <3>3, <3>4, <2>3, <2>5, ContentsGrow DEF RingItems
  <2>7. RingItems' = RingItems \o xs
    BY <2>1, <2>6 DEF RingItems
  <2>8. tail' = (head + (len + Len(xs))) % RingSize /\ tail' \in 0..(RingSize - 1)
    <3>1. (head + (len + Len(xs))) % RingSize \in 0..(RingSize - 1)
      BY <1>2, <2>4, EndMoves
    <3>2. (((head + len) % RingSize) + Len(xs)) % RingSize = (head + (len + Len(xs))) % RingSize
      BY <1>2, <2>4, EndMoves
    <3> QED
      BY <1>2, <2>1, <3>1, <3>2
  <2>9. RingInv'
    BY <1>2, <2>1, <2>2, <2>4, <2>8 DEF RingInv
  <2>10. Ring!Fifo!Put
    <3>1. call'.op = "put" /\ call'.given = xs /\ call'.ok = TRUE
      BY <2>1
    <3>2. Len(RingItems) + Len(xs) <= RingSize
      BY <1>1, <2>4
    <3> QED
      BY <2>7, <3>1, <3>2, RingCalls
  <2> QED
    BY <2>9, <2>10
<1>4. CASE ~(xs # <<>> /\ Len(xs) <= RingSize - len)
  <2>1. /\ UNCHANGED <<ring, tail, len, head>>
        /\ call'.op = "put" /\ call'.given = xs
        /\ call'.ok = (xs = <<>> \/ Len(xs) <= RingSize - len)
    BY <1>4 DEF Ring!Write, Ring!Called, Ring!ring
  <2>2. RingInv' /\ RingItems' = RingItems
    BY <2>1 DEF RingInv, RingItems
  <2>3. (xs = <<>> \/ Len(xs) <= RingSize - len) = (len + Len(xs) <= RingSize)
    BY <1>2
  <2>4. xs = <<>> => RingItems \o xs = RingItems
    BY <1>1
  <2> QED
    BY <1>1, <1>4, <2>1, <2>2, <2>3, <2>4, RingCalls
<1> QED
  BY <1>3, <1>4

(* What look(), skip() and read() do to the ring.                             *)
LEMMA RingTakes ==
  ASSUME RingSize \in Nat \ {0}, RingInv, NEW n \in Nat,
         Ring!Peek(n) \/ Ring!Skip(n) \/ Ring!Read(n)
  PROVE  RingInv' /\ Ring!Fifo!Fetch
<1>1. /\ IsRing(RingSize, ring, head, Values \cup {Garbage})
      /\ RingItems \in Seq(Values \cup {Garbage}) /\ Len(RingItems) = len
  BY RingItemsType
<1>2. /\ len \in 0..RingSize /\ head \in 0..(RingSize - 1) /\ tail \in 0..(RingSize - 1)
      /\ tail = (head + len) % RingSize
  BY DEF RingInv
<1>3. /\ call'.op \in {"get", "look", "skip"} /\ call'.n = n /\ call'.ok = (n <= len)
      /\ call'.op # "skip" => call'.got = IF n <= len THEN Ring!Peeked(n) ELSE <<>>
  BY DEF Ring!Peek, Ring!Skip, Ring!Read, Ring!Called
<1>4. n <= len => Ring!Peeked(n) = SubSeq(RingItems, 1, n)
  <2>1. n <= len => n \in 0..len
    BY <1>2
  <2> QED
    BY <2>1, PeekedFront DEF RingItems
<1>5. CASE n <= len /\ call'.op # "look"
  <2>1. ring' = ring /\ tail' = tail /\ head' = (head + n) % RingSize /\ len' = len - n
    BY <1>5 DEF Ring!Peek, Ring!Skip, Ring!Read, Ring!Called, Ring!HeadAfter
  <2>2. n \in 0..len /\ len - n \in 0..RingSize
    BY <1>2, <1>5
  <2>3. /\ Contents(RingSize, ring, (head + n) % RingSize, len - n)
             = SubSeq(Contents(RingSize, ring, head, len), n + 1, len)
        /\ (head + n) % RingSize \in 0..(RingSize - 1)
        /\ (((head + n) % RingSize) + (len - n)) % RingSize = (head + len) % RingSize
    <3>1. Leaves(RingSize, ring, head, len, n)
      BY <1>1, <1>2, <2>2, ContentsRest
    <3> QED
      BY <3>1 DEF Leaves
  <2>4. RingItems' = SubSeq(RingItems, n + 1, Len(RingItems))
    BY <1>1, <2>1, <2>3 DEF RingItems
  <2>5. RingInv'
    BY <1>2, <2>1, <2>2, <2>3 DEF RingInv
  <2>6. call'.ok = TRUE
    BY <1>3, <1>5
  <2> QED
    BY <1>1, <1>3, <1>4, <1>5, <2>4, <2>5, <2>6, RingCalls
<1>6. CASE ~(n <= len /\ call'.op # "look")
  <2>1. UNCHANGED <<ring, tail, len, head>>
    BY <1>6 DEF Ring!Peek, Ring!Skip, Ring!Read, Ring!Called, Ring!ring
  <2>2. RingInv' /\ RingItems' = RingItems
    BY <2>1 DEF RingInv, RingItems
  <2> QED
    BY <1>1, <1>3, <1>4, <1>6, <2>2, RingCalls
<1> QED
  BY <1>5, <1>6

(* Every step of the ring is one of the fifo.                                 *)
LEMMA RingStep ==
  ASSUME RingSize \in Nat \ {0}, RingInv, Ring!Next
  PROVE  RingInv' /\ (Ring!Fifo!Put \/ Ring!Fifo!Fetch \/ Ring!Fifo!Clear)
<1>1. CASE Ring!Reset
  <2>1. ring' = ring /\ head' = 0 /\ tail' = 0 /\ len' = 0 /\ call'.op = "clear"
    BY <1>1 DEF Ring!Reset, Ring!Called
  <2>2. (0 + 0) % RingSize = 0 /\ Contents(RingSize, ring, 0, 0) = <<>> /\ 0 \in 0..(RingSize - 1)
    BY EmptyRing
  <2>3. RingItems' = <<>>
    BY <2>1, <2>2 DEF RingItems
  <2>4. RingInv'
    BY <2>1, <2>2 DEF RingInv
  <2> QED
    BY <2>1, <2>3, <2>4, RingCalls
<1>2. ASSUME NEW xs \in Ring!Inputs, Ring!Write(xs)
      PROVE  RingInv' /\ Ring!Fifo!Put
  <2>1. xs \in Seq(Values)
    BY DEF Ring!Inputs
  <2> QED
    BY <1>2, <2>1, RingWrites
<1>3. ASSUME NEW n \in 0..(RingSize + 1), Ring!Peek(n) \/ Ring!Skip(n) \/ Ring!Read(n)
      PROVE  RingInv' /\ Ring!Fifo!Fetch
  BY <1>3, RingTakes
<1> QED
  BY <1>1, <1>2, <1>3 DEF Ring!Next

(* The invariant holds at the start.                                          *)
LEMMA RingStarts ==
  ASSUME RingSize \in Nat \ {0}, Ring!Init
  PROVE  RingInv /\ RingItems = <<>>
<1>1. (0 + 0) % RingSize = 0 /\ Contents(RingSize, ring, 0, 0) = <<>> /\ 0 \in 0..(RingSize - 1)
  BY EmptyRing
<1> QED
  BY <1>1 DEF Ring!Init, Ring!Places, RingInv, RingItems

-----------------------------------------------------------------------------
(* The queue: its inductive invariant. *)
QueueInv ==
  /\ maxSize \in Nat
  /\ datas \in [0..(maxSize - 1) -> Values \cup {Garbage}]
  /\ size \in 0..maxSize
  /\ IF maxSize = 0 THEN front = 0 /\ back = 0
     ELSE front \in 0..(maxSize - 1) /\ back = (front + size) % maxSize

(* What is queued, the oldest first.                                          *)
QueueItems == Contents(maxSize, datas, front, size)

(* What the fifo says of it.                                                  *)
LEMMA QueueCalls ==
  /\ Queue!Fifo!Put <=>
       (/\ lastCall'.op = "put"
        /\ lastCall'.ok = (Len(QueueItems) + Len(lastCall'.given) <= maxSize)
        /\ QueueItems' = IF lastCall'.ok THEN QueueItems \o lastCall'.given ELSE QueueItems
        /\ maxSize' = maxSize)
  /\ Queue!Fifo!Fetch <=>
       (/\ lastCall'.op \in {"get", "look", "skip"}
        /\ lastCall'.ok = (lastCall'.n <= Len(QueueItems))
        /\ QueueItems' = IF lastCall'.ok /\ lastCall'.op # "look"
                         THEN SubSeq(QueueItems, lastCall'.n + 1, Len(QueueItems)) ELSE QueueItems
        /\ lastCall'.ok /\ lastCall'.op # "skip" =>
             lastCall'.got = SubSeq(QueueItems, 1, lastCall'.n)
        /\ maxSize' = maxSize)
  /\ Queue!Fifo!Clear <=> (lastCall'.op = "clear" /\ QueueItems' = <<>> /\ maxSize' = maxSize)
  /\ Queue!Fifo!Resize <=>
       (lastCall'.op = "resize" /\ QueueItems = <<>> /\ QueueItems' = <<>>
        /\ maxSize' = lastCall'.n)
BY Zenon DEF Queue!Fifo!Put, Queue!Fifo!Fetch, Queue!Fifo!Clear, Queue!Fifo!Resize,
   Queue!Fifo!Front, Queue!Fifo!Rest, QueueItems, Contents

(* It is a sequence.                                                          *)
LEMMA QueueItemsType ==
  ASSUME QueueInv
  PROVE  /\ QueueItems \in Seq(Values \cup {Garbage}) /\ Len(QueueItems) = size
         /\ size = 0 => QueueItems = <<>>
         /\ maxSize # 0 => IsRing(maxSize, datas, front, Values \cup {Garbage})
<1>1. CASE maxSize = 0
  <2>1. size = 0
    BY <1>1 DEF QueueInv
  <2>2. QueueItems = <<>>
    BY <2>1 DEF QueueItems, Contents
  <2> QED
    BY <1>1, <2>1, <2>2
<1>2. CASE maxSize # 0
  <2> DEFINE V == Values \cup {Garbage}
  <2>1. IsRing(maxSize, datas, front, V) /\ size \in 0..maxSize
    BY <1>2 DEF QueueInv, IsRing
  <2> HIDE DEF V
  <2>2. /\ Contents(maxSize, datas, front, size) \in Seq(V)
        /\ Len(Contents(maxSize, datas, front, size)) = size
    BY ONLY <2>1, ContentsType
  <2>3. QueueItems \in Seq(V) /\ Len(QueueItems) = size
    BY ONLY <2>2 DEF QueueItems
  <2> QED
    BY <2>1, <2>3 DEF V
<1> QED
  BY <1>1, <1>2

(* A call that leaves an empty queue.                                         *)
LEMMA QueueEmptied ==
  ASSUME QueueInv, maxSize' \in Nat, datas' \in [0..(maxSize' - 1) -> Values \cup {Garbage}],
         size' = 0, front' = 0, back' = 0
  PROVE  QueueInv' /\ QueueItems' = <<>>
<1>1. QueueItems' = <<>>
  BY DEF QueueItems, Contents
<1>2. maxSize' # 0 => (0 + 0) % maxSize' = 0 /\ 0 \in 0..(maxSize' - 1)
  BY EmptyRing
<1>3. QueueInv'
  <2>1. CASE maxSize' = 0
    BY <2>1 DEF QueueInv
  <2>2. CASE maxSize' # 0
    <3>1. back' = (front' + size') % maxSize' /\ front' \in 0..(maxSize' - 1)
      BY <1>2, <2>2
    <3>2. size' \in 0..maxSize'
      OBVIOUS
    <3> QED
      BY <2>2, <3>1, <3>2 DEF QueueInv
  <2> QED
    BY <2>1, <2>2
<1> QED
  BY <1>1, <1>3

(* What push() does to the queue.                                             *)
LEMMA QueuePuts ==
  ASSUME QueueInv, NEW x \in Values, Queue!Push(x)
  PROVE  QueueInv' /\ Queue!Fifo!Put
<1>1. /\ QueueItems \in Seq(Values \cup {Garbage}) /\ Len(QueueItems) = size
      /\ maxSize \in Nat /\ size \in 0..maxSize
  BY QueueItemsType DEF QueueInv
<1>2. /\ lastCall'.op = "put" /\ lastCall'.given = <<x>> /\ lastCall'.ok = ~(size = maxSize)
      /\ maxSize' = maxSize /\ front' = front
  BY DEF Queue!Push, Queue!Called, Queue!Full
<1>3. CASE size = maxSize
  <2>1. UNCHANGED <<datas, size, back>>
    BY <1>3 DEF Queue!Push, Queue!Full
  <2>2. QueueInv' /\ QueueItems' = QueueItems
    BY <1>2, <2>1 DEF QueueInv, QueueItems
  <2>3. ~(Len(QueueItems) + Len(<<x>>) <= maxSize)
    BY <1>1, <1>3
  <2> QED
    <3>1. (~(size = maxSize)) = (Len(QueueItems) + Len(<<x>>) <= maxSize)
      BY <1>3, <2>3
    <3> QED
      BY <1>2, <1>3, <2>2, <3>1, QueueCalls
<1>4. CASE ~(size = maxSize)
  <2> DEFINE q  == [datas EXCEPT ![back] = x]
             xs == <<x>>
  <2>1. datas' = q /\ size' = size + 1 /\ back' = (back + 1) % maxSize
    BY <1>4 DEF Queue!Push, Queue!Full, Queue!After
  <2>2. /\ maxSize \in Nat \ {0} /\ front \in 0..(maxSize - 1)
        /\ datas \in [0..(maxSize - 1) -> Values \cup {Garbage}]
        /\ back = (front + size) % maxSize
        /\ size + 1 \in 0..maxSize /\ size + 1 <= maxSize /\ 1 \in 0..(maxSize - size)
    BY <1>1, <1>4 DEF QueueInv
  <2>3. /\ back \in 0..(maxSize - 1)
        /\ (back + 1) % maxSize = (front + (size + 1)) % maxSize
    BY <1>1, <2>2, EndMoves
  <2>4. q \in [0..(maxSize - 1) -> Values \cup {Garbage}]
    BY <2>2, <2>3
  <2>5. /\ IsRing(maxSize, datas, front, Values \cup {Garbage})
        /\ IsRing(maxSize, q, front, Values \cup {Garbage})
    BY <2>2, <2>4 DEF IsRing
  <2>6. Written(maxSize, datas, q, back, xs)
    BY <2>2, <2>3 DEF Written
  <2>7. xs \in Seq(Values \cup {Garbage}) /\ Len(xs) = 1
    OBVIOUS
  <2> HIDE DEF q, xs
  <2>8. Contents(maxSize, q, front, size + Len(xs)) = QueueItems \o xs
    <3>1. size + Len(xs) <= maxSize
      BY <2>2, <2>7
    <3>2. back \in 0..(maxSize - 1) /\ back = (front + size) % maxSize /\ size \in 0..maxSize
      BY <1>1, <2>2, <2>3
    <3>3. xs \in Seq(Values \cup {Garbage})
      BY <2>7
    <3> QED
      BY <2>5, <2>6, <3>1, <3>2, <3>3, ContentsGrow DEF QueueItems
  <2>9. QueueItems' = QueueItems \o xs
    BY <1>2, <2>1, <2>7, <2>8 DEF QueueItems
  <2>10. QueueInv'
    BY <1>2, <2>1, <2>2, <2>3, <2>4 DEF QueueInv
  <2>11. lastCall'.ok = TRUE /\ Len(QueueItems) + Len(xs) <= maxSize
    BY <1>1, <1>2, <1>4, <2>2, <2>7
  <2> QED
    BY <1>2, <2>7, <2>9, <2>10, <2>11, QueueCalls DEF xs
<1> QED
  BY <1>3, <1>4

(* What pop() does to the queue.                                              *)
LEMMA QueueTakes ==
  ASSUME QueueInv, Queue!Pop
  PROVE  QueueInv' /\ Queue!Fifo!Fetch
<1>1. /\ QueueItems \in Seq(Values \cup {Garbage}) /\ Len(QueueItems) = size
      /\ maxSize \in Nat /\ size \in 0..maxSize
  BY QueueItemsType DEF QueueInv
<1>2. /\ lastCall'.op = "get" /\ lastCall'.n = 1 /\ lastCall'.ok = (size # 0)
      /\ lastCall'.got = IF size = 0 THEN <<>> ELSE <<datas[front]>>
      /\ maxSize' = maxSize /\ datas' = datas /\ back' = back
  BY DEF Queue!Pop, Queue!Called
<1>3. CASE size = 0
  <2>1. UNCHANGED <<size, front>>
    BY <1>3 DEF Queue!Pop
  <2>2. QueueInv' /\ QueueItems' = QueueItems
    BY <1>2, <2>1 DEF QueueInv, QueueItems
  <2>3. (size # 0) = (1 <= Len(QueueItems))
    BY <1>1, <1>3
  <2> QED
    BY <1>2, <1>3, <2>2, <2>3, QueueCalls
<1>4. CASE size # 0
  <2>1. front' = (front + 1) % maxSize /\ size' = size - 1
    BY <1>4 DEF Queue!Pop, Queue!After
  <2>2. /\ maxSize \in Nat \ {0} /\ front \in 0..(maxSize - 1)
        /\ back = (front + size) % maxSize
        /\ 1 \in 0..size /\ 1 \in 1..size /\ size - 1 \in 0..maxSize
    BY <1>1, <1>4 DEF QueueInv
  <2>3. IsRing(maxSize, datas, front, Values \cup {Garbage})
    BY <2>2, QueueItemsType
  <2>4. /\ Contents(maxSize, datas, (front + 1) % maxSize, size - 1)
             = SubSeq(Contents(maxSize, datas, front, size), 1 + 1, size)
        /\ (front + 1) % maxSize \in 0..(maxSize - 1)
        /\ (((front + 1) % maxSize) + (size - 1)) % maxSize = (front + size) % maxSize
    <3>1. size \in 0..maxSize /\ 1 \in 0..size
      BY <1>1, <2>2
    <3>2. Leaves(maxSize, datas, front, size, 1)
      BY <2>3, <3>1, ContentsRest
    <3> QED
      BY <3>2 DEF Leaves
  <2>5. QueueItems' = SubSeq(QueueItems, 1 + 1, Len(QueueItems))
    BY <1>1, <1>2, <2>1, <2>4 DEF QueueItems
  <2>6. QueueInv'
    BY <1>2, <2>1, <2>2, <2>4 DEF QueueInv
  <2>8. 1 <= Len(QueueItems)
    BY <1>1, <1>4
  <2>7. SubSeq(QueueItems, 1, 1) = <<datas[front]>>
    <3>1. QueueItems[1] = datas[Place(maxSize, front + 1 - 1)]
      <4>1. size \in 0..maxSize /\ 1 \in 1..size
        BY <1>1, <2>2
      <4> QED
        BY <2>3, <4>1, ContentsType DEF QueueItems
    <3>2. Place(maxSize, front + 1 - 1) = front
      BY <2>2 DEF Place
    <3>3. SubSeq(QueueItems, 1, 1) = <<QueueItems[1]>>
      BY <1>1, <1>4, <2>8, FirstElement
    <3> QED
      BY <3>1, <3>2, <3>3
  <2>9. lastCall'.ok = TRUE /\ lastCall'.got = <<datas[front]>>
    BY <1>2, <1>4
  <2> QED
    BY <1>2, <2>5, <2>6, <2>7, <2>8, <2>9, QueueCalls
<1> QED
  BY <1>3, <1>4

(* Every step of the queue is one of the fifo.                                *)
LEMMA QueueStep ==
  ASSUME QueueMax \in Nat \ {0}, QueueInv, Queue!Next
  PROVE  /\ QueueInv'
         /\ Queue!Fifo!Put \/ Queue!Fifo!Fetch \/ Queue!Fifo!Clear \/ Queue!Fifo!Resize
<1>1. /\ QueueItems \in Seq(Values \cup {Garbage}) /\ Len(QueueItems) = size
      /\ size = 0 => QueueItems = <<>>
  BY QueueItemsType
<1>2. ASSUME NEW n \in 1..QueueMax, Queue!InitQueue(n)
      PROVE  QueueInv' /\ Queue!Fifo!Resize
  <2>1. /\ maxSize = 0 /\ maxSize' = n /\ datas' = [i \in 0..(n - 1) |-> Garbage]
        /\ size' = size /\ front' = front /\ back' = back
        /\ lastCall'.op = "resize" /\ lastCall'.n = n
    BY <1>2 DEF Queue!InitQueue, Queue!Called, Queue!Array
  <2>2. size = 0 /\ front = 0 /\ back = 0
    BY <2>1 DEF QueueInv
  <2>3. QueueInv' /\ QueueItems' = <<>>
    BY <2>1, <2>2, QueueEmptied
  <2> QED
    BY <1>1, <2>1, <2>2, <2>3, QueueCalls
<1>3. CASE Queue!Destroy
  <2>1. /\ size = 0 /\ maxSize' = 0 /\ datas' = [i \in 0..(0 - 1) |-> Garbage]
        /\ size' = size /\ front' = 0 /\ back' = 0
        /\ lastCall'.op = "resize" /\ lastCall'.n = 0
    BY <1>3 DEF Queue!Destroy, Queue!Called, Queue!Array
  <2>2. QueueInv' /\ QueueItems' = <<>>
    BY <2>1, QueueEmptied
  <2> QED
    BY <1>1, <2>1, <2>2, QueueCalls
<1>4. CASE Queue!Clear
  <2>1. /\ maxSize' = maxSize /\ datas' = datas /\ size' = 0 /\ front' = 0 /\ back' = 0
        /\ lastCall'.op = "clear"
    BY <1>4 DEF Queue!Clear, Queue!Called
  <2>2. QueueInv' /\ QueueItems' = <<>>
    BY <2>1, QueueEmptied DEF QueueInv
  <2> QED
    BY <2>1, <2>2, QueueCalls
<1>5. ASSUME NEW x \in Values, Queue!Push(x)
      PROVE  QueueInv' /\ Queue!Fifo!Put
  BY <1>5, QueuePuts
<1>6. CASE Queue!Pop
  BY <1>6, QueueTakes
<1> QED
  BY <1>2, <1>3, <1>4, <1>5, <1>6 DEF Queue!Next

(* The invariant holds at the start.                                          *)
LEMMA QueueStarts ==
  ASSUME Queue!Init
  PROVE  QueueInv /\ QueueItems = <<>>
BY DEF Queue!Init, Queue!Array, QueueInv, QueueItems, Contents

-----------------------------------------------------------------------------
(* The option i.                                                              *)
Opt(i) == Cfg!Options[i]

(* What the proofs need of the three options.                                 *)
LEMMA OptionFacts ==
  /\ DOMAIN Cfg!Options = 1..3 /\ Len(Cfg!Options) = 3
  /\ \A i \in 1..3 : /\ Opt(i).default \in Int /\ Opt(i).scale \in Int
                     /\ Opt(i).name # "#" /\ Opt(i).name \in Cfg!Names
<1>1. DOMAIN Cfg!Options = 1..3 /\ Len(Cfg!Options) = 3
  BY DEF Cfg!Options
<1>2. /\ Opt(1) = [name |-> "time_zone", signed |-> TRUE, default |-> 8, scale |-> 1]
      /\ Opt(2) = [name |-> "heart_beat", signed |-> FALSE, default |-> 12, scale |-> Scale]
      /\ Opt(3) = [name |-> "wan_max_recv_size", signed |-> FALSE, default |-> 10, scale |-> 1]
  BY DEF Opt, Cfg!Options
<1>3. Scale \in Int
  BY PartsAssumption DEF Cfg!ConfigAssumption
<1>4. \A i \in 1..3 : Opt(i).name \in Cfg!Names
  BY <1>1 DEF Cfg!Names, Opt
<1>5. Opt(1).name # "#" /\ Opt(2).name # "#" /\ Opt(3).name # "#"
  BY <1>2
<1>6. /\ Opt(1).default \in Int /\ Opt(2).default \in Int /\ Opt(3).default \in Int
      /\ Opt(1).scale \in Int /\ Opt(2).scale \in Int /\ Opt(3).scale \in Int
  BY <1>2, <1>3
<1>7. \A i \in 1..3 : i = 1 \/ i = 2 \/ i = 3
  OBVIOUS
<1> QED
  BY <1>1, <1>4, <1>5, <1>6, <1>7

(* The lines before line n that give an option, as pairs.                     *)
Given(n) == {k \in 1..(n - 1) : file[k].name # "#"}

(* The pairs are those of the lines that were read, no two of them with one   *)
(* name.                                                                      *)
FileRead ==
  /\ \A k \in Given(line) : <<file[k].name, file[k].value>> \in pairs
  /\ \A p \in pairs : \E k \in Given(line) : p = <<file[k].name, file[k].value>>
  /\ \A j, k \in Given(line) : file[j].name = file[k].name => j = k

(* Each option that was set has what its line says, or its default.           *)
OptionsSet ==
  \A i \in 1..(option - 1) : \A v \in Cfg!Written(Opt(i)) :
    v * Opt(i).scale \in 0..(Modulus - 1) \/ Opt(i).signed => configs[i] = v * Opt(i).scale

(* The two, and what each phase says of the others.                           *)
ConfigInv ==
  /\ phase \in {"new", "reading", "setting", "ready", "failed"}
  /\ file \in Seq(Cfg!Lines) /\ mark = FALSE
  /\ line \in 1..(Len(file) + 1) /\ option \in 1..4
  /\ configs \in [1..3 -> Int]
  /\ phase \in {"new", "reading", "setting"} => changed = {}
  /\ phase = "new" => line = 1 /\ pairs = {}
  /\ phase \in {"new", "reading"} => option = 1
  /\ phase \in {"setting", "ready"} => line = Len(file) + 1
  /\ phase \in {"new", "reading", "setting"} => FileRead
  /\ phase = "ready" => /\ option = 4
                         /\ \A j, k \in Given(line) : file[j].name = file[k].name => j = k
  /\ phase \in {"setting", "ready"} /\ changed = {} => OptionsSet

(* It holds at the start.                                                     *)
LEMMA ConfigStarts ==
  ASSUME Cfg!Init
  PROVE  ConfigInv
<1>1. file \in Seq(Cfg!Lines)
  BY PartsAssumption DEF Cfg!Init, Cfg!Files, Cfg!ConfigAssumption
<1>2. configs \in [1..3 -> Int]
  BY OptionFacts DEF Cfg!Init, Cfg!Unset
<1>3. Given(1) = {}
  BY DEF Given
<1>4. /\ phase = "new" /\ mark = FALSE /\ line = 1 /\ pairs = {} /\ option = 1
      /\ changed = {}
  BY DEF Cfg!Init
<1>5. FileRead
  BY <1>3, <1>4 DEF FileRead
<1> QED
  BY <1>1, <1>2, <1>4, <1>5 DEF ConfigInv

(* The numbers are integers.                                                  *)
LEMMA LineFacts ==
  ASSUME ConfigInv, NEW k \in 1..Len(file)
  PROVE  file[k].value \in Int
<1>1. file[k] \in Cfg!Lines
  BY DEF ConfigInv
<1>2. \A n \in Plus \cup {-n : n \in Minus} : n \in Int
  BY PartsAssumption DEF Cfg!ConfigAssumption
<1> QED
  BY <1>1, <1>2 DEF Cfg!Lines

(* A line is read.                                                            *)
LEMMA LineRead ==
  ASSUME ConfigInv, Cfg!ReadLine
  PROVE  ConfigInv'
<1> USE DEF ConfigInv
<1>1. /\ phase = "reading" /\ line \in 1..Len(file) /\ mark = FALSE
      /\ UNCHANGED <<file, mark, option, configs, changed>>
  BY DEF Cfg!ReadLine, Cfg!fileVars
<1>2. CASE file[line].name = "#"
  <2>1. line' = line + 1 /\ pairs' = pairs /\ phase' = phase
    BY <1>2 DEF Cfg!ReadLine
  <2>2. Given(line)' = Given(line)
    BY <1>1, <1>2, <2>1 DEF Given
  <2>3. FileRead'
    BY <1>1, <2>1, <2>2 DEF FileRead
  <2> QED
    BY <1>1, <2>1, <2>3
<1>3. CASE file[line].name # "#"
  <2> DEFINE name == file[line].name
             value == file[line].value
  <2>1. Cfg!AddKeyPair(name, value)
    BY <1>1, <1>3 DEF Cfg!ReadLine, Cfg!NameOf
  <2>2. CASE \E p \in pairs : p[1] = name
    BY <1>1, <2>1, <2>2 DEF Cfg!AddKeyPair
  <2>3. CASE ~ \E p \in pairs : p[1] = name
    <3>1. pairs' = pairs \cup {<<name, value>>} /\ line' = line + 1 /\ phase' = phase
      BY <2>1, <2>3 DEF Cfg!AddKeyPair
    <3>2. Given(line)' = Given(line) \cup {line}
      BY <1>1, <1>3, <3>1 DEF Given
    <3>3. \A k \in Given(line) : <<file[k].name, file[k].value>> \in pairs
      BY <1>1 DEF FileRead
    <3>4. \A k \in Given(line) : file[k].name # name
      BY <2>3, <3>3
    <3>5. FileRead'
      BY <1>1, <3>1, <3>2, <3>3, <3>4 DEF FileRead
    <3> QED
      BY <1>1, <3>1, <3>5
  <2> QED
    BY <2>2, <2>3
<1> QED
  BY <1>2, <1>3

(* What an option is set to is what the file says of it.                      *)
LEMMA ValueFollows ==
  ASSUME ConfigInv, FileRead, line = Len(file) + 1, NEW i \in 1..3, NEW v \in Cfg!Written(Opt(i))
  PROVE  Cfg!ValueOrDefault(Opt(i)) = v /\ v \in Int
<1> DEFINE o == Opt(i)
<1>1. o.name # "#" /\ o.default \in Int
  BY OptionFacts
<1>2. DOMAIN file = 1..Len(file) /\ Given(line) = {k \in 1..Len(file) : file[k].name # "#"}
  BY DEF ConfigInv, Given
<1> HIDE DEF o
<1>3. CASE Cfg!LinesOf(o) = {}
  <2>1. ~ \E p \in pairs : p[1] = o.name
    BY <1>1, <1>2, <1>3 DEF FileRead, Cfg!LinesOf
  <2>2. v = o.default
    BY <1>3 DEF o, Cfg!Written
  <2> QED
    BY <1>1, <2>1, <2>2 DEF o, Cfg!ValueOrDefault
<1>4. CASE Cfg!LinesOf(o) # {}
  <2>1. PICK k \in Cfg!LinesOf(o) : v = file[k].value
    BY <1>4 DEF o, Cfg!Written
  <2>2. k \in Given(line) /\ file[k].name = o.name /\ k \in 1..Len(file)
    BY <1>1, <1>2, <2>1 DEF Cfg!LinesOf
  <2>3. <<o.name, v>> \in pairs
    BY <2>1, <2>2 DEF FileRead
  <2>4. ASSUME NEW p \in pairs, p[1] = o.name
        PROVE  p = <<o.name, v>>
    <3>1. PICK j \in Given(line) : p = <<file[j].name, file[j].value>>
      BY DEF FileRead
    <3>2. file[j].name = file[k].name
      BY <2>2, <2>4, <3>1
    <3>3. j = k
      BY <2>2, <3>2 DEF FileRead
    <3> QED
      BY <2>1, <2>2, <3>1, <3>3
  <2> DEFINE found == CHOOSE p \in pairs : p[1] = o.name
  <2>5. found = <<o.name, v>>
    BY <2>3, <2>4
  <2>6. v \in Int
    BY <2>1, <2>2, LineFacts
  <2>7. Cfg!ValueOrDefault(o) = v
    <3>1. \E p \in pairs : p[1] = o.name
      BY <2>3
    <3>2. Cfg!ValueOrDefault(o) = found[2]
      BY <3>1 DEF Cfg!ValueOrDefault
    <3> HIDE DEF found
    <3> QED
      BY <2>5, <3>2
  <2> QED
    BY <2>6, <2>7 DEF o
<1> QED
  BY <1>3, <1>4

(* Of the state, what the file says of an option depends on the file alone.   *)
LEMMA SameWritten ==
  ASSUME file' = file
  PROVE  \A i \in 1..3 : Cfg!Written(Opt(i))' = Cfg!Written(Opt(i)) /\ Opt(i)' = Opt(i)
BY DEF Cfg!Written, Cfg!LinesOf, Opt, Cfg!Options

(* As long as they and the file stay, the options that were set keep it.      *)
LEMMA SameOptions ==
  ASSUME UNCHANGED <<file, option, configs>>, option \in 1..4, OptionsSet
  PROVE  OptionsSet'
<1>1. \A i \in 1..(option - 1) : i \in 1..3
  OBVIOUS
<1> QED
  BY <1>1, SameWritten DEF OptionsSet

(* An option is set.                                                          *)
LEMMA OptionSet ==
  ASSUME ConfigInv, Cfg!SetOption
  PROVE  ConfigInv'
<1>1. /\ phase = "setting" /\ option \in 1..3 /\ option' = option + 1
      /\ configs' = [configs EXCEPT ![option] =
                       Cfg!Stored(Opt(option), Cfg!Scaled(Opt(option)))]
      /\ UNCHANGED <<phase, file, mark, line, pairs, changed>>
  BY OptionFacts DEF Cfg!SetOption, Cfg!fileVars, Opt
<1> DEFINE o == Opt(option)
<1>2. /\ FileRead /\ OptionsSet /\ line = Len(file) + 1 /\ configs \in [1..3 -> Int]
      /\ Modulus \in Nat \ {0}
  BY <1>1, PartsAssumption DEF ConfigInv, Cfg!ConfigAssumption
<1>3. FileRead'
  BY <1>1, <1>2 DEF FileRead, Given
<1>4. PICK v : v \in Cfg!Written(o)
  BY DEF Cfg!Written
<1>5. Cfg!ValueOrDefault(o) = v /\ v \in Int /\ o.scale \in Int
  BY <1>1, <1>2, <1>4, ValueFollows, OptionFacts
<1> DEFINE n == v * o.scale
<1>6. Cfg!Scaled(o) = n /\ n \in Int
  BY <1>5 DEF Cfg!Scaled
<1> HIDE DEF n
<1>7. Cfg!Stored(o, n) \in Int /\ (n \in 0..(Modulus - 1) \/ o.signed => Cfg!Stored(o, n) = n)
  BY <1>2, <1>5, <1>6 DEF Cfg!Stored
<1>8. \A w \in Cfg!Written(o) : w = v
  BY <1>1, <1>2, <1>4, <1>5, ValueFollows
<1>9. configs' \in [1..3 -> Int] /\ configs'[option] = Cfg!Stored(o, n)
      /\ \A i \in 1..3 : i # option => configs'[i] = configs[i]
  BY <1>1, <1>2, <1>6, <1>7
<1>10. \A i \in 1..3 : Cfg!Written(Opt(i))' = Cfg!Written(Opt(i)) /\ Opt(i)' = Opt(i)
  BY <1>1, SameWritten
<1>11. OptionsSet'
  <2> SUFFICES ASSUME NEW i \in 1..option, NEW w \in Cfg!Written(Opt(i)),
                      w * Opt(i).scale \in 0..(Modulus - 1) \/ Opt(i).signed
               PROVE  configs'[i] = w * Opt(i).scale
    BY <1>1, <1>10 DEF OptionsSet
  <2>1. CASE i = option
    BY <1>7, <1>8, <1>9, <2>1 DEF n
  <2>2. CASE i # option
    BY <1>1, <1>2, <1>9, <2>2 DEF OptionsSet
  <2> QED
    BY <2>1, <2>2
<1> QED
  BY <1>1, <1>3, <1>9, <1>11 DEF ConfigInv

(* Every step of the configuration keeps its invariant.                       *)
LEMMA ConfigStep ==
  ASSUME ConfigInv, [Cfg!Next]_(Cfg!vars)
  PROVE  ConfigInv'
<1> USE DEF ConfigInv
<1>1. CASE UNCHANGED Cfg!vars
  <2>1. UNCHANGED <<phase, file, mark, line, pairs, option, configs, changed>>
    BY <1>1 DEF Cfg!vars, Cfg!fileVars
  <2>2. OptionsSet => OptionsSet'
    BY <2>1, SameOptions
  <2>3. Given(line)' = Given(line) /\ (FileRead => FileRead')
    BY <2>1 DEF Given, FileRead
  <2> QED
    BY <2>1, <2>2, <2>3
<1>2. CASE Cfg!Open
  BY <1>2 DEF Cfg!Open, Cfg!fileVars, FileRead, Given
<1>3. CASE Cfg!EndOfFile
  <2>1. /\ phase = "reading" /\ line = Len(file) + 1 /\ phase' = "setting" /\ option = 1
        /\ UNCHANGED <<file, mark, line, pairs, option, configs, changed>>
    BY <1>3 DEF Cfg!EndOfFile, Cfg!fileVars
  <2>2. FileRead' /\ OptionsSet'
    BY <2>1 DEF FileRead, Given, OptionsSet
  <2> QED
    BY <2>1, <2>2
<1>4. CASE Cfg!EndOfInit
  <2>1. /\ phase = "setting" /\ option = 4 /\ phase' \in {"ready", "failed"}
        /\ UNCHANGED <<file, mark, line, option, configs, changed>>
    BY <1>4, OptionFacts DEF Cfg!EndOfInit, Cfg!fileVars
  <2>2. OptionsSet => OptionsSet'
    BY <2>1, SameOptions
  <2>3. Given(line)' = Given(line) /\ FileRead
    BY <2>1 DEF Given
  <2> QED
    BY <2>1, <2>2, <2>3 DEF FileRead
<1>5. CASE Cfg!Destroy
  <2>1. /\ phase' = "new" /\ pairs' = {} /\ line' = 1 /\ option' = 1 /\ changed' = {}
        /\ configs' = Cfg!Unset /\ UNCHANGED <<file, mark>>
    BY <1>5 DEF Cfg!Destroy, Cfg!fileVars
  <2>2. configs' \in [1..3 -> Int]
    BY <2>1, OptionFacts DEF Cfg!Unset
  <2>3. FileRead'
    BY <2>1 DEF FileRead, Given
  <2> QED
    BY <2>1, <2>2, <2>3
<1>6. ASSUME NEW i \in DOMAIN Cfg!Options, NEW n \in Plus \cup {-n : n \in Minus},
             Cfg!SetConfig(i, n)
      PROVE  ConfigInv'
  <2>1. /\ phase = "ready" /\ changed' # {} /\ i \in 1..3
        /\ configs' = [configs EXCEPT ![i] = Cfg!Stored(Opt(i), n)]
        /\ UNCHANGED <<phase, file, mark, line, pairs, option>>
    BY <1>6, OptionFacts DEF Cfg!SetConfig, Cfg!fileVars, Opt
  <2>2. n \in Int /\ Modulus \in Nat \ {0}
    BY PartsAssumption DEF Cfg!ConfigAssumption
  <2>3. configs' \in [1..3 -> Int]
    BY <2>1, <2>2 DEF Cfg!Stored
  <2>4. Given(line)' = Given(line)
    BY <2>1 DEF Given
  <2> QED
    BY <2>1, <2>3, <2>4
<1> QED
  BY <1>1, <1>2, <1>3, <1>4, <1>5, <1>6, LineRead, OptionSet DEF Cfg!Next

(* A running program is as its file says.                                     *)
LEMMA ConfigLoaded ==
  ASSUME ConfigInv
  PROVE  Cfg!LoadedAsWritten
<1> SUFFICES ASSUME phase = "ready", changed = {}, NEW i \in 1..3
             PROVE  /\ Cfg!Cardinality(Cfg!LinesOf(Opt(i))) <= 1
                    /\ \A v \in Cfg!Written(Opt(i)) :
                         v * Opt(i).scale \in 0..(Modulus - 1) \/ Opt(i).signed
                           => configs[i] = v * Opt(i).scale
  BY OptionFacts DEF Cfg!LoadedAsWritten, Opt
<1>1. OptionsSet /\ option = 4 /\ line = Len(file) + 1 /\ DOMAIN file = 1..Len(file)
  BY DEF ConfigInv
<1>2. \A S : Cfg!Cardinality(S) = Cardinality(S)
  BY DEF Cfg!Cardinality, Cardinality
<1>3. Cardinality(Cfg!LinesOf(Opt(i))) <= 1
  <2>1. \A j, k \in Cfg!LinesOf(Opt(i)) : j = k
    BY <1>1, OptionFacts DEF ConfigInv, Given, Cfg!LinesOf
  <2>2. CASE Cfg!LinesOf(Opt(i)) = {}
    BY <2>2, FS_EmptySet
  <2>3. CASE Cfg!LinesOf(Opt(i)) # {}
    <3>1. PICK k \in Cfg!LinesOf(Opt(i)) : TRUE
      BY <2>3
    <3>2. Cfg!LinesOf(Opt(i)) = {k}
      BY <2>1, <3>1
    <3> QED
      BY <3>2, FS_Singleton
  <2> QED
    BY <2>2, <2>3
<1> QED
  BY <1>1, <1>2, <1>3 DEF OptionsSet

-----------------------------------------------------------------------------
(* The memory pool. *)

(* As many as w says for each element of s.                                   *)
Units(w, s) == {u \in s \X Nat : u[2] \in 1..w[u[1]]}

(* They depend on w only where it is asked.                                   *)
LEMMA UnitsSame ==
  ASSUME NEW s, NEW w, NEW v, \A x \in s : w[x] = v[x]
  PROVE  Units(w, s) = Units(v, s)
BY DEF Units

(* One element more.                                                          *)
LEMMA UnitsGrow ==
  ASSUME NEW S, NEW w \in [S -> Nat], NEW s \in SUBSET S, NEW x \in S, x \notin s,
         IsFiniteSet(Units(w, s))
  PROVE  /\ IsFiniteSet(Units(w, s \cup {x}))
         /\ Cardinality(Units(w, s \cup {x})) = w[x] + Cardinality(Units(w, s))
<1> DEFINE A == Units(w, s)
           B == {x} \X (1..w[x])
<1>1. Units(w, s \cup {x}) = A \cup B
  BY DEF Units
<1>2. A \cap B = {}
  BY DEF Units
<1>3. w[x] \in Nat
  OBVIOUS
<1>4. IsFiniteSet(B) /\ Cardinality(B) = w[x]
  <2>1. IsFiniteSet(1..w[x]) /\ Cardinality(1..w[x]) = w[x]
    BY <1>3, FS_Interval
  <2>2. IsFiniteSet({x}) /\ Cardinality({x}) = 1
    BY FS_Singleton
  <2>3. IsFiniteSet(B) /\ Cardinality(B) = Cardinality({x}) * Cardinality(1..w[x])
    BY <2>1, <2>2, FS_Product
  <2> QED
    BY <1>3, <2>1, <2>2, <2>3
<1> HIDE DEF A, B
<1>5. /\ IsFiniteSet(A \cup B)
      /\ Cardinality(A \cup B) = Cardinality(A) + Cardinality(B) - Cardinality(A \cap B)
  BY <1>4, FS_Union DEF A
<1>6. Cardinality(A \cap B) = 0
  BY <1>2, FS_EmptySet
<1>7. Cardinality(A) \in Nat
  BY FS_CardinalityType DEF A
<1>8. Cardinality(A \cup B) = w[x] + Cardinality(A)
  BY <1>3, <1>4, <1>5, <1>6, <1>7
<1> QED
  BY <1>1, <1>5, <1>8 DEF A

(* f adds up w, one element after the other.                                  *)
AddsUp(f, w, S) ==
  f = [s \in SUBSET S |->
         IF s = {} THEN 0
         ELSE LET x == CHOOSE x \in s : TRUE IN w[x] + f[s \ {x}]]

(* What it gives for each set is the number of units.                         *)
LEMMA AddsUpIs ==
  ASSUME NEW S, IsFiniteSet(S), NEW w \in [S -> Nat], NEW f, AddsUp(f, w, S)
  PROVE  \A s \in SUBSET S :
           IsFiniteSet(Units(w, s)) /\ f[s] = Cardinality(Units(w, s))
<1> DEFINE T == {n \in Nat : \A s \in SUBSET S : Cardinality(s) = n =>
                   IsFiniteSet(Units(w, s)) /\ f[s] = Cardinality(Units(w, s))}
<1>1. \A s \in SUBSET S : IsFiniteSet(s) /\ Cardinality(s) \in Nat
  BY FS_Subset, FS_CardinalityType
<1>2. 0 \in T
  <2> SUFFICES ASSUME NEW s \in SUBSET S, Cardinality(s) = 0
               PROVE  IsFiniteSet(Units(w, s)) /\ f[s] = Cardinality(Units(w, s))
    OBVIOUS
  <2>1. s = {}
    BY <1>1, FS_EmptySet
  <2>2. Units(w, {}) = {}
    BY DEF Units
  <2>3. f[{}] = 0
    BY DEF AddsUp
  <2> QED
    BY <2>1, <2>2, <2>3, FS_EmptySet
<1>3. ASSUME NEW n \in T
      PROVE  n + 1 \in T
  <2>0. n + 1 \in Nat /\ n \in Nat
    OBVIOUS
  <2> SUFFICES ASSUME NEW s \in SUBSET S, Cardinality(s) = n + 1
               PROVE  IsFiniteSet(Units(w, s)) /\ f[s] = Cardinality(Units(w, s))
    BY <2>0
  <2> DEFINE x == CHOOSE x \in s : TRUE
             r == s \ {x}
  <2>1. s # {}
    <3>1. s = {} => Cardinality(s) = 0
      BY FS_EmptySet
    <3> QED
      BY <2>0, <3>1
  <2>2. x \in s /\ x \in S /\ r \in SUBSET S /\ s = r \cup {x} /\ x \notin r
    BY <2>1
  <2>3. f[s] = w[x] + f[r]
    BY <2>1 DEF AddsUp
  <2> HIDE DEF x, r
  <2>4. Cardinality(r) = n
    <3>1. Cardinality(r) = Cardinality(s) - 1
      BY <1>1, <2>2, FS_RemoveElement DEF r
    <3> QED
      BY <2>0, <3>1
  <2>5. IsFiniteSet(Units(w, r)) /\ f[r] = Cardinality(Units(w, r))
    BY <2>2, <2>4
  <2> HIDE DEF T
  <2> QED
    BY <2>2, <2>3, <2>5, UnitsGrow
<1> HIDE DEF T
<1>4. \A n \in Nat : n \in T
  BY <1>2, <1>3, Induct DEF T
<1> QED
  BY <1>1, <1>4 DEF T

(* They are finitely many.                                                    *)
LEMMA UnitsFinite ==
  ASSUME NEW S, IsFiniteSet(S), NEW w \in [S -> Nat]
  PROVE  \A s \in SUBSET S : IsFiniteSet(Units(w, s))
<1> DEFINE T == {n \in Nat : \A s \in SUBSET S : Cardinality(s) = n => IsFiniteSet(Units(w, s))}
<1>1. \A s \in SUBSET S : IsFiniteSet(s) /\ Cardinality(s) \in Nat
  BY FS_Subset, FS_CardinalityType
<1>2. 0 \in T
  <2> SUFFICES ASSUME NEW s \in SUBSET S, Cardinality(s) = 0
               PROVE  IsFiniteSet(Units(w, s))
    OBVIOUS
  <2>1. s = {}
    BY <1>1, FS_EmptySet
  <2>2. Units(w, {}) = {}
    BY DEF Units
  <2> QED
    BY <2>1, <2>2, FS_EmptySet
<1>3. ASSUME NEW n \in T
      PROVE  n + 1 \in T
  <2>0. n + 1 \in Nat /\ n \in Nat
    OBVIOUS
  <2> SUFFICES ASSUME NEW s \in SUBSET S, Cardinality(s) = n + 1
               PROVE  IsFiniteSet(Units(w, s))
    BY <2>0
  <2>1. s # {}
    BY <2>0, FS_EmptySet
  <2>2. PICK x \in s : TRUE
    BY <2>1
  <2> DEFINE r == s \ {x}
  <2>3. r \in SUBSET S /\ s = r \cup {x} /\ x \notin r /\ x \in S
    OBVIOUS
  <2>4. Cardinality(r) = n
    <3>1. Cardinality(r) = Cardinality(s) - 1
      BY <1>1, FS_RemoveElement
    <3> QED
      BY <2>0, <3>1
  <2> HIDE DEF r
  <2>5. IsFiniteSet(Units(w, r))
    BY <2>3, <2>4
  <2> HIDE DEF T
  <2> QED
    BY <2>3, <2>5, UnitsGrow
<1> HIDE DEF T
<1>4. \A n \in Nat : n \in T
  BY <1>2, <1>3, Induct DEF T
<1> QED
  BY <1>1, <1>4 DEF T

(* There is such a function.                                                  *)
LEMMA AddsUpExists ==
  ASSUME NEW S, IsFiniteSet(S), NEW w \in [S -> Nat]
  PROVE  \E f : AddsUp(f, w, S)
<1> DEFINE f == [s \in SUBSET S |-> Cardinality(Units(w, s))]
<1>0. \A s \in SUBSET S : IsFiniteSet(Units(w, s))
  BY UnitsFinite
<1>1. \A s \in SUBSET S :
        f[s] = IF s = {} THEN 0
               ELSE LET x == CHOOSE x \in s : TRUE IN w[x] + f[s \ {x}]
  <2> TAKE s \in SUBSET S
  <2>1. CASE s = {}
    <3>1. Units(w, {}) = {}
      BY DEF Units
    <3> QED
      BY <2>1, <3>1, FS_EmptySet
  <2>2. CASE s # {}
    <3> DEFINE x == CHOOSE x \in s : TRUE
               r == s \ {x}
    <3>1. x \in s /\ x \in S /\ r \in SUBSET S /\ s = r \cup {x} /\ x \notin r
      BY <2>2
    <3>2. f[s] = Cardinality(Units(w, s)) /\ f[r] = Cardinality(Units(w, r))
      BY <3>1
    <3>3. (f[s] = IF s = {} THEN 0
                  ELSE LET y == CHOOSE y \in s : TRUE IN w[y] + f[s \ {y}])
          <=> (f[s] = w[x] + f[r])
      BY <2>2
    <3> HIDE DEF x, r, f
    <3>4. Cardinality(Units(w, s)) = w[x] + Cardinality(Units(w, r))
      BY <1>0, <3>1, UnitsGrow
    <3> QED
      BY <3>2, <3>3, <3>4
  <2> QED
    BY <2>1, <2>2
<1>2. AddsUp(f, w, S)
  BY <1>1 DEF AddsUp
<1> QED
  BY <1>2

(* MapThenSumSet, without the choice in its recursion.                        *)
LEMMA SumIs ==
  ASSUME NEW S, IsFiniteSet(S), \A b \in S : Pool!Size(index[b]) \in Nat
  PROVE  LET SizeOf(b) == Pool!Size(index[b])
             w == [b \in S |-> Pool!Size(index[b])] IN
         /\ IsFiniteSet(Units(w, S))
         /\ Pool!MapThenSumSet(SizeOf, S) = Cardinality(Units(w, S))
<1> DEFINE SizeOf(b) == Pool!Size(index[b])
           w == [b \in S |-> Pool!Size(index[b])]
           Eq(f) == f = [s \in SUBSET S |->
                           IF s = {} THEN 0
                           ELSE LET x == CHOOSE x \in s : TRUE IN Pool!Size(index[x]) + f[s \ {x}]]
           g == CHOOSE f : Eq(f)
<1>1. w \in [S -> Nat] /\ \A b \in S : w[b] = Pool!Size(index[b])
  OBVIOUS
<1>2. Pool!MapThenSumSet(SizeOf, S) = g[S]
  BY DEF Pool!MapThenSumSet, Pool!MapThenFoldSet
<1> HIDE DEF w
<1>3. \A f : Eq(f) <=> AddsUp(f, w, S)
  <2> TAKE f
  <2>1. \A s \in SUBSET S : s # {} => (CHOOSE x \in s : TRUE) \in S
    OBVIOUS
  <2>2. \A s \in SUBSET S :
          (IF s = {} THEN 0 ELSE LET x == CHOOSE x \in s : TRUE IN Pool!Size(index[x]) + f[s \ {x}])
            = (IF s = {} THEN 0 ELSE LET x == CHOOSE x \in s : TRUE IN w[x] + f[s \ {x}])
    BY <1>1, <2>1
  <2> QED
    BY <2>2 DEF AddsUp
<1>4. AddsUp(g, w, S)
  <2> HIDE DEF Eq
  <2>1. \E f : Eq(f)
    <3>1. PICK f : AddsUp(f, w, S)
      BY <1>1, AddsUpExists
    <3> QED
      BY <1>3, <3>1
  <2>2. Eq(g)
    BY <2>1
  <2> QED
    BY <1>3, <2>2
<1> HIDE DEF g
<1>5. S \in SUBSET S
  OBVIOUS
<1>6. IsFiniteSet(Units(w, S)) /\ g[S] = Cardinality(Units(w, S))
  BY <1>1, <1>4, <1>5, AddsUpIs
<1> QED
  BY <1>2, <1>6 DEF w

(* q lists the n blocks of X from f to l: nx leads from each to the next, pv  *)
(* back.                                                                      *)
IsList(q, n, X, f, l, nx, pv) ==
  /\ n \in Nat /\ q \in [1..n -> X]
  /\ \A b \in X : \E k \in 1..n : q[k] = b
  /\ \A j, k \in 1..n : q[j] = q[k] => j = k
  /\ f = IF n = 0 THEN Null ELSE q[1]
  /\ l = IF n = 0 THEN Null ELSE q[n]
  /\ \A k \in 1..n : nx[q[k]] = IF k = n THEN Null ELSE q[k + 1]
  /\ \A k \in 1..n : pv[q[k]] = IF k = 1 THEN Null ELSE q[k - 1]

(* There is such a list.                                                      *)
Listed(X, f, l, nx, pv) == \E n, q : IsList(q, n, X, f, l, nx, pv)

(* A list is as it was if the blocks on it are.                               *)
LEMMA ListKept ==
  ASSUME NEW X, NEW f, NEW l, NEW nx, NEW pv, NEW mx, NEW mv, Listed(X, f, l, nx, pv),
         \A b \in X : mx[b] = nx[b] /\ mv[b] = pv[b]
  PROVE  Listed(X, f, l, mx, mv)
<1>1. PICK n, q : IsList(q, n, X, f, l, nx, pv)
  BY DEF Listed
<1>2. \A k \in 1..n : q[k] \in X
  BY <1>1 DEF IsList
<1>3. IsList(q, n, X, f, l, mx, mv)
  BY <1>1, <1>2 DEF IsList
<1> QED
  BY <1>3 DEF Listed

(* A block that is not on it comes to the front.                              *)
LEMMA ListPush ==
  ASSUME NEW B, NEW X \in SUBSET B, NEW b \in B, b \notin X, Null \notin B,
         NEW f, NEW l, NEW nx \in [B -> B \cup {Null}], NEW pv \in [B -> B \cup {Null}],
         Listed(X, f, l, nx, pv)
  PROVE  Listed(X \cup {b}, b, IF f = Null THEN b ELSE l,
                [nx EXCEPT ![b] = f],
                IF f = Null THEN [pv EXCEPT ![b] = Null]
                ELSE [pv EXCEPT ![b] = Null, ![f] = b])
<1>1. PICK n, q : IsList(q, n, X, f, l, nx, pv)
  BY DEF Listed
<1> DEFINE Y == X \cup {b}
           m == n + 1
           r == [k \in 1..m |-> IF k = 1 THEN b ELSE q[k - 1]]
           e == IF f = Null THEN b ELSE l
           mx == [nx EXCEPT ![b] = f]
           mv == IF f = Null THEN [pv EXCEPT ![b] = Null]
                 ELSE [pv EXCEPT ![b] = Null, ![f] = b]
<1>2. /\ n \in Nat /\ \A k \in 1..n : q[k] \in X /\ q[k] # b /\ q[k] # Null /\ q[k] \in B
      /\ \A c \in X : \E k \in 1..n : q[k] = c
      /\ \A j, k \in 1..n : q[j] = q[k] => j = k
      /\ f = (IF n = 0 THEN Null ELSE q[1]) /\ l = (IF n = 0 THEN Null ELSE q[n])
      /\ \A k \in 1..n : nx[q[k]] = IF k = n THEN Null ELSE q[k + 1]
      /\ \A k \in 1..n : pv[q[k]] = IF k = 1 THEN Null ELSE q[k - 1]
  BY <1>1 DEF IsList
<1>3. \A k \in 1..m : k # 1 => k - 1 \in 1..n
  BY <1>2
<1>4. m \in Nat /\ m # 0 /\ r[1] = b /\ \A k \in 1..n : k + 1 \in 1..m /\ r[k + 1] = q[k]
  BY <1>2
<1>5. r \in [1..m -> Y]
  BY <1>2, <1>3
<1>6. \A c \in Y : \E k \in 1..m : r[k] = c
  <2>1. r[1] = b /\ 1 \in 1..m
    BY <1>2
  <2>2. \A c \in X : \E k \in 1..n : r[k + 1] = c /\ k + 1 \in 1..m
    BY <1>2, <1>4
  <2> HIDE DEF r, m
  <2> QED
    BY <2>1, <2>2
<1>7. \A j, k \in 1..m : r[j] = r[k] => j = k
  <2> SUFFICES ASSUME NEW j \in 1..m, NEW k \in 1..m, r[j] = r[k] PROVE j = k
    OBVIOUS
  <2>1. CASE j = 1 /\ k = 1
    BY <2>1
  <2>2. CASE j = 1 /\ k # 1
    BY <1>2, <1>3, <2>2
  <2>3. CASE j # 1 /\ k = 1
    BY <1>2, <1>3, <2>3
  <2>4. CASE j # 1 /\ k # 1
    <3>1. j - 1 \in 1..n /\ k - 1 \in 1..n /\ q[j - 1] = q[k - 1]
      BY <1>3, <2>4
    <3>2. j - 1 = k - 1
      BY <1>2, <3>1
    <3> QED
      BY <3>2
  <2> QED
    BY <2>1, <2>2, <2>3, <2>4
<1>8. e = r[m]
  <2>1. CASE n = 0
    BY <1>2, <2>1
  <2>2. CASE n # 0
    <3>1. f # Null /\ r[n + 1] = q[n]
      BY <1>2, <1>4, <2>2
    <3> QED
      BY <1>2, <2>2, <3>1
  <2> QED
    BY <2>1, <2>2
<1>9. f \in B \cup {Null} /\ f # b
  BY <1>2
<1>10. /\ mx[b] = f /\ \A c \in B : c # b => mx[c] = nx[c]
  BY <1>9
<1>11. /\ mv[b] = Null /\ (f # Null => mv[f] = b)
       /\ \A c \in B : c # b /\ c # f => mv[c] = pv[c]
  BY <1>9
<1> HIDE DEF e, mx, mv
<1>12. \A k \in 1..m : mx[r[k]] = IF k = m THEN Null ELSE r[k + 1]
  <2> TAKE k \in 1..m
  <2>1. CASE k = 1
    <3>1. n # 0 => r[1 + 1] = q[1]
      BY <1>2, <1>4
    <3> QED
      BY <1>2, <1>4, <1>10, <2>1, <3>1
  <2>2. CASE k # 1
    <3> DEFINE j == k - 1
    <3>1. j \in 1..n /\ k = j + 1 /\ r[k] = q[j] /\ (k = m <=> j = n)
      BY <1>2, <1>3, <2>2
    <3> HIDE DEF j
    <3>2. mx[r[k]] = nx[q[j]]
      BY <1>2, <1>10, <3>1
    <3>3. j # n => j + 1 \in 1..n /\ r[k + 1] = q[j + 1]
      BY <1>2, <1>4, <3>1
    <3> QED
      BY <1>2, <3>1, <3>2, <3>3
  <2> QED
    BY <2>1, <2>2
<1>13. \A k \in 1..m : mv[r[k]] = IF k = 1 THEN Null ELSE r[k - 1]
  <2> TAKE k \in 1..m
  <2>1. CASE k = 1
    BY <1>11, <2>1
  <2>2. CASE k # 1
    <3> DEFINE j == k - 1
    <3>1. j \in 1..n /\ k = j + 1 /\ r[k] = q[j]
      BY <1>3, <2>2
    <3> HIDE DEF j
    <3>2. CASE j = 1
      BY <1>2, <1>4, <1>11, <3>1, <3>2
    <3>3. CASE j # 1
      <4>1. 1 \in 1..n /\ f = q[1] /\ q[j] # f
        BY <1>2, <3>1, <3>3
      <4>2. mv[r[k]] = q[j - 1]
        BY <1>2, <1>11, <3>1, <3>3, <4>1
      <4>3. j - 1 \in 1..n /\ (j - 1) + 1 = j /\ k - 1 = j
        BY <1>2, <3>1, <3>3
      <4>4. r[j] = q[j - 1]
        BY <1>4, <4>3
      <4> QED
        BY <2>2, <4>2, <4>3, <4>4
    <3> QED
      BY <3>2, <3>3
  <2> QED
    BY <2>1, <2>2
<1> HIDE DEF r
<1>14. IsList(r, m, Y, b, e, mx, mv)
  BY <1>4, <1>5, <1>6, <1>7, <1>8, <1>12, <1>13 DEF IsList
<1> QED
  BY <1>14 DEF Listed, Y, e, mx, mv

(* The numbers but for h.                                                     *)
Skip(h, k) == IF k < h THEN k ELSE k + 1

(* m numbers become those up to n but for h.                                  *)
SkipsOne(h, n, m) ==
  /\ \A k \in 1..m : Skip(h, k) \in 1..n /\ Skip(h, k) # h
  /\ \A j, k \in 1..m : Skip(h, j) = Skip(h, k) => j = k
  /\ \A i \in 1..n : i # h => \E k \in 1..m : Skip(h, k) = i

(* That is so for n = m + 1.                                                  *)
LEMMA Skipping ==
  ASSUME NEW n \in Nat, NEW h \in 1..n, NEW m \in Nat, n = m + 1
  PROVE  SkipsOne(h, n, m)
<1>1. h \in Nat
  OBVIOUS
<1>2. \A k \in 1..m : Skip(h, k) \in 1..n /\ Skip(h, k) # h
  BY <1>1 DEF Skip
<1>3. \A j, k \in 1..m : Skip(h, j) = Skip(h, k) => j = k
  BY <1>1 DEF Skip
<1>4. ASSUME NEW i \in 1..n, i # h PROVE \E k \in 1..m : Skip(h, k) = i
  <2>1. CASE i < h
    <3>1. i \in 1..m /\ Skip(h, i) = i
      BY <1>1, <2>1 DEF Skip
    <3> QED
      BY <3>1
  <2>2. CASE ~(i < h)
    <3>1. i - 1 \in 1..m /\ Skip(h, i - 1) = i
      BY <1>1, <1>4, <2>2 DEF Skip
    <3> QED
      BY <3>1
  <2> QED
    BY <2>1, <2>2
<1> QED
  BY <1>2, <1>3, <1>4 DEF SkipsOne

(* A block of the list is taken out.                                          *)
Unlinked(X, b, f, l, nx, pv) ==
  Listed(X \ {b}, IF f = b THEN nx[b] ELSE f, IF l = b THEN pv[b] ELSE l,
         IF pv[b] # Null THEN [nx EXCEPT ![pv[b]] = nx[b]] ELSE nx,
         IF nx[b] # Null THEN [pv EXCEPT ![nx[b]] = pv[b]] ELSE pv)

(* The list without the block is one again.                                   *)
LEMMA ListUnlink ==
  ASSUME NEW B, NEW X \in SUBSET B, NEW b \in X, Null \notin B,
         NEW f, NEW l, NEW nx \in [B -> B \cup {Null}], NEW pv \in [B -> B \cup {Null}],
         Listed(X, f, l, nx, pv)
  PROVE  Unlinked(X, b, f, l, nx, pv)
<1>1. PICK n, q : IsList(q, n, X, f, l, nx, pv)
  BY DEF Listed
<1>2. /\ n \in Nat /\ \A k \in 1..n : q[k] \in X /\ q[k] # Null /\ q[k] \in B
      /\ \A c \in X : \E k \in 1..n : q[k] = c
      /\ \A j, k \in 1..n : q[j] = q[k] => j = k
      /\ f = (IF n = 0 THEN Null ELSE q[1]) /\ l = (IF n = 0 THEN Null ELSE q[n])
      /\ \A k \in 1..n : nx[q[k]] = IF k = n THEN Null ELSE q[k + 1]
      /\ \A k \in 1..n : pv[q[k]] = IF k = 1 THEN Null ELSE q[k - 1]
  BY <1>1 DEF IsList
<1>3. PICK h \in 1..n : q[h] = b
  BY <1>2
<1> DEFINE Y == X \ {b}
           m == n - 1
           p == pv[b]
           s == nx[b]
           At(k) == Skip(h, k)
           r == [k \in 1..m |-> q[At(k)]]
           d == IF f = b THEN s ELSE f
           e == IF l = b THEN p ELSE l
           mx == IF p # Null THEN [nx EXCEPT ![p] = s] ELSE nx
           mv == IF s # Null THEN [pv EXCEPT ![s] = p] ELSE pv
<1>4. /\ m \in Nat /\ n \in Nat /\ h \in 1..n /\ h \in Nat /\ n = m + 1
      /\ \A k \in 1..m : At(k) \in 1..n /\ At(k) # h /\ r[k] = q[At(k)]
      /\ \A j, k \in 1..m : At(j) = At(k) => j = k
      /\ \A i \in 1..n : i # h => \E k \in 1..m : At(k) = i
  <2>1. \A k \in 1..m : r[k] = q[At(k)]
    OBVIOUS
  <2> HIDE DEF At, r
  <2>2. m \in Nat /\ n \in Nat /\ h \in 1..n /\ h \in Nat /\ n = m + 1
    BY <1>2, <1>3
  <2> HIDE DEF m
  <2>3. SkipsOne(h, n, m)
    BY <2>2, Skipping
  <2> QED
    BY <2>1, <2>2, <2>3 DEF At, SkipsOne
<1> HIDE DEF m
<1>0. m \in Nat /\ n \in Nat /\ h \in 1..n /\ h \in Nat /\ n = m + 1
  BY <1>4
<1>5. r \in [1..m -> Y]
  <2>1. \A k \in 1..m : q[At(k)] \in X /\ q[At(k)] # b
    BY <1>2, <1>3, <1>4
  <2> QED
    BY <2>1
<1>6. \A c \in Y : \E k \in 1..m : r[k] = c
  <2> TAKE c \in Y
  <2>1. PICK i \in 1..n : q[i] = c
    BY <1>2
  <2>2. i # h
    BY <1>3, <2>1
  <2>3. PICK k \in 1..m : At(k) = i
    BY <1>4, <2>2
  <2> QED
    BY <1>4, <2>1, <2>3
<1> HIDE DEF r, At
<1>7. \A j, k \in 1..m : r[j] = r[k] => j = k
  BY <1>2, <1>4
<1>8. /\ s = (IF h = n THEN Null ELSE q[h + 1]) /\ p = (IF h = 1 THEN Null ELSE q[h - 1])
  BY <1>2, <1>3
<1>9. /\ \A k \in 1..m : k < h => r[k] = q[k]
      /\ \A k \in 1..m : ~(k < h) => r[k] = q[k + 1]
  BY <1>4 DEF At, Skip
<1>10. d = IF m = 0 THEN Null ELSE r[1]
  <2>1. CASE h = 1
    <3>1. f = b /\ d = s
      BY <1>2, <1>3, <2>1
    <3>2. CASE n = 1
      BY <1>0, <1>8, <2>1, <3>1, <3>2
    <3>3. CASE n # 1
      <4>1. 1 \in 1..m /\ r[1] = q[1 + 1]
        BY <1>2, <1>0, <1>9, <2>1, <3>3
      <4> QED
        BY <1>0, <1>8, <2>1, <3>1, <3>3, <4>1
    <3> QED
      BY <3>2, <3>3
  <2>2. CASE h # 1
    <3>1. 1 \in 1..n /\ n # 0 /\ 1 \in 1..m /\ 1 < h /\ m # 0
      BY <1>0, <2>2
    <3>2. f = q[1] /\ f # b
      BY <1>2, <1>3, <2>2, <3>1
    <3> QED
      BY <1>9, <3>1, <3>2
  <2> QED
    BY <2>1, <2>2
<1>11. e = IF m = 0 THEN Null ELSE r[m]
  <2>1. CASE h = n
    <3>1. l = b /\ e = p
      BY <1>2, <1>3, <2>1
    <3>2. m # 0 => m \in 1..m /\ m < h /\ h - 1 = m /\ h # 1
      BY <1>0, <2>1
    <3>3. m = 0 => h = 1
      BY <1>0, <2>1
    <3> QED
      BY <1>8, <1>9, <3>1, <3>2, <3>3
  <2>2. CASE h # n
    <3>1. n \in 1..n /\ n # 0 /\ m \in 1..m /\ ~(m < h) /\ m # 0 /\ m + 1 = n
      BY <1>0, <2>2
    <3>2. l = q[n] /\ l # b
      BY <1>2, <1>3, <2>2, <3>1
    <3> QED
      BY <1>9, <3>1, <3>2
  <2> QED
    BY <2>1, <2>2
<1>12. /\ p # Null => p \in B /\ mx[p] = s
       /\ \A c \in B : c # p => mx[c] = nx[c]
  BY <1>2, <1>3
<1>13. /\ s # Null => s \in B /\ mv[s] = p
       /\ \A c \in B : c # s => mv[c] = pv[c]
  BY <1>2, <1>3
<1> HIDE DEF d, e, mx, mv, p, s
<1>14. \A k \in 1..m : mx[r[k]] = IF k = m THEN Null ELSE r[k + 1]
  <2> TAKE k \in 1..m
  <2>1. CASE k < h
    <3>1. k \in 1..n /\ r[k] = q[k]
      BY <1>0, <1>9, <2>1
    <3>2. CASE k = h - 1
      <4>1. h # 1 /\ p = q[k] /\ p # Null
        BY <1>2, <1>0, <1>8, <3>1, <3>2
      <4>2. mx[r[k]] = s
        BY <1>12, <3>1, <4>1
      <4>3. CASE k = m
        <5>1. h = n
          BY <1>0, <3>2, <4>3
        <5> QED
          BY <1>8, <4>2, <4>3, <5>1
      <4>4. CASE k # m
        <5>1. h # n /\ k + 1 \in 1..m /\ ~(k + 1 < h) /\ (k + 1) + 1 = h + 1
          BY <1>0, <3>2, <4>4
        <5> QED
          BY <1>8, <1>9, <4>2, <4>4, <5>1
      <4> QED
        BY <4>3, <4>4
    <3>3. CASE k # h - 1
      <4>1. q[k] # p
        <5>1. h # 1 => h - 1 \in 1..n
          BY <1>0
        <5> QED
          BY <1>2, <1>8, <3>1, <3>3, <5>1
      <4>2. k # m /\ k # n /\ k + 1 \in 1..m /\ k + 1 < h
        BY <1>0, <2>1, <3>3
      <4>3. mx[r[k]] = nx[q[k]]
        BY <1>2, <1>12, <3>1, <4>1
      <4> QED
        BY <1>2, <1>9, <3>1, <4>2, <4>3
    <3> QED
      BY <3>2, <3>3
  <2>2. CASE ~(k < h)
    <3>1. k + 1 \in 1..n /\ r[k] = q[k + 1]
      BY <1>0, <1>9, <2>2
    <3>2. q[k + 1] # p
      <4>1. h # 1 => h - 1 \in 1..n /\ h - 1 # k + 1
        BY <1>0, <2>2
      <4> QED
        BY <1>2, <1>8, <3>1, <4>1
    <3>3. mx[r[k]] = nx[q[k + 1]]
      BY <1>2, <1>12, <3>1, <3>2
    <3>4. CASE k = m
      <4>1. k + 1 = n
        BY <1>0, <3>4
      <4> QED
        BY <1>2, <3>1, <3>3, <3>4, <4>1
    <3>5. CASE k # m
      <4>1. k + 1 # n /\ k + 1 \in 1..m /\ ~(k + 1 < h)
        BY <1>0, <2>2, <3>5
      <4> QED
        BY <1>2, <1>9, <3>1, <3>3, <3>5, <4>1
    <3> QED
      BY <3>4, <3>5
  <2> QED
    BY <2>1, <2>2
<1>15. \A k \in 1..m : mv[r[k]] = IF k = 1 THEN Null ELSE r[k - 1]
  <2> TAKE k \in 1..m
  <2>1. CASE ~(k < h)
    <3>1. k + 1 \in 1..n /\ r[k] = q[k + 1]
      BY <1>0, <1>9, <2>1
    <3>2. CASE k = h
      <4>1. h # n /\ s = q[k + 1] /\ s # Null
        BY <1>2, <1>0, <1>8, <3>1, <3>2
      <4>2. mv[r[k]] = p
        BY <1>13, <3>1, <4>1
      <4>3. k # 1 => k - 1 \in 1..m /\ k - 1 < h
        BY <1>0, <3>2
      <4> QED
        BY <1>8, <1>9, <3>2, <4>2, <4>3
    <3>3. CASE k # h
      <4>1. q[k + 1] # s
        <5>1. h # n => h + 1 \in 1..n /\ h + 1 # k + 1
          BY <1>0, <3>3
        <5> QED
          BY <1>2, <1>8, <3>1, <5>1
      <4>2. /\ k # 1 /\ k - 1 \in 1..m /\ ~(k - 1 < h)
            /\ (k - 1) + 1 = k /\ (k + 1) - 1 = k /\ k + 1 # 1
        BY <1>0, <2>1, <3>3
      <4>3. mv[r[k]] = pv[q[k + 1]]
        BY <1>2, <1>13, <3>1, <4>1
      <4>4. pv[q[k + 1]] = q[(k + 1) - 1]
        BY <1>2, <3>1, <4>2
      <4> QED
        BY <1>9, <4>2, <4>3, <4>4
    <3> QED
      BY <3>2, <3>3
  <2>2. CASE k < h
    <3>1. k \in 1..n /\ r[k] = q[k]
      BY <1>0, <1>9, <2>2
    <3>2. q[k] # s
      <4>1. h # n => h + 1 \in 1..n /\ h + 1 # k
        BY <1>0, <2>2
      <4> QED
        BY <1>2, <1>8, <3>1, <4>1
    <3>3. mv[r[k]] = pv[q[k]]
      BY <1>2, <1>13, <3>1, <3>2
    <3>4. k # 1 => k - 1 \in 1..m /\ k - 1 < h
      BY <1>0, <2>2
    <3> QED
      BY <1>2, <1>9, <3>1, <3>3, <3>4
  <2> QED
    BY <2>1, <2>2
<1>16. IsList(r, m, Y, d, e, mx, mv)
  BY <1>4, <1>5, <1>6, <1>7, <1>10, <1>11, <1>14, <1>15 DEF IsList
<1>17. Listed(Y, d, e, mx, mv)
  BY <1>16 DEF Listed
<1> QED
  BY <1>17 DEF d, e, mx, mv, p, s, Unlinked

(* What stands at the ends of a list, and next to a block.                    *)
LEMMA ListEnds ==
  ASSUME NEW X, Null \notin X, NEW f, NEW l, NEW nx, NEW pv, Listed(X, f, l, nx, pv)
  PROVE  /\ f = Null <=> X = {}
         /\ l = Null <=> X = {}
         /\ f \in X \cup {Null} /\ l \in X \cup {Null}
         /\ \A b \in X : /\ nx[b] \in (X \ {b}) \cup {Null}
                         /\ pv[b] \in (X \ {b}) \cup {Null}
                         /\ nx[b] = Null <=> b = l
                         /\ pv[b] = Null <=> b = f
                         /\ nx[b] # Null => pv[nx[b]] = b
<1>1. PICK n, q : IsList(q, n, X, f, l, nx, pv)
  BY DEF Listed
<1>2. /\ n \in Nat /\ \A k \in 1..n : q[k] \in X /\ q[k] # Null
      /\ \A c \in X : \E k \in 1..n : q[k] = c
      /\ \A j, k \in 1..n : q[j] = q[k] => j = k
      /\ f = (IF n = 0 THEN Null ELSE q[1]) /\ l = (IF n = 0 THEN Null ELSE q[n])
      /\ \A k \in 1..n : nx[q[k]] = IF k = n THEN Null ELSE q[k + 1]
      /\ \A k \in 1..n : pv[q[k]] = IF k = 1 THEN Null ELSE q[k - 1]
  BY <1>1 DEF IsList
<1>3. n # 0 => 1 \in 1..n /\ n \in 1..n
  BY <1>2
<1>4. X = {} <=> n = 0
  BY <1>2, <1>3
<1>5. ASSUME NEW b \in X
      PROVE  /\ nx[b] \in (X \ {b}) \cup {Null}
             /\ pv[b] \in (X \ {b}) \cup {Null}
             /\ nx[b] = Null <=> b = l
             /\ pv[b] = Null <=> b = f
             /\ nx[b] # Null => pv[nx[b]] = b
  <2>1. PICK k \in 1..n : q[k] = b
    BY <1>2
  <2>2. n # 0 /\ k \in Nat /\ k \in 1..n
    BY <1>2
  <2>3. k # n => k + 1 \in 1..n /\ k + 1 # k /\ k + 1 # 1 /\ (k + 1) - 1 = k
    BY <1>2, <2>2
  <2>4. k # 1 => k - 1 \in 1..n /\ k - 1 # k
    BY <1>2, <2>2
  <2>5. nx[b] = (IF k = n THEN Null ELSE q[k + 1]) /\ pv[b] = (IF k = 1 THEN Null ELSE q[k - 1])
    BY <1>2, <2>1
  <2>6. nx[b] \in (X \ {b}) \cup {Null} /\ (nx[b] = Null <=> k = n)
    BY <1>2, <2>1, <2>2, <2>3, <2>5
  <2>7. pv[b] \in (X \ {b}) \cup {Null} /\ (pv[b] = Null <=> k = 1)
    BY <1>2, <2>1, <2>2, <2>4, <2>5
  <2>8. (b = l <=> k = n) /\ (b = f <=> k = 1)
    BY <1>2, <1>3, <2>1, <2>2
  <2>9. nx[b] # Null => pv[nx[b]] = b
    <3> SUFFICES ASSUME nx[b] # Null PROVE pv[nx[b]] = b
      OBVIOUS
    <3>1. k + 1 \in 1..n /\ nx[b] = q[k + 1] /\ k + 1 # 1 /\ (k + 1) - 1 = k
      BY <2>3, <2>5
    <3>2. pv[q[k + 1]] = q[(k + 1) - 1]
      BY <1>2, <3>1
    <3> QED
      BY <2>1, <3>1, <3>2
  <2> QED
    BY <2>6, <2>7, <2>8, <2>9
<1>6. f \in X \cup {Null} /\ l \in X \cup {Null} /\ (f = Null <=> X = {}) /\ (l = Null <=> X = {})
  BY <1>2, <1>3, <1>4
<1> QED
  BY <1>5, <1>6

(* The number of its blocks, and where the n steps from its head lead.        *)
StepsOf(f, nx, C, node) ==
  node = [n \in 0..C |->
            IF n = 0 THEN f
            ELSE IF node[n - 1] = Null THEN Null ELSE nx[node[n - 1]]]

(* These meet every block of the list and then nothing.                       *)
LEMMA ListWalk ==
  ASSUME NEW X, Null \notin X, IsFiniteSet(X), NEW f, NEW l, NEW nx, NEW pv,
         Listed(X, f, l, nx, pv), NEW C \in Nat, Cardinality(X) <= C
  PROVE  /\ \E node : StepsOf(f, nx, C, node)
         /\ \A node : StepsOf(f, nx, C, node) =>
              /\ {node[n] : n \in 0..C} \ {Null} = X
              /\ node[Cardinality(X)] = Null
<1>1. PICK n, q : IsList(q, n, X, f, l, nx, pv)
  BY DEF Listed
<1>2. /\ n \in Nat /\ \A k \in 1..n : q[k] \in X /\ q[k] # Null
      /\ q \in [1..n -> X]
      /\ \A c \in X : \E k \in 1..n : q[k] = c
      /\ \A j, k \in 1..n : q[j] = q[k] => j = k
      /\ f = (IF n = 0 THEN Null ELSE q[1])
      /\ \A k \in 1..n : nx[q[k]] = IF k = n THEN Null ELSE q[k + 1]
  BY <1>1 DEF IsList
<1>3. Cardinality(X) = n
  <2>1. q \in Bijection(1..n, X)
    BY <1>2 DEF Bijection, Injection, Surjection, IsInjective
  <2>2. ExistsBijection(1..n, X)
    BY <2>1 DEF ExistsBijection
  <2> QED
    BY <1>2, <2>2, FS_CountingElements
<1> DEFINE At(k) == IF k < n THEN q[k + 1] ELSE Null
<1>4. /\ At(0) = f
      /\ \A k \in 1..C : At(k) = IF At(k - 1) = Null THEN Null ELSE nx[At(k - 1)]
  <2>1. At(0) = f
    BY <1>2
  <2>2. ASSUME NEW k \in 1..C PROVE At(k) = IF At(k - 1) = Null THEN Null ELSE nx[At(k - 1)]
    <3>1. CASE k - 1 < n
      <4>1. k \in 1..n /\ (k - 1) + 1 = k /\ (k < n <=> k # n)
        BY <1>2, <3>1
      <4>2. At(k - 1) = q[k] /\ q[k] # Null
        BY <1>2, <3>1, <4>1
      <4>3. nx[q[k]] = IF k = n THEN Null ELSE q[k + 1]
        BY <1>2, <4>1
      <4> QED
        BY <4>1, <4>2, <4>3
    <3>2. CASE ~(k - 1 < n)
      <4>1. ~(k < n)
        BY <1>2, <3>2
      <4> QED
        BY <3>2, <4>1
    <3> QED
      BY <3>1, <3>2
  <2> QED
    BY <2>1, <2>2
<1> HIDE DEF At
<1>5. \E node : StepsOf(f, nx, C, node)
  <2> DEFINE node == [k \in 0..C |-> At(k)]
  <2>1. \A k \in 0..C : k # 0 => k \in 1..C /\ k - 1 \in 0..C
    OBVIOUS
  <2>2. \A k \in 0..C : node[k] = IF k = 0 THEN f
                         ELSE IF node[k - 1] = Null THEN Null ELSE nx[node[k - 1]]
    BY <1>4, <2>1
  <2>3. StepsOf(f, nx, C, node)
    BY <2>2 DEF StepsOf
  <2> QED
    BY <2>3
<1>6. ASSUME NEW node, StepsOf(f, nx, C, node)
      PROVE  /\ {node[k] : k \in 0..C} \ {Null} = X
             /\ node[n] = Null
  <2> DEFINE T == {k \in Nat : k <= C => node[k] = At(k)}
  <2>0. \A k \in 0..C : node[k] = IF k = 0 THEN f
                         ELSE IF node[k - 1] = Null THEN Null ELSE nx[node[k - 1]]
    BY <1>6 DEF StepsOf
  <2>1. 0 \in T
    BY <1>4, <2>0
  <2>2. ASSUME NEW k \in T PROVE k + 1 \in T
    <3> SUFFICES ASSUME k + 1 <= C PROVE node[k + 1] = At(k + 1)
      OBVIOUS
    <3>1. k \in Nat /\ k <= C /\ k + 1 \in 1..C /\ k + 1 \in 0..C /\ k + 1 # 0 /\ (k + 1) - 1 = k
      OBVIOUS
    <3>2. node[k] = At(k)
      BY <3>1
    <3>3. node[k + 1] = IF node[k] = Null THEN Null ELSE nx[node[k]]
      BY <2>0, <3>1
    <3>4. At(k + 1) = IF At(k) = Null THEN Null ELSE nx[At(k)]
      BY <1>4, <3>1
    <3> QED
      BY <3>2, <3>3, <3>4
  <2> HIDE DEF T
  <2>3. \A k \in Nat : k \in T
    BY <2>1, <2>2, Induct DEF T
  <2>4. \A k \in 0..C : node[k] = At(k)
    BY <2>3 DEF T
  <2>5. \A k \in 0..C : At(k) = Null \/ At(k) \in X
    BY <1>2 DEF At
  <2>6. \A c \in X : \E k \in 0..C : At(k) = c
    <3> TAKE c \in X
    <3>1. PICK k \in 1..n : q[k] = c
      BY <1>2
    <3>2. k - 1 \in 0..C /\ (k - 1) + 1 = k /\ k - 1 < n
      BY <1>2, <1>3
    <3> QED
      BY <3>1, <3>2 DEF At
  <2>7. n \in 0..C /\ At(n) = Null
    BY <1>2, <1>3 DEF At
  <2>8. {node[k] : k \in 0..C} \ {Null} = X
    BY <2>4, <2>5, <2>6
  <2> QED
    BY <2>4, <2>7, <2>8
<1> QED
  BY <1>3, <1>5, <1>6

(* The free blocks, and the size of each block.                               *)
Kept == {b \in Blocks : place[b] = "pool"}
Sizes == [b \in Blocks |-> IF index[b] = Pool!Large THEN 0 ELSE Pool!Size(index[b])]

(* The lists are whole; the counter is right; a thread that found a block     *)
(* looks in a class; a collection works for a block that is neither free nor  *)
(* the caller's any more, and stands at a free block of its class.            *)
Lists == \A i \in Pool!Index : Listed(Pool!Pooled(i), firsts[i], lasts[i], next, prev)
Counted ==
  /\ current = Cardinality(Units(Sizes, Kept)) /\ current <= PoolSize
  /\ \A b \in Kept : index[b] # Pool!Large
Asking == \A t \in Threads : asks[t].at = "pool" => asks[t].class \in Pool!Index
Collecting ==
  lock # Null =>
    /\ gc.block \in Blocks /\ place[gc.block] = "freeing" /\ index[gc.block] # Pool!Large
    /\ gc.node \in Pool!Pooled(gc.class) \cup {Null}

PoolInv == Pool!TypeOK /\ Lists /\ Counted /\ Asking /\ Collecting

(* The operators of the library are the same in the instance.                 *)
LEMMA PoolSets ==
  /\ \A S : Pool!IsFiniteSet(S) <=> IsFiniteSet(S)
  /\ \A S : Pool!Cardinality(S) = Cardinality(S)
BY DEF Pool!IsFiniteSet, IsFiniteSet, Pool!Cardinality, Cardinality

(* What MemPoolAssumption says of the constants.                              *)
LEMMA PoolConstants ==
  ASSUME Pool!MemPoolAssumption
  PROVE  /\ IsFiniteSet(Blocks) /\ Null \notin Blocks /\ Null \notin Threads
         /\ PoolClasses \in Nat \ {0} /\ PoolSize \in Nat /\ PoolUse \in Nat
         /\ \A i \in Pool!Index : Pool!Size(i) \in Nat
BY PoolSets DEF Pool!MemPoolAssumption

(* A block that comes to the pool adds its size.                              *)
LEMMA CountIn ==
  ASSUME Pool!MemPoolAssumption, Pool!TypeOK, NEW s \in SUBSET Blocks, NEW b \in Blocks, b \notin s,
         index[b] # Pool!Large
  PROVE  Cardinality(Units(Sizes, s \cup {b})) = Pool!Size(index[b]) + Cardinality(Units(Sizes, s))
<1>1. index[b] \in Pool!Index /\ Pool!Size(index[b]) \in Nat
  BY DEF Pool!MemPoolAssumption, Pool!TypeOK
<1>2. Sizes \in [Blocks -> Nat] /\ Sizes[b] = Pool!Size(index[b])
  BY DEF Pool!MemPoolAssumption, Pool!TypeOK, Sizes
<1>3. IsFiniteSet(Units(Sizes, s))
  BY <1>2, UnitsFinite, PoolConstants
<1> QED
  BY <1>2, <1>3, UnitsGrow

(* The sum of the sizes is a number.                                          *)
LEMMA CountType ==
  ASSUME Pool!MemPoolAssumption, Pool!TypeOK, NEW s \in SUBSET Blocks
  PROVE  Cardinality(Units(Sizes, s)) \in Nat
<1>2. Sizes \in [Blocks -> Nat]
  BY DEF Pool!MemPoolAssumption, Pool!TypeOK, Sizes
<1>3. IsFiniteSet(Units(Sizes, s))
  BY <1>2, UnitsFinite, PoolConstants
<1> QED
  BY <1>3, FS_CardinalityType

(* The pool starts with empty lists.                                          *)
LEMMA PoolStart ==
  ASSUME Pool!MemPoolAssumption, Pool!Init
  PROVE  PoolInv
<1>1. Pool!TypeOK
  BY DEF Pool!MemPoolAssumption, Pool!Init, Pool!TypeOK, Pool!Pointers, Pool!NoAsk,
     Pool!NoGc, Pool!Large, Pool!Index
<1>2. Lists
  <2> SUFFICES ASSUME NEW i \in Pool!Index
               PROVE  Listed(Pool!Pooled(i), firsts[i], lasts[i], next, prev)
    BY DEF Lists
  <2>1. Pool!Pooled(i) = {} /\ firsts[i] = Null /\ lasts[i] = Null
    BY DEF Pool!Init, Pool!Pooled
  <2>2. IsList([k \in 1..0 |-> 0], 0, {}, Null, Null, next, prev)
    BY DEF IsList
  <2> QED
    BY <2>1, <2>2 DEF Listed
<1>3. Counted
  <2>1. Kept = {} /\ current = 0
    BY DEF Pool!Init, Kept
  <2>2. Units(Sizes, {}) = {}
    BY DEF Units
  <2>3. Cardinality(Units(Sizes, {})) = 0
    BY <2>2, FS_EmptySet
  <2> QED
    BY <2>1, <2>3 DEF Counted, Pool!MemPoolAssumption
<1>4. Asking /\ Collecting
  BY DEF Pool!Init, Asking, Collecting, Pool!NoAsk
<1> QED
  BY <1>1, <1>2, <1>3, <1>4 DEF PoolInv

(* What a step that leaves the lists alone keeps.                             *)
LEMMA ListsStay ==
  ASSUME Pool!MemPoolAssumption, Pool!TypeOK, Lists, Counted,
         UNCHANGED <<firsts, lasts, current>>, Kept' = Kept,
         \A b \in Kept : next'[b] = next[b] /\ prev'[b] = prev[b] /\ index'[b] = index[b],
         index' \in [Blocks -> Pool!Index \cup {Pool!Large}]
  PROVE  Lists' /\ Counted' /\ \A i \in Pool!Index : Pool!Pooled(i)' = Pool!Pooled(i)
<1>1. \A i \in Pool!Index : Pool!Pooled(i)' = Pool!Pooled(i)
  BY DEF Kept, Pool!Pooled
<1>2. Lists'
  <2> SUFFICES ASSUME NEW i \in Pool!Index
               PROVE  Listed(Pool!Pooled(i)', firsts[i], lasts[i], next', prev')
    BY DEF Lists
  <2>1. Listed(Pool!Pooled(i), firsts[i], lasts[i], next, prev)
    BY DEF Lists
  <2>2. \A b \in Pool!Pooled(i) : next'[b] = next[b] /\ prev'[b] = prev[b]
    BY DEF Pool!Pooled, Kept
  <2> QED
    BY <1>1, <2>1, <2>2, ListKept
<1>3. Counted'
  <2>1. \A b \in Kept : Sizes'[b] = Sizes[b]
    BY DEF Kept, Sizes, Pool!TypeOK
  <2>2. Units(Sizes', Kept) = Units(Sizes, Kept)
    BY <2>1, UnitsSame
  <2> QED
    BY <2>2 DEF Counted
<1> QED
  BY <1>1, <1>2, <1>3

(* The block that free keeps comes to the front of its list, or the pool is   *)
(* as it was.                                                                 *)
LEMMA KeepStep ==
  ASSUME Pool!MemPoolAssumption, Pool!TypeOK, Lists, Counted, NEW b \in Blocks, place[b] # "pool",
         index[b] # Pool!Large, Pool!Keep(b), UNCHANGED index
  PROVE  /\ firsts' \in [Pool!Index -> Pool!Pointers] /\ lasts' \in [Pool!Index -> Pool!Pointers]
         /\ next' \in [Blocks -> Pool!Pointers] /\ prev' \in [Blocks -> Pool!Pointers]
         /\ place' \in [Blocks -> {"system", "used", "freeing", "pool"}]
         /\ current' \in Nat
         /\ Lists' /\ Counted'
<1>a. PICK i \in Pool!Index : index[b] = i
  BY DEF Pool!TypeOK
<1>b. PICK old \in Pool!Pointers : firsts[i] = old
  BY DEF Pool!TypeOK
<1>1. /\ i \in Pool!Index /\ Pool!Size(i) \in Nat /\ current \in Nat
      /\ PoolSize \in Nat /\ old \in Pool!Pointers
      /\ firsts[i] = old /\ index[b] = i
  BY <1>a, <1>b DEF Pool!MemPoolAssumption, Pool!TypeOK
<1>0. Null \notin Blocks
  BY DEF Pool!MemPoolAssumption
<1>2. CASE Pool!Fits(b)
  <2>1. /\ next' = [next EXCEPT ![b] = old]
        /\ prev' = IF old = Null THEN [prev EXCEPT ![b] = Null]
                   ELSE [prev EXCEPT ![b] = Null, ![old] = b]
        /\ lasts' = IF old = Null THEN [lasts EXCEPT ![i] = b] ELSE lasts
        /\ firsts' = [firsts EXCEPT ![i] = b]
        /\ current' = current + Pool!Size(i)
        /\ place' = [place EXCEPT ![b] = "pool"]
    BY <1>1, <1>2 DEF Pool!Keep
  <2>2. /\ firsts' \in [Pool!Index -> Pool!Pointers] /\ lasts' \in [Pool!Index -> Pool!Pointers]
        /\ next' \in [Blocks -> Pool!Pointers] /\ prev' \in [Blocks -> Pool!Pointers]
        /\ place' \in [Blocks -> {"system", "used", "freeing", "pool"}]
        /\ current' \in Nat
    BY <1>1, <2>1 DEF Pool!TypeOK, Pool!Pointers
  <2>3. /\ Pool!Pooled(i)' = Pool!Pooled(i) \cup {b} /\ b \notin Pool!Pooled(i)
        /\ \A j \in Pool!Index :
             j # i => Pool!Pooled(j)' = Pool!Pooled(j) /\ b \notin Pool!Pooled(j)
        /\ Kept' = Kept \cup {b} /\ b \notin Kept /\ Kept \in SUBSET Blocks
        /\ \A j \in Pool!Index : Pool!Pooled(j) \in SUBSET Blocks
    <3>1. place'[b] = "pool" /\ \A c \in Blocks : c # b => place'[c] = place[c]
      BY <2>1 DEF Pool!TypeOK
    <3>2. Pool!Pooled(i)' = Pool!Pooled(i) \cup {b} /\ b \notin Pool!Pooled(i)
      BY <1>1, <3>1 DEF Pool!Pooled
    <3>3. \A j \in Pool!Index : j # i => Pool!Pooled(j)' = Pool!Pooled(j) /\ b \notin Pool!Pooled(j)
      BY <1>1, <3>1 DEF Pool!Pooled
    <3>4. Kept' = Kept \cup {b} /\ b \notin Kept
      BY <3>1 DEF Kept
    <3> QED
      BY <3>2, <3>3, <3>4 DEF Pool!Pooled, Kept
  <2>4. Listed(Pool!Pooled(i), old, lasts[i], next, prev)
    BY <1>1 DEF Lists
  <2>5. Null \notin Pool!Pooled(i)
    BY <1>0, <2>3, <1>1
  <2>6. old \in Pool!Pooled(i) \cup {Null}
    BY <2>4, <2>5, ListEnds
  <2>7. Lists'
    <3> SUFFICES ASSUME NEW j \in Pool!Index
                 PROVE  Listed(Pool!Pooled(j)', firsts'[j], lasts'[j], next', prev')
      BY DEF Lists
    <3>1. CASE j = i
      <4>1. Pool!Pooled(i) \in SUBSET Blocks /\ next \in [Blocks -> Blocks \cup {Null}]
            /\ prev \in [Blocks -> Blocks \cup {Null}]
        BY <1>1, <2>3 DEF Pool!TypeOK, Pool!Pointers
      <4>2. Listed(Pool!Pooled(i) \cup {b}, b, IF old = Null THEN b ELSE lasts[i],
                   [next EXCEPT ![b] = old],
                   IF old = Null THEN [prev EXCEPT ![b] = Null]
                   ELSE [prev EXCEPT ![b] = Null, ![old] = b])
        BY <1>0, <2>3, <2>4, <4>1, ListPush
      <4>3. firsts'[i] = b /\ lasts'[i] = IF old = Null THEN b ELSE lasts[i]
        BY <1>1, <2>1 DEF Pool!TypeOK
      <4> DEFINE e  == IF old = Null THEN b ELSE lasts[i]
                 nx == [next EXCEPT ![b] = old]
                 pv == IF old = Null THEN [prev EXCEPT ![b] = Null]
                       ELSE [prev EXCEPT ![b] = Null, ![old] = b]
      <4>4. /\ Listed(Pool!Pooled(i) \cup {b}, b, e, nx, pv)
            /\ lasts'[i] = e /\ next' = nx /\ prev' = pv
        BY <2>1, <4>2, <4>3
      <4> HIDE DEF e, nx, pv
      <4> QED
        BY <2>3, <3>1, <4>3, <4>4
    <3>2. CASE j # i
      <4>1. firsts'[j] = firsts[j] /\ lasts'[j] = lasts[j]
        BY <1>1, <2>1, <3>2 DEF Pool!TypeOK
      <4>2. \A c \in Pool!Pooled(j) : c # b /\ c # old /\ c \in Blocks
        BY <1>0, <1>1, <2>3, <2>6, <3>2 DEF Pool!Pooled
      <4>3. \A c \in Pool!Pooled(j) : next'[c] = next[c] /\ prev'[c] = prev[c]
        BY <2>1, <4>2 DEF Pool!TypeOK
      <4>4. Listed(Pool!Pooled(j), firsts[j], lasts[j], next, prev)
        BY DEF Lists
      <4>5. Listed(Pool!Pooled(j), firsts[j], lasts[j], next', prev')
        BY <4>3, <4>4, ListKept
      <4> QED
        BY <2>3, <3>2, <4>1, <4>5
    <3> QED
      BY <3>1, <3>2
  <2>8. Counted'
    <3>1. Sizes' = Sizes
      BY DEF Sizes
    <3>2. Cardinality(Units(Sizes, Kept \cup {b})) = Pool!Size(i) + Cardinality(Units(Sizes, Kept))
      BY <1>1, <2>3, CountIn
    <3>3. current' = Pool!Size(i) + current /\ current' <= PoolSize
      BY <1>1, <1>2, <2>1 DEF Pool!Fits
    <3> QED
      BY <2>3, <3>1, <3>2, <3>3 DEF Counted
  <2> QED
    BY <2>2, <2>7, <2>8
<1>3. CASE ~Pool!Fits(b)
  <2>1. place' = [place EXCEPT ![b] = "system"] /\ UNCHANGED <<Pool!listVars, current>>
    BY <1>3 DEF Pool!Keep
  <2>2. Kept' = Kept
    BY <2>1 DEF Kept, Pool!TypeOK
  <2>3. /\ firsts' \in [Pool!Index -> Pool!Pointers] /\ lasts' \in [Pool!Index -> Pool!Pointers]
        /\ next' \in [Blocks -> Pool!Pointers] /\ prev' \in [Blocks -> Pool!Pointers]
        /\ place' \in [Blocks -> {"system", "used", "freeing", "pool"}]
        /\ current' \in Nat
        /\ index' \in [Blocks -> Pool!Index \cup {Pool!Large}]
    BY <2>1 DEF Pool!TypeOK, Pool!listVars
  <2>4. UNCHANGED <<firsts, lasts, next, prev, current>>
    BY <2>1 DEF Pool!listVars
  <2>5. Lists' /\ Counted'
    BY <2>2, <2>3, <2>4, ListsStay
  <2> QED
    BY <2>3, <2>5
<1> QED
  BY <1>2, <1>3

(* A block leaves its list.                                                   *)
LEMMA UnlinkStep ==
  ASSUME Pool!MemPoolAssumption, Pool!TypeOK, Lists, Counted, NEW b \in Blocks, place[b] = "pool",
         NEW i \in Pool!Index, index[b] = i, NEW z \in {"system", "used"},
         firsts' = (IF firsts[i] = b THEN [firsts EXCEPT ![i] = next[b]] ELSE firsts),
         lasts'  = (IF lasts[i] = b THEN [lasts EXCEPT ![i] = prev[b]] ELSE lasts),
         next'  = (IF prev[b] # Null THEN [next EXCEPT ![prev[b]] = next[b]] ELSE next),
         prev'  = (IF next[b] # Null THEN [prev EXCEPT ![next[b]] = prev[b]] ELSE prev),
         current' = current - Pool!Size(i),
         place' = [place EXCEPT ![b] = z],
         UNCHANGED index
  PROVE  /\ firsts' \in [Pool!Index -> Pool!Pointers] /\ lasts' \in [Pool!Index -> Pool!Pointers]
         /\ next' \in [Blocks -> Pool!Pointers] /\ prev' \in [Blocks -> Pool!Pointers]
         /\ place' \in [Blocks -> {"system", "used", "freeing", "pool"}]
         /\ current' \in Nat
         /\ Lists' /\ Counted'
         /\ Pool!Pooled(i)' = Pool!Pooled(i) \ {b}
<1>1. /\ Pool!Size(i) \in Nat /\ current \in Nat /\ PoolSize \in Nat /\ Null \notin Blocks
      /\ index[b] # Pool!Large
  BY DEF Pool!MemPoolAssumption, Pool!TypeOK, Pool!Index, Pool!Large
<1>2. PICK p \in Pool!Pointers : prev[b] = p
  BY DEF Pool!TypeOK
<1>3. PICK s \in Pool!Pointers : next[b] = s
  BY DEF Pool!TypeOK
<1>4. /\ firsts' \in [Pool!Index -> Pool!Pointers] /\ lasts' \in [Pool!Index -> Pool!Pointers]
      /\ next' \in [Blocks -> Pool!Pointers] /\ prev' \in [Blocks -> Pool!Pointers]
      /\ place' \in [Blocks -> {"system", "used", "freeing", "pool"}]
  <2>1. firsts' \in [Pool!Index -> Pool!Pointers] /\ lasts' \in [Pool!Index -> Pool!Pointers]
    BY <1>2, <1>3 DEF Pool!TypeOK, Pool!Pointers
  <2>2. next' \in [Blocks -> Pool!Pointers] /\ prev' \in [Blocks -> Pool!Pointers]
    BY <1>2, <1>3 DEF Pool!TypeOK, Pool!Pointers
  <2> QED
    BY <2>1, <2>2 DEF Pool!TypeOK
<1>5. place'[b] = z /\ z # "pool" /\ \A c \in Blocks : c # b => place'[c] = place[c]
  BY DEF Pool!TypeOK
<1>6. /\ Pool!Pooled(i)' = Pool!Pooled(i) \ {b} /\ b \in Pool!Pooled(i)
      /\ \A j \in Pool!Index : j # i => Pool!Pooled(j)' = Pool!Pooled(j) /\ b \notin Pool!Pooled(j)
      /\ Kept = Kept' \cup {b} /\ b \notin Kept' /\ Kept' \in SUBSET Blocks
      /\ \A j \in Pool!Index : Pool!Pooled(j) \in SUBSET Blocks
  <2>1. Pool!Pooled(i)' = Pool!Pooled(i) \ {b} /\ b \in Pool!Pooled(i)
    BY <1>5 DEF Pool!Pooled
  <2>2. \A j \in Pool!Index : j # i => Pool!Pooled(j)' = Pool!Pooled(j) /\ b \notin Pool!Pooled(j)
    BY <1>5 DEF Pool!Pooled
  <2>3. Kept = Kept' \cup {b} /\ b \notin Kept'
    BY <1>5 DEF Kept
  <2> QED
    BY <2>1, <2>2, <2>3 DEF Pool!Pooled, Kept
<1>7. Listed(Pool!Pooled(i), firsts[i], lasts[i], next, prev)
  BY DEF Lists
<1>8. Null \notin Pool!Pooled(i)
  BY <1>1, <1>6
<1>9. p \in Pool!Pooled(i) \cup {Null} /\ s \in Pool!Pooled(i) \cup {Null}
  BY <1>2, <1>3, <1>6, <1>7, <1>8, ListEnds
<1>10. Lists'
  <2> SUFFICES ASSUME NEW j \in Pool!Index
               PROVE  Listed(Pool!Pooled(j)', firsts'[j], lasts'[j], next', prev')
    BY DEF Lists
  <2>1. CASE j = i
    <3>1. Pool!Pooled(i) \in SUBSET Blocks /\ next \in [Blocks -> Blocks \cup {Null}]
          /\ prev \in [Blocks -> Blocks \cup {Null}]
      BY <1>6 DEF Pool!TypeOK, Pool!Pointers
    <3>2. Unlinked(Pool!Pooled(i), b, firsts[i], lasts[i], next, prev)
      BY <1>1, <1>6, <1>7, <3>1, ListUnlink
    <3> DEFINE d  == IF firsts[i] = b THEN next[b] ELSE firsts[i]
               e  == IF lasts[i] = b THEN prev[b] ELSE lasts[i]
               nx == IF prev[b] # Null THEN [next EXCEPT ![prev[b]] = next[b]] ELSE next
               pv == IF next[b] # Null THEN [prev EXCEPT ![next[b]] = prev[b]] ELSE prev
    <3>3. firsts'[i] = d /\ lasts'[i] = e
      BY DEF Pool!TypeOK
    <3>4. next' = nx /\ prev' = pv
      OBVIOUS
    <3>5. Listed(Pool!Pooled(i) \ {b}, d, e, nx, pv)
      BY <3>2 DEF Unlinked
    <3> HIDE DEF d, e, nx, pv
    <3> QED
      BY <1>6, <2>1, <3>3, <3>4, <3>5
  <2>2. CASE j # i
    <3>1. firsts'[j] = firsts[j] /\ lasts'[j] = lasts[j]
      BY <2>2 DEF Pool!TypeOK
    <3>2. \A c \in Pool!Pooled(j) : c # p /\ c # s /\ c \in Blocks
      BY <1>1, <1>6, <1>9, <2>2 DEF Pool!Pooled
    <3>3. \A c \in Pool!Pooled(j) : next'[c] = next[c] /\ prev'[c] = prev[c]
      BY <1>2, <1>3, <3>2 DEF Pool!TypeOK
    <3>4. Listed(Pool!Pooled(j), firsts[j], lasts[j], next, prev)
      BY DEF Lists
    <3>5. Listed(Pool!Pooled(j), firsts[j], lasts[j], next', prev')
      BY <3>3, <3>4, ListKept, ZenonT(30)
    <3> QED
      BY <1>6, <2>2, <3>1, <3>5
  <2> QED
    BY <2>1, <2>2
<1>11. Counted' /\ current' \in Nat
  <2>1. Sizes' = Sizes
    BY DEF Sizes
  <2>2. PICK k \in SUBSET Blocks : k = Kept'
    BY <1>6
  <2>3. Cardinality(Units(Sizes, k \cup {b})) = Pool!Size(i) + Cardinality(Units(Sizes, k))
    BY <1>1, <1>6, <2>2, CountIn
  <2>4. Cardinality(Units(Sizes, k)) \in Nat
    BY CountType
  <2>5. current = Pool!Size(i) + Cardinality(Units(Sizes, k)) /\ current <= PoolSize
    BY <1>6, <2>2, <2>3 DEF Counted
  <2>6. current' = Cardinality(Units(Sizes, k)) /\ current' <= PoolSize
    BY <1>1, <2>4, <2>5
  <2>7. \A c \in Kept' : index'[c] # Pool!Large
    BY <1>6 DEF Counted
  <2> QED
    BY <2>1, <2>2, <2>4, <2>6, <2>7 DEF Counted
<1> QED
  BY <1>4, <1>6, <1>10, <1>11

(* A step keeps the invariant, one action of Next after the other.            *)
LEMMA PoolStep ==
  ASSUME Pool!MemPoolAssumption, PoolInv, [Pool!Next]_(Pool!vars)
  PROVE  PoolInv'
<1>0. /\ Pool!TypeOK /\ Lists /\ Counted /\ Asking /\ Collecting
      /\ Null \notin Blocks /\ Null \notin Threads
      /\ \A i \in Pool!Index : Pool!Size(i) \in Nat
      /\ Pool!Large \notin Pool!Index
  BY DEF PoolInv, Pool!MemPoolAssumption, Pool!Index, Pool!Large
<1>T. \A i \in Pool!Index : /\ Null \notin Pool!Pooled(i) /\ Pool!Pooled(i) \in SUBSET Blocks
                            /\ Listed(Pool!Pooled(i), firsts[i], lasts[i], next, prev)
  BY <1>0 DEF Pool!Pooled, Lists
<1>E. ASSUME NEW i \in Pool!Index
      PROVE  /\ firsts[i] \in Pool!Pooled(i) \cup {Null} /\ lasts[i] \in Pool!Pooled(i) \cup {Null}
             /\ \A b \in Pool!Pooled(i) : /\ prev[b] \in (Pool!Pooled(i) \ {b}) \cup {Null}
                                          /\ next[b] = Null <=> b = lasts[i]
                                          /\ prev[b] = Null <=> b = firsts[i]
  BY <1>T, ListEnds
<1>1. ASSUME UNCHANGED Pool!vars PROVE PoolInv'
  <2>1. UNCHANGED <<firsts, lasts, next, prev, index, use, place, current, lock, gc, asks>>
    BY <1>1 DEF Pool!vars, Pool!listVars
  <2>2. Pool!TypeOK'
    BY <1>0, <2>1 DEF Pool!TypeOK
  <2>3. Lists' /\ Counted'
    BY <1>0, <2>1 DEF Lists, Counted, Pool!Pooled, Kept, Sizes
  <2>4. Asking' /\ Collecting'
    BY <1>0, <2>1 DEF Asking, Collecting, Pool!Pooled
  <2> QED
    BY <2>2, <2>3, <2>4 DEF PoolInv
<1>2. ASSUME NEW t \in Threads, NEW i \in Pool!Index \cup {Pool!Large}, Pool!AllocLook(t, i)
      PROVE  PoolInv'
  <2>1. /\ asks' = [asks EXCEPT ![t] =
             [class |-> i, at |-> IF i # Pool!Large /\ firsts[i] # Null THEN "pool" ELSE "malloc"]]
        /\ UNCHANGED <<firsts, lasts, next, prev, index, use, place, current, lock, gc>>
    BY <1>2 DEF Pool!AllocLook, Pool!listVars
  <2>2. Pool!TypeOK'
    BY <1>0, <2>1 DEF Pool!TypeOK
  <2>3. Lists' /\ Counted'
    BY <1>0, <2>1 DEF Lists, Counted, Pool!Pooled, Kept, Sizes
  <2>4. Collecting'
    BY <1>0, <2>1 DEF Collecting, Pool!Pooled
  <2>5. Asking'
    BY <1>0, <2>1 DEF Asking, Pool!TypeOK
  <2> QED
    BY <2>2, <2>3, <2>4, <2>5 DEF PoolInv
<1>3. ASSUME NEW t \in Threads, Pool!AllocPooled(t) PROVE PoolInv'
  <2>1. PICK i \in Pool!Index : asks[t].class = i
    BY <1>0, <1>3 DEF Pool!AllocPooled, Asking
  <2>2. PICK b \in Pool!Pointers : firsts[i] = b
    BY <1>0, <2>1 DEF Pool!TypeOK
  <2>3. PICK s \in Pool!Pointers : next[b] = s
    BY <1>0, <1>3, <2>1, <2>2 DEF Pool!AllocPooled, Pool!TypeOK, Pool!Pointers
  <2>4. /\ b # Null /\ lock = Null /\ use[b] < PoolUse
        /\ firsts' = [firsts EXCEPT ![i] = s]
        /\ prev'  = (IF s = Null THEN prev ELSE [prev EXCEPT ![s] = Null])
        /\ lasts'  = (IF s = Null THEN [lasts EXCEPT ![i] = Null] ELSE lasts)
        /\ current' = current - Pool!Size(i)
        /\ use' = [use EXCEPT ![b] = @ + 1]
        /\ place' = [place EXCEPT ![b] = "used"]
        /\ asks' = [asks EXCEPT ![t] = Pool!NoAsk]
        /\ UNCHANGED <<next, index, lock, gc>>
    BY <1>3, <2>1, <2>2, <2>3 DEF Pool!AllocPooled, Pool!WithoutPrev, Pool!Uncounted
  <2>5. b \in Pool!Pooled(i) /\ b \in Blocks /\ place[b] = "pool" /\ index[b] = i
    BY <1>E, <2>2, <2>4 DEF Pool!Pooled
  <2>6. prev[b] = Null /\ (s = Null <=> lasts[i] = b)
    BY <1>E, <2>2, <2>3, <2>5
  <2>7. /\ firsts' = (IF firsts[i] = b THEN [firsts EXCEPT ![i] = next[b]] ELSE firsts)
        /\ lasts'  = (IF lasts[i] = b THEN [lasts EXCEPT ![i] = prev[b]] ELSE lasts)
        /\ next'  = (IF prev[b] # Null THEN [next EXCEPT ![prev[b]] = next[b]] ELSE next)
        /\ prev'  = (IF next[b] # Null THEN [prev EXCEPT ![next[b]] = prev[b]] ELSE prev)
    BY <2>2, <2>3, <2>4, <2>6
  <2>8. /\ firsts' \in [Pool!Index -> Pool!Pointers] /\ lasts' \in [Pool!Index -> Pool!Pointers]
        /\ next' \in [Blocks -> Pool!Pointers] /\ prev' \in [Blocks -> Pool!Pointers]
        /\ place' \in [Blocks -> {"system", "used", "freeing", "pool"}]
        /\ current' \in Nat
        /\ Lists' /\ Counted'
    <3>1. "used" \in {"system", "used"} /\ UNCHANGED index
      BY <2>4
    <3> QED
      BY <1>0, <2>4, <2>5, <2>7, <3>1, UnlinkStep
  <2>9. Pool!TypeOK'
    <3>1. use' \in [Blocks -> 0..PoolUse]
      BY <1>0, <2>4, <2>5 DEF Pool!TypeOK, Pool!MemPoolAssumption
    <3>2. asks' \in [Threads ->
                     [class : Pool!Index \cup {Pool!Large}, at : {"idle", "pool", "malloc"}]]
      BY <1>0, <2>4 DEF Pool!TypeOK, Pool!NoAsk
    <3> QED
      BY <1>0, <2>4, <2>8, <3>1, <3>2 DEF Pool!TypeOK
  <2>10. Asking' /\ Collecting'
    BY <1>0, <2>4 DEF Asking, Collecting, Pool!NoAsk, Pool!TypeOK
  <2> QED
    BY <2>8, <2>9, <2>10 DEF PoolInv
<1>4. ASSUME NEW t \in Threads, Pool!AllocTooLate(t) \/ Pool!AllocNull(t) PROVE PoolInv'
  <2>1. /\ asks' = [asks EXCEPT ![t].at = "malloc"] \/ asks' = [asks EXCEPT ![t] = Pool!NoAsk]
        /\ UNCHANGED <<firsts, lasts, next, prev, index, use, place, current, lock, gc>>
    BY <1>4 DEF Pool!AllocTooLate, Pool!AllocNull, Pool!listVars
  <2>2. Pool!TypeOK'
    <3>1. asks' \in [Threads ->
                     [class : Pool!Index \cup {Pool!Large}, at : {"idle", "pool", "malloc"}]]
      BY <1>0, <2>1 DEF Pool!TypeOK, Pool!NoAsk
    <3> QED
      BY <1>0, <2>1, <3>1 DEF Pool!TypeOK
  <2>3. Lists' /\ Counted'
    BY <1>0, <2>1 DEF Lists, Counted, Pool!Pooled, Kept, Sizes
  <2>4. Collecting'
    BY <1>0, <2>1 DEF Collecting, Pool!Pooled
  <2>5. Asking'
    BY <1>0, <2>1 DEF Asking, Pool!TypeOK, Pool!NoAsk
  <2> QED
    BY <2>2, <2>3, <2>4, <2>5 DEF PoolInv
<1>5. ASSUME NEW t \in Threads, Pool!AllocNew(t) PROVE PoolInv'
  <2>1. PICK b \in Blocks :
          /\ place[b] = "system"
          /\ place' = [place EXCEPT ![b] = "used"]
          /\ index' = [index EXCEPT ![b] = asks[t].class]
          /\ next'  = [next EXCEPT ![b] = Null]
          /\ prev'  = [prev EXCEPT ![b] = Null]
          /\ use'   = [use EXCEPT ![b] = 0]
    BY <1>5 DEF Pool!AllocNew
  <2>2. /\ asks' = [asks EXCEPT ![t] = Pool!NoAsk]
        /\ UNCHANGED <<firsts, lasts, current, lock, gc>>
    BY <1>5 DEF Pool!AllocNew
  <2>3. Pool!TypeOK'
    <3>1. use' \in [Blocks -> 0..PoolUse]
      BY <1>0, <2>1 DEF Pool!TypeOK, Pool!MemPoolAssumption
    <3>2. index' \in [Blocks -> Pool!Index \cup {Pool!Large}]
      BY <1>0, <2>1 DEF Pool!TypeOK
    <3>3. next' \in [Blocks -> Pool!Pointers] /\ prev' \in [Blocks -> Pool!Pointers]
      BY <1>0, <2>1 DEF Pool!TypeOK, Pool!Pointers
    <3>4. place' \in [Blocks -> {"system", "used", "freeing", "pool"}]
      BY <1>0, <2>1 DEF Pool!TypeOK
    <3>5. asks' \in [Threads ->
                     [class : Pool!Index \cup {Pool!Large}, at : {"idle", "pool", "malloc"}]]
      BY <1>0, <2>2 DEF Pool!TypeOK, Pool!NoAsk
    <3> QED
      BY <1>0, <2>2, <3>1, <3>2, <3>3, <3>4, <3>5 DEF Pool!TypeOK
  <2>4. b \notin Kept /\ Kept' = Kept
    BY <1>0, <2>1 DEF Kept, Pool!TypeOK
  <2>5. \A c \in Kept : next'[c] = next[c] /\ prev'[c] = prev[c] /\ index'[c] = index[c]
    <3> TAKE c \in Kept
    <3>1. c # b /\ c \in Blocks
      BY <2>4 DEF Kept
    <3> QED
      BY <1>0, <2>1, <3>1 DEF Pool!TypeOK
  <2>6. index' \in [Blocks -> Pool!Index \cup {Pool!Large}] /\ UNCHANGED <<firsts, lasts, current>>
    BY <2>2, <2>3 DEF Pool!TypeOK
  <2>7. Lists' /\ Counted' /\ \A i \in Pool!Index : Pool!Pooled(i)' = Pool!Pooled(i)
    BY <1>0, <2>4, <2>5, <2>6, ListsStay
  <2>8. Asking'
    BY <1>0, <2>2 DEF Asking, Pool!NoAsk, Pool!TypeOK
  <2>9. Collecting'
    <3> SUFFICES ASSUME lock # Null PROVE Collecting'
      BY <2>2 DEF Collecting
    <3>1. /\ gc' = gc /\ gc.block \in Blocks /\ place[gc.block] = "freeing"
          /\ index[gc.block] # Pool!Large /\ gc.node \in Pool!Pooled(gc.class) \cup {Null}
      BY <1>0, <2>2 DEF Collecting
    <3>2. gc.class \in Pool!Index
      BY <1>0 DEF Pool!TypeOK
    <3>3. gc.block # b
      BY <2>1, <3>1
    <3>4. place'[gc.block] = "freeing" /\ index'[gc.block] # Pool!Large
      BY <1>0, <2>1, <3>1, <3>3 DEF Pool!TypeOK
    <3>5. (Pool!Pooled(gc.class))' = Pool!Pooled(gc.class)
      BY <2>7, <3>1, <3>2 DEF Pool!Pooled
    <3> QED
      BY <3>1, <3>4, <3>5 DEF Collecting
  <2> QED
    BY <2>3, <2>7, <2>8, <2>9 DEF PoolInv
<1>6. ASSUME NEW t \in Threads, NEW b \in Blocks, Pool!FreeLarge(t, b) PROVE PoolInv'
  <2>1. /\ place[b] = "used" /\ index[b] = Pool!Large
        /\ place' = [place EXCEPT ![b] = "system"]
        /\ UNCHANGED <<firsts, lasts, next, prev, index, use, current, lock, gc, asks>>
    BY <1>6 DEF Pool!FreeLarge, Pool!listVars
  <2>2. Pool!TypeOK'
    BY <1>0, <2>1 DEF Pool!TypeOK
  <2>3. \A c \in Blocks : (place'[c] = "pool" <=> place[c] = "pool")
                      /\ (place'[c] = "freeing" <=> place[c] = "freeing")
    BY <1>0, <2>1 DEF Pool!TypeOK
  <2>4. Kept' = Kept /\ \A i : (Pool!Pooled(i))' = Pool!Pooled(i)
    BY <2>1, <2>3 DEF Kept, Pool!Pooled
  <2>5. index' \in [Blocks -> Pool!Index \cup {Pool!Large}]
    BY <2>2 DEF Pool!TypeOK
  <2>6. Lists' /\ Counted'
    BY <1>0, <2>1, <2>4, <2>5, ListsStay
  <2>7. Asking'
    BY <1>0, <2>1 DEF Asking
  <2>8. Collecting'
    BY <1>0, <2>1, <2>3, <2>4 DEF Collecting, Pool!Pooled
  <2> QED
    BY <2>2, <2>6, <2>7, <2>8 DEF PoolInv
<1>7. ASSUME NEW t \in Threads, NEW b \in Blocks, Pool!Free(t, b) PROVE PoolInv'
  <2>1. /\ place[b] = "used" /\ index[b] # Pool!Large /\ lock = Null /\ Pool!Keep(b)
        /\ UNCHANGED <<index, use, lock, gc, asks>>
    BY <1>7 DEF Pool!Free
  <2>2. /\ firsts' \in [Pool!Index -> Pool!Pointers] /\ lasts' \in [Pool!Index -> Pool!Pointers]
        /\ next' \in [Blocks -> Pool!Pointers] /\ prev' \in [Blocks -> Pool!Pointers]
        /\ place' \in [Blocks -> {"system", "used", "freeing", "pool"}]
        /\ current' \in Nat
        /\ Lists' /\ Counted'
    BY <1>0, <2>1, KeepStep
  <2>3. Pool!TypeOK'
    BY <1>0, <2>1, <2>2 DEF Pool!TypeOK
  <2>4. Asking' /\ Collecting'
    BY <1>0, <2>1 DEF Asking, Collecting
  <2> QED
    BY <2>2, <2>3, <2>4 DEF PoolInv
<1>8. ASSUME NEW t \in Threads, NEW b \in Blocks, Pool!FreeCollect(t, b) PROVE PoolInv'
  <2> DEFINE top == PoolClasses - 1
  <2>0. /\ top \in Pool!Index /\ lasts[top] \in Pool!Pointers
        /\ lasts[top] \in Pool!Pooled(top) \cup {Null}
    <3>1. top \in Pool!Index
      BY DEF Pool!MemPoolAssumption, Pool!Index
    <3> QED
      BY <1>0, <1>E, <3>1 DEF Pool!TypeOK
  <2>1. /\ place[b] = "used" /\ index[b] # Pool!Large
        /\ lock' = t
        /\ gc' = [block |-> b, class |-> top, node |-> lasts[top], freed |-> 0]
        /\ place' = [place EXCEPT ![b] = "freeing"]
        /\ UNCHANGED <<firsts, lasts, next, prev, index, use, current, asks>>
    BY <1>8 DEF Pool!FreeCollect, Pool!listVars
  <2> HIDE DEF top
  <2>2. Pool!TypeOK'
    <3>1. lock' # Null /\ gc' # Pool!NoGc
      BY <1>0, <2>1 DEF Pool!NoGc
    <3>2. gc' \in [block : Pool!Pointers, class : Pool!Index, node : Pool!Pointers, freed : Nat]
      BY <2>0, <2>1 DEF Pool!Pointers
    <3> QED
      BY <1>0, <2>1, <3>1, <3>2 DEF Pool!TypeOK
  <2>3. Kept' = Kept /\ \A i : (Pool!Pooled(i))' = Pool!Pooled(i)
    <3>1. \A c \in Blocks : place'[c] = "pool" <=> place[c] = "pool"
      BY <1>0, <2>1 DEF Pool!TypeOK
    <3> QED
      BY <2>1, <3>1 DEF Kept, Pool!Pooled
  <2>4. index' \in [Blocks -> Pool!Index \cup {Pool!Large}]
    BY <2>2 DEF Pool!TypeOK
  <2>5. Lists' /\ Counted'
    BY <1>0, <2>1, <2>3, <2>4, ListsStay
  <2>6. Asking'
    BY <1>0, <2>1 DEF Asking
  <2>7. Collecting'
    <3>1. (Pool!Pooled(gc.class))' = Pool!Pooled(top)
      BY <2>1, <2>3 DEF Pool!Pooled
    <3>2. /\ gc'.block = b /\ gc'.node = lasts[top] /\ place'[b] = "freeing"
          /\ index'[b] # Pool!Large
      BY <1>0, <2>1 DEF Pool!TypeOK
    <3> QED
      BY <2>0, <3>1, <3>2 DEF Collecting
  <2> QED
    BY <2>2, <2>5, <2>6, <2>7 DEF PoolInv
<1>9. ASSUME Pool!CollectNode PROVE PoolInv'
  <2>0. lock # Null /\ gc.node # Null
    BY <1>9 DEF Pool!CollectNode
  <2>1. PICK i \in Pool!Index : gc.class = i
    BY <1>0 DEF Pool!TypeOK
  <2>2. PICK n \in Blocks : gc.node = n /\ n \in Pool!Pooled(i) /\ place[n] = "pool" /\ index[n] = i
    BY <1>0, <2>0, <2>1 DEF Collecting, Pool!Pooled
  <2>3. PICK k \in Blocks : gc.block = k /\ place[k] = "freeing" /\ index[k] # Pool!Large
    BY <1>0, <2>0 DEF Collecting
  <2>4. /\ firsts' = (IF firsts[i] = n THEN [firsts EXCEPT ![i] = next[n]] ELSE firsts)
        /\ lasts'  = (IF lasts[i] = n THEN [lasts EXCEPT ![i] = prev[n]] ELSE lasts)
        /\ next'  = (IF prev[n] # Null THEN [next EXCEPT ![prev[n]] = next[n]] ELSE next)
        /\ prev'  = (IF next[n] # Null THEN [prev EXCEPT ![next[n]] = prev[n]] ELSE prev)
        /\ current' = current - Pool!Size(i)
        /\ place' = [place EXCEPT ![n] = "system"]
        /\ gc' = [gc EXCEPT !.node = prev[n], !.freed = @ + Pool!Size(i)]
        /\ UNCHANGED <<index, use, lock, asks>>
    BY <1>9, <2>1, <2>2 DEF Pool!CollectNode, Pool!LastWithout
  <2>5. /\ firsts' \in [Pool!Index -> Pool!Pointers] /\ lasts' \in [Pool!Index -> Pool!Pointers]
        /\ next' \in [Blocks -> Pool!Pointers] /\ prev' \in [Blocks -> Pool!Pointers]
        /\ place' \in [Blocks -> {"system", "used", "freeing", "pool"}]
        /\ current' \in Nat
        /\ Lists' /\ Counted'
        /\ (Pool!Pooled(i))' = Pool!Pooled(i) \ {n}
    <3>1. "system" \in {"system", "used"} /\ UNCHANGED index
      BY <2>4
    <3> QED
      BY <1>0, <2>2, <2>4, <3>1, UnlinkStep
  <2>6. prev[n] \in (Pool!Pooled(i) \ {n}) \cup {Null} /\ prev[n] \in Pool!Pointers
    BY <1>0, <1>E, <2>2 DEF Pool!TypeOK
  <2>7. /\ gc'.block = k /\ gc'.class = i /\ gc'.node = prev[n]
        /\ gc' \in [block : Pool!Pointers, class : Pool!Index, node : Pool!Pointers, freed : Nat]
    <3>1. gc \in [block : Pool!Pointers, class : Pool!Index, node : Pool!Pointers, freed : Nat]
      BY <1>0 DEF Pool!TypeOK
    <3>2. gc.freed + Pool!Size(i) \in Nat
      BY <1>0, <3>1
    <3>3. k \in Pool!Pointers
      BY DEF Pool!Pointers
    <3>4. gc' = [block |-> k, class |-> i, node |-> prev[n], freed |-> gc.freed + Pool!Size(i)]
      BY <2>1, <2>3, <2>4, <3>1
    <3> QED
      BY <2>6, <3>2, <3>3, <3>4
  <2>8. Pool!TypeOK'
    <3>1. gc' # Pool!NoGc
      BY <1>0, <2>7 DEF Pool!NoGc
    <3> QED
      BY <1>0, <2>0, <2>4, <2>5, <2>7, <3>1 DEF Pool!TypeOK
  <2>9. Asking'
    BY <1>0, <2>4 DEF Asking
  <2>10. Collecting'
    <3>1. (Pool!Pooled(gc.class))' = Pool!Pooled(i) \ {n}
      BY <2>5, <2>7 DEF Pool!Pooled
    <3>2. place'[k] = "freeing" /\ index'[k] # Pool!Large
      BY <1>0, <2>2, <2>3, <2>4 DEF Pool!TypeOK
    <3> QED
      BY <2>3, <2>6, <2>7, <3>1, <3>2 DEF Collecting
  <2> QED
    BY <2>5, <2>8, <2>9, <2>10 DEF PoolInv
<1>10. ASSUME Pool!PassNode \/ Pool!NextClass PROVE PoolInv'
  <2>1. /\ lock # Null
        /\ UNCHANGED <<firsts, lasts, next, prev, index, use, place, current, lock, asks>>
    BY <1>10 DEF Pool!PassNode, Pool!NextClass, Pool!listVars
  <2>2. PICK k \in Blocks : gc.block = k /\ place[k] = "freeing" /\ index[k] # Pool!Large
    BY <1>0, <2>1 DEF Collecting
  <2>3. PICK i \in Pool!Index : gc.class = i
    BY <1>0 DEF Pool!TypeOK
  <2>4. \E j \in Pool!Index, n \in Pool!Pointers :
          /\ n \in Pool!Pooled(j) \cup {Null}
          /\ gc' = [block |-> gc.block, class |-> j, node |-> n, freed |-> gc.freed]
    <3>1. CASE Pool!PassNode
      <4>1. gc.node # Null /\ gc' = [gc EXCEPT !.node = prev[gc.node]]
        BY <3>1 DEF Pool!PassNode
      <4>2. gc.node \in Pool!Pooled(i)
        BY <1>0, <2>1, <2>3, <4>1 DEF Collecting
      <4>3. prev[gc.node] \in Pool!Pooled(i) \cup {Null} /\ prev[gc.node] \in Pool!Pointers
        BY <1>0, <1>E, <4>2 DEF Pool!TypeOK, Pool!Pooled
      <4>4. gc' = [block |-> gc.block, class |-> i, node |-> prev[gc.node],
                    freed |-> gc.freed]
        BY <1>0, <2>3, <4>1 DEF Pool!TypeOK
      <4> QED
        BY <4>3, <4>4
    <3>2. CASE Pool!NextClass
      <4>1. i > 0 /\ gc' = [gc EXCEPT !.class = i - 1, !.node = lasts[i - 1]]
        BY <1>0, <2>3, <3>2 DEF Pool!NextClass, Pool!TypeOK
      <4>4. gc' = [block |-> gc.block, class |-> i - 1, node |-> lasts[i - 1], freed |-> gc.freed]
        BY <1>0, <4>1 DEF Pool!TypeOK
      <4>2. i - 1 \in Pool!Index
        BY <4>1 DEF Pool!Index, Pool!MemPoolAssumption
      <4>3. lasts[i - 1] \in Pool!Pooled(i - 1) \cup {Null} /\ lasts[i - 1] \in Pool!Pointers
        BY <1>0, <1>E, <4>2 DEF Pool!TypeOK
      <4> QED
        BY <4>2, <4>3, <4>4
    <3> QED
      BY <1>10, <3>1, <3>2
  <2>5. PICK j \in Pool!Index, n \in Pool!Pointers :
          /\ n \in Pool!Pooled(j) \cup {Null}
          /\ gc' = [block |-> gc.block, class |-> j, node |-> n, freed |-> gc.freed]
    BY <2>4
  <2>6. /\ gc'.block = k /\ gc'.class = j /\ gc'.node = n
        /\ gc' \in [block : Pool!Pointers, class : Pool!Index, node : Pool!Pointers, freed : Nat]
    BY <1>0, <2>2, <2>5 DEF Pool!TypeOK
  <2>7. Pool!TypeOK'
    <3>1. gc' # Pool!NoGc
      BY <1>0, <2>6 DEF Pool!NoGc
    <3> QED
      BY <1>0, <2>1, <2>6, <3>1 DEF Pool!TypeOK
  <2>8. Lists' /\ Counted'
    BY <1>0, <2>1 DEF Lists, Counted, Pool!Pooled, Kept, Sizes
  <2>9. Asking'
    BY <1>0, <2>1 DEF Asking
  <2>10. Collecting'
    <3>1. (Pool!Pooled(gc.class))' = Pool!Pooled(j)
      BY <2>1, <2>6 DEF Pool!Pooled
    <3> QED
      BY <2>1, <2>2, <2>5, <2>6, <3>1 DEF Collecting
  <2> QED
    BY <2>7, <2>8, <2>9, <2>10 DEF PoolInv
<1>11. ASSUME Pool!CollectEnd PROVE PoolInv'
  <2>1. lock # Null /\ Pool!Keep(gc.block) /\ lock' = Null /\ gc' = Pool!NoGc
        /\ UNCHANGED <<index, use, asks>>
    BY <1>11 DEF Pool!CollectEnd
  <2>2. PICK b \in Blocks : gc.block = b /\ place[b] = "freeing" /\ index[b] # Pool!Large
    BY <1>0, <2>1 DEF Collecting
  <2>3. Pool!Keep(b) /\ place[b] # "pool" /\ UNCHANGED index
    BY <2>1, <2>2
  <2>4. /\ firsts' \in [Pool!Index -> Pool!Pointers] /\ lasts' \in [Pool!Index -> Pool!Pointers]
        /\ next' \in [Blocks -> Pool!Pointers] /\ prev' \in [Blocks -> Pool!Pointers]
        /\ place' \in [Blocks -> {"system", "used", "freeing", "pool"}]
        /\ current' \in Nat
        /\ Lists' /\ Counted'
    BY <1>0, <2>2, <2>3, KeepStep
  <2>5. Pool!NoGc \in [block : Pool!Pointers, class : Pool!Index, node : Pool!Pointers, freed : Nat]
    BY DEF Pool!NoGc, Pool!Pointers, Pool!Index, Pool!MemPoolAssumption
  <2>6. Pool!TypeOK'
    BY <1>0, <2>1, <2>4, <2>5 DEF Pool!TypeOK
  <2>7. Asking' /\ Collecting'
    BY <1>0, <2>1 DEF Asking, Collecting
  <2> QED
    BY <2>4, <2>6, <2>7 DEF PoolInv
<1> QED
  BY <1>1, <1>2, <1>3, <1>4, <1>5, <1>6, <1>7, <1>8, <1>9, <1>10, <1>11 DEF Pool!Next,
     Pool!Collect

(* What the invariant says of the pool.                                       *)
LEMMA PoolIsWhole ==
  ASSUME Pool!MemPoolAssumption, PoolInv
  PROVE  Pool!ListsWhole
<1>0. /\ Pool!TypeOK /\ Lists /\ Counted
      /\ Null \notin Blocks /\ IsFiniteSet(Blocks)
      /\ \A i \in Pool!Index : Pool!Size(i) \in Nat
  BY PoolConstants DEF PoolInv
<1> DEFINE C == Pool!Cardinality(Blocks)
<1>1. C = Cardinality(Blocks) /\ C \in Nat
  BY <1>0, PoolSets, FS_CardinalityType
<1>2. ASSUME NEW i \in Pool!Index
      PROVE  /\ {Pool!Along(i)[n] : n \in 0..C} \ {Null} = Pool!Pooled(i)
             /\ Pool!Along(i)[Pool!Cardinality(Pool!Pooled(i))] = Null
             /\ \A b \in Pool!Pooled(i) :
                  /\ next[b] = Null => b = lasts[i]
                  /\ next[b] # Null => prev[next[b]] = b
                  /\ prev[b] = Null <=> b = firsts[i]
             /\ Pool!Pooled(i) = {} => lasts[i] = Null
  <2>1. Null \notin Pool!Pooled(i) /\ Pool!Pooled(i) \in SUBSET Blocks
    BY <1>0 DEF Pool!Pooled
  <2>2. Listed(Pool!Pooled(i), firsts[i], lasts[i], next, prev)
    BY <1>0 DEF Lists
  <2>3. IsFiniteSet(Pool!Pooled(i)) /\ Cardinality(Pool!Pooled(i)) <= C
    BY <1>0, <1>1, <2>1, FS_Subset
  <2> DEFINE node == Pool!Along(i)
             Steps(f) == StepsOf(firsts[i], next, C, f)
  <2>4. node = CHOOSE f : Steps(f)
    BY DEF Pool!Along, StepsOf
  <2> HIDE DEF C, node
  <2>5. /\ \E f : Steps(f)
        /\ \A f : Steps(f) =>
              /\ {f[n] : n \in 0..C} \ {Null} = Pool!Pooled(i)
              /\ f[Cardinality(Pool!Pooled(i))] = Null
    BY <1>1, <2>1, <2>2, <2>3, ListWalk
  <2> HIDE DEF Steps
  <2>6. Steps(node)
    BY <2>4, <2>5
  <2>7. /\ {node[n] : n \in 0..C} \ {Null} = Pool!Pooled(i)
        /\ node[Pool!Cardinality(Pool!Pooled(i))] = Null
    BY <2>5, <2>6, PoolSets
  <2>8. /\ \A b \in Pool!Pooled(i) :
             /\ next[b] = Null => b = lasts[i]
             /\ next[b] # Null => prev[next[b]] = b
             /\ prev[b] = Null <=> b = firsts[i]
        /\ Pool!Pooled(i) = {} => lasts[i] = Null
    BY <2>1, <2>2, ListEnds
  <2> QED
    BY <2>7, <2>8 DEF node
<1>3. LET SizeOf(b) == Pool!Size(index[b]) IN
      current = Pool!MapThenSumSet(SizeOf, {b \in Blocks : place[b] = "pool"})
  <2> DEFINE w == [b \in Kept |-> Pool!Size(index[b])]
  <2>1. Kept \in SUBSET Blocks /\ IsFiniteSet(Kept)
    <3>1. Kept \in SUBSET Blocks
      BY DEF Kept
    <3> QED
      BY <1>0, <3>1, FS_Subset
  <2>2. \A b \in Kept : index[b] # Pool!Large /\ index[b] \in Pool!Index
    BY <1>0 DEF Counted, Pool!TypeOK, Kept
  <2>3. \A b \in Kept : Pool!Size(index[b]) \in Nat
    BY <1>0, <2>2
  <2>4. LET SizeOf(b) == Pool!Size(index[b]) IN
        Pool!MapThenSumSet(SizeOf, Kept) = Cardinality(Units(w, Kept))
    BY <2>1, <2>3, SumIs
  <2>5. \A b \in Kept : w[b] = Sizes[b]
    BY <2>1, <2>2 DEF Sizes
  <2> HIDE DEF w
  <2>6. Units(w, Kept) = Units(Sizes, Kept)
    BY <2>5, UnitsSame
  <2>7. current = Cardinality(Units(Sizes, Kept))
    BY <1>0 DEF Counted
  <2> QED
    BY <2>4, <2>6, <2>7 DEF Kept
<1>4. current <= PoolSize
  BY <1>0 DEF Counted
<1> QED
  BY <1>2, <1>3, <1>4 DEF Pool!ListsWhole

-----------------------------------------------------------------------------
(* Encrypted messages. *)

(* The rest of a division by a number is one of the numbers below it.         *)
LEMMA RestBelow ==
  ASSUME NEW n \in Nat \ {0}, NEW x \in Int
  PROVE  x % n \in 0..(n - 1)
OBVIOUS

(* There are as many bytes as in Size.                                        *)
LEMMA BytesAre ==
  /\ ByteValues \in Nat \ {0} /\ ByteValues \in {1, 2, 4, 8, 16, 32, 64, 128, 256}
  /\ Crypto!Bytes = 0..(ByteValues - 1)
  /\ Keys \in SUBSET (Seq(Crypto!Bytes) \ {<<>>}) /\ Texts \in SUBSET Seq(Crypto!Bytes)
  /\ PlainMax \in Nat /\ CipherMax \in Nat
BY PartsAssumption DEF Crypto!CryptoChannelAssumption, Crypto!Bytes

(* The weights of eight bits that are 0 or 1: the bits come back.             *)
LEMMA BitsBack ==
  ASSUME NEW p \in {0, 1}, NEW q \in {0, 1}, NEW r \in {0, 1}, NEW s \in {0, 1},
         NEW t \in {0, 1}, NEW u \in {0, 1}, NEW v \in {0, 1}, NEW w \in {0, 1}, NEW x,
         x = 1 * p + 2 * q + 4 * r + 8 * s + 16 * t + 32 * u + 64 * v + 128 * w
  PROVE  /\ x \in 0..255
         /\ (x \div 1) % 2 = p /\ (x \div 2) % 2 = q /\ (x \div 4) % 2 = r /\ (x \div 8) % 2 = s
         /\ (x \div 16) % 2 = t /\ (x \div 32) % 2 = u /\ (x \div 64) % 2 = v
         /\ (x \div 128) % 2 = w
OBVIOUS

(* A byte is the sum of its bits.                                             *)
LEMMA BitsOf ==
  ASSUME NEW x \in 0..255
  PROVE  x = 1 * ((x \div 1) % 2) + 2 * ((x \div 2) % 2) + 4 * ((x \div 4) % 2)
             + 8 * ((x \div 8) % 2) + 16 * ((x \div 16) % 2) + 32 * ((x \div 32) % 2)
             + 64 * ((x \div 64) % 2) + 128 * ((x \div 128) % 2)
OBVIOUS

(* Without the bits from that of n on it is below n.                          *)
LEMMA BitsBelow ==
  ASSUME NEW p \in {0, 1}, NEW q \in {0, 1}, NEW r \in {0, 1}, NEW s \in {0, 1},
         NEW t \in {0, 1}, NEW u \in {0, 1}, NEW v \in {0, 1}, NEW w \in {0, 1}, NEW x,
         x = 1 * p + 2 * q + 4 * r + 8 * s + 16 * t + 32 * u + 64 * v + 128 * w,
         NEW n \in {1, 2, 4, 8, 16, 32, 64, 128, 256},
         1 >= n => p = 0, 2 >= n => q = 0, 4 >= n => r = 0, 8 >= n => s = 0,
         16 >= n => t = 0, 32 >= n => u = 0, 64 >= n => v = 0, 128 >= n => w = 0
  PROVE  x \in 0..(n - 1)
OBVIOUS

(* The sum of two numbers is odd when one of them is.                         *)
LEMMA Odd ==
  ASSUME NEW x \in Nat, NEW y \in Nat
  PROVE  (x + y) % 2 \in {0, 1} /\ (x + y) % 2 = IF x % 2 = y % 2 THEN 0 ELSE 1
OBVIOUS

(* Exclusive or with a byte, twice, is nothing.                               *)
LEMMA XorTwice ==
  ASSUME NEW a \in Crypto!Bytes, NEW b \in Crypto!Bytes
  PROVE  Crypto!Xor(a, b) \in Crypto!Bytes /\ Crypto!Xor(Crypto!Xor(a, b), b) = a
<1> DEFINE W == {1, 2, 4, 8, 16, 32, 64, 128}
           B(w) == (a \div w + b \div w) % 2
           x == 1 * B(1) + 2 * B(2) + 4 * B(4) + 8 * B(8) + 16 * B(16) + 32 * B(32)
                + 64 * B(64) + 128 * B(128)
<1>1. a \in 0..255 /\ b \in 0..255
  BY BytesAre
<1>2. Crypto!Xor(a, b) = x
  BY DEF Crypto!Xor
<1>3. ASSUME NEW w \in W
      PROVE  /\ a \div w \in Nat /\ b \div w \in Nat
             /\ B(w) \in {0, 1}
             /\ B(w) = IF (a \div w) % 2 = (b \div w) % 2 THEN 0 ELSE 1
  <2>1. a \div w \in Nat /\ b \div w \in Nat
    BY <1>1
  <2> QED
    BY <2>1, Odd
<1> HIDE DEF B
<1>4. /\ x \in 0..255
      /\ (x \div 1) % 2 = B(1) /\ (x \div 2) % 2 = B(2) /\ (x \div 4) % 2 = B(4)
      /\ (x \div 8) % 2 = B(8) /\ (x \div 16) % 2 = B(16) /\ (x \div 32) % 2 = B(32)
      /\ (x \div 64) % 2 = B(64) /\ (x \div 128) % 2 = B(128)
  <2>1. /\ B(1) \in {0, 1} /\ B(2) \in {0, 1} /\ B(4) \in {0, 1} /\ B(8) \in {0, 1}
        /\ B(16) \in {0, 1} /\ B(32) \in {0, 1} /\ B(64) \in {0, 1} /\ B(128) \in {0, 1}
    BY <1>3
  <2> QED
    BY ONLY <2>1, BitsBack
<1> HIDE DEF x
<1>5. ASSUME NEW w \in W
      PROVE  (x \div w + b \div w) % 2 = (a \div w) % 2
  <2>1. x \div w \in Nat /\ b \div w \in Nat /\ a \div w \in Nat
    BY <1>1, <1>4
  <2>2. (x \div w + b \div w) % 2 = IF (x \div w) % 2 = (b \div w) % 2 THEN 0 ELSE 1
    BY <2>1, Odd
  <2>3. (x \div w) % 2 = B(w)
    BY <1>4
  <2>4. (a \div w) % 2 \in {0, 1} /\ (b \div w) % 2 \in {0, 1}
    BY <2>1
  <2> QED
    BY <1>3, <2>2, <2>3, <2>4
<1>6. Crypto!Xor(x, b) = a
  <2>1. Crypto!Xor(x, b) =
          1 * ((a \div 1) % 2) + 2 * ((a \div 2) % 2) + 4 * ((a \div 4) % 2)
             + 8 * ((a \div 8) % 2) + 16 * ((a \div 16) % 2) + 32 * ((a \div 32) % 2)
             + 64 * ((a \div 64) % 2) + 128 * ((a \div 128) % 2)
    BY <1>5, Zenon DEF Crypto!Xor
  <2> QED
    BY <1>1, <2>1, BitsOf
<1>7. x \in Crypto!Bytes
  <2>1. ASSUME NEW w \in W, w >= ByteValues
        PROVE  B(w) = 0
    <3>1. a < w /\ b < w
      BY <2>1, BytesAre
    <3>2. a \div w = 0 /\ b \div w = 0
      BY <1>1, <3>1
    <3> QED
      BY <1>3, <3>2
  <2>2. \A w \in W : B(w) \in {0, 1} /\ (w >= ByteValues => B(w) = 0)
    BY <1>3, <2>1
  <2>4. /\ B(1) \in {0, 1} /\ B(2) \in {0, 1} /\ B(4) \in {0, 1} /\ B(8) \in {0, 1}
        /\ B(16) \in {0, 1} /\ B(32) \in {0, 1} /\ B(64) \in {0, 1} /\ B(128) \in {0, 1}
        /\ (1 >= ByteValues => B(1) = 0) /\ (2 >= ByteValues => B(2) = 0)
        /\ (4 >= ByteValues => B(4) = 0) /\ (8 >= ByteValues => B(8) = 0)
        /\ (16 >= ByteValues => B(16) = 0) /\ (32 >= ByteValues => B(32) = 0)
        /\ (64 >= ByteValues => B(64) = 0) /\ (128 >= ByteValues => B(128) = 0)
    BY <2>2
  <2>3. x \in 0..(ByteValues - 1)
    <3>1. x = 1 * B(1) + 2 * B(2) + 4 * B(4) + 8 * B(8) + 16 * B(16) + 32 * B(32)
              + 64 * B(64) + 128 * B(128)
      BY DEF x
    <3>2. ByteValues \in {1, 2, 4, 8, 16, 32, 64, 128, 256}
      BY BytesAre
    <3> QED
      BY ONLY <2>4, <3>1, <3>2, BitsBelow
  <2> QED
    BY <2>3, BytesAre
<1> QED
  BY <1>2, <1>6, <1>7
(* s has every byte once, and rc is a state of RC4 whose table does.          *)
Permuted(s) == {s[b] : b \in Crypto!Bytes} = Crypto!Bytes

Rc == {rc \in Crypto!Rc4 : Permuted(rc.s)}

(* It has, with two of them exchanged.                                        *)
LEMMA SwapPermutes ==
  ASSUME NEW s \in [Crypto!Bytes -> Crypto!Bytes], Permuted(s),
         NEW i \in Crypto!Bytes, NEW j \in Crypto!Bytes
  PROVE  Crypto!Swap(s, i, j) \in [Crypto!Bytes -> Crypto!Bytes] /\ Permuted(Crypto!Swap(s, i, j))
<1> DEFINE t == Crypto!Swap(s, i, j)
<1>1. t \in [Crypto!Bytes -> Crypto!Bytes]
  BY DEF Crypto!Swap
<1>2. \A b \in Crypto!Bytes : t[b] = IF b = j THEN s[i] ELSE IF b = i THEN s[j] ELSE s[b]
  BY DEF Crypto!Swap
<1> HIDE DEF t
<1>3. ASSUME NEW v \in Crypto!Bytes
      PROVE  \E b \in Crypto!Bytes : t[b] = v
  <2>1. PICK b \in Crypto!Bytes : s[b] = v
    BY DEF Permuted
  <2>2. CASE b = i
    BY <1>2, <2>1, <2>2
  <2>3. CASE b = j /\ b # i
    BY <1>2, <2>1, <2>3
  <2>4. CASE b # i /\ b # j
    BY <1>2, <2>1, <2>4
  <2> QED
    BY <2>2, <2>3, <2>4
<1>4. \A b \in Crypto!Bytes : t[b] \in Crypto!Bytes
  BY <1>1
<1>5. Permuted(t)
  BY <1>3, <1>4 DEF Permuted
<1> QED
  BY <1>1, <1>5 DEF t

(* A step keeps the table a permutation.                                      *)
LEMMA StepPermutes ==
  ASSUME NEW rc \in Rc
  PROVE  Crypto!Step(rc) \in Rc /\ Crypto!StreamByte(rc) \in Crypto!Bytes
<1>1. /\ rc.s \in [Crypto!Bytes -> Crypto!Bytes] /\ Permuted(rc.s)
      /\ rc.x \in Crypto!Bytes /\ rc.y \in Crypto!Bytes
  BY DEF Rc, Crypto!Rc4
<1> DEFINE x == (rc.x + 1) % ByteValues
           y == (rc.y + rc.s[x]) % ByteValues
<1>2. \A n \in Int : n % ByteValues \in Crypto!Bytes
  BY BytesAre, RestBelow
<1>3. \A b \in Crypto!Bytes : b \in Int /\ rc.s[b] \in Crypto!Bytes
  <2>1. Crypto!Bytes \in SUBSET Int
    BY BytesAre
  <2> QED
    BY <1>1, <2>1
<1>4. x \in Crypto!Bytes
  BY <1>1, <1>2, <1>3
<1>5. y \in Crypto!Bytes
  BY <1>1, <1>2, <1>3, <1>4
<1>6. Crypto!Step(rc) = [s |-> Crypto!Swap(rc.s, x, y), x |-> x, y |-> y]
  BY DEF Crypto!Step
<1> HIDE DEF x, y
<1>7. Crypto!Step(rc) \in Rc
  <2>1. /\ Crypto!Swap(rc.s, x, y) \in [Crypto!Bytes -> Crypto!Bytes]
        /\ Permuted(Crypto!Swap(rc.s, x, y))
    BY <1>1, <1>4, <1>5, SwapPermutes
  <2> QED
    BY <1>4, <1>5, <1>6, <2>1 DEF Rc, Crypto!Rc4
<1>8. Crypto!StreamByte(rc) \in Crypto!Bytes
  <2>1. (rc.s[rc.x] + rc.s[rc.y]) % ByteValues \in Crypto!Bytes
    BY <1>1, <1>2, <1>3
  <2> QED
    BY <1>3, <2>1 DEF Crypto!StreamByte
<1> QED
  BY <1>7, <1>8

(* From c, g makes l steps, each to a member of X.                            *)
CanStep(X, c, l, g) == c \in X /\ l \in Nat /\ g \in [X \X (1..l) -> X]

(* f has what it comes to after n of them.                                    *)
Stepped(f, X, c, n, g) ==
  /\ f \in [0..n -> X]
  /\ \A k \in 0..n : f[k] = IF k = 0 THEN c ELSE g[<<f[k - 1], k>>]

(* There is such a function.                                                  *)
LEMMA StepsExist ==
  ASSUME NEW X, NEW c, NEW l, NEW g, CanStep(X, c, l, g)
  PROVE  \E f : Stepped(f, X, c, l, g)
<1> USE DEF CanStep, Stepped
<1> DEFINE Good(f, n) == Stepped(f, X, c, n, g)
           T == {n \in Nat : n <= l => \E f : Good(f, n)}
<1>1. 0 \in T
  <2>1. Good([k \in 0..0 |-> c], 0)
    OBVIOUS
  <2> QED
    BY <2>1
<1>2. ASSUME NEW n \in T
      PROVE  n + 1 \in T
  <2> SUFFICES ASSUME n + 1 <= l
               PROVE  \E f : Good(f, n + 1)
    OBVIOUS
  <2>1. PICK f : Good(f, n)
    OBVIOUS
  <2>2. n \in Nat /\ n \in 0..n /\ n + 1 \in 1..l
    OBVIOUS
  <2> DEFINE x == g[<<f[n], n + 1>>]
             h == [i \in 0..(n + 1) |-> IF i <= n THEN f[i] ELSE x]
  <2>3. x \in X
    BY <2>1, <2>2
  <2> HIDE DEF x
  <2>4. h \in [0..(n + 1) -> X]
    BY <2>1, <2>2, <2>3
  <2>5. ASSUME NEW k \in 0..(n + 1)
        PROVE  h[k] = IF k = 0 THEN c ELSE g[<<h[k - 1], k>>]
    <3>1. CASE k <= n
      <4>1. k \in 0..n /\ h[k] = f[k] /\ (k # 0 => h[k - 1] = f[k - 1])
        BY <2>2, <3>1
      <4> HIDE DEF h
      <4> QED
        BY <2>1, <4>1
    <3>2. CASE k = n + 1
      <4>1. k # 0 /\ k - 1 = n /\ h[n] = f[n] /\ h[k] = x
        BY <2>2, <3>2
      <4> HIDE DEF h
      <4> QED
        BY <3>2, <4>1 DEF x
    <3> QED
      BY <2>2, <3>1, <3>2
  <2> HIDE DEF h
  <2> QED
    BY <2>4, <2>5
<1> HIDE DEF T
<1>3. \A n \in Nat : n \in T
  BY <1>1, <1>2, Induct DEF T
<1>4. l \in T
  BY <1>3
<1> QED
  BY <1>4 DEF T
(* f has the states of RC4 from rc on, for n bytes.                           *)
Runs(f, rc, n) == f = [r \in 0..n |-> IF r = 0 THEN rc ELSE Crypto!Step(f[r - 1])]

After(rc, n) == CHOOSE f : Runs(f, rc, n)

(* They are states of RC4.                                                    *)
LEMMA AfterType ==
  ASSUME NEW rc \in Rc, NEW n \in Nat
  PROVE  \A k \in 0..n : After(rc, n)[k] \in Rc
<1> DEFINE g == [p \in Rc \X (1..n) |-> Crypto!Step(p[1])]
           h == After(rc, n)
<1>1. g \in [Rc \X (1..n) -> Rc]
  BY StepPermutes
<1>2. \A q \in Rc, k \in 1..n : g[<<q, k>>] = Crypto!Step(q)
  OBVIOUS
<1> HIDE DEF g
<1>a. rc \in Rc /\ n \in Nat
  OBVIOUS
<1>b. CanStep(Rc, rc, n, g)
  BY <1>a, <1>1 DEF CanStep
<1>c. PICK f : Stepped(f, Rc, rc, n, g)
  BY <1>b, StepsExist
<1>3. /\ f \in [0..n -> Rc]
      /\ \A k \in 0..n : f[k] = IF k = 0 THEN rc ELSE g[<<f[k - 1], k>>]
  BY <1>c DEF Stepped
<1>4. Runs(f, rc, n)
  <2>1. \A k \in 0..n : f[k] = IF k = 0 THEN rc ELSE Crypto!Step(f[k - 1])
    <3> TAKE k \in 0..n
    <3>1. k # 0 => k \in 1..n /\ f[k - 1] \in Rc
      BY <1>3
    <3> QED
      BY <1>2, <1>3, <3>1
  <2> QED
    BY <1>3, <2>1 DEF Runs
<1>5. Runs(h, rc, n)
  BY <1>4 DEF After
<1> HIDE DEF h
<1>6. \A k \in 0..n : h[k] = IF k = 0 THEN rc ELSE Crypto!Step(h[k - 1])
  BY <1>5 DEF Runs
<1> DEFINE T == {k \in Nat : k \in 0..n => h[k] \in Rc}
<1>7. 0 \in T
  BY <1>6
<1>8. ASSUME NEW k \in T
      PROVE  k + 1 \in T
  <2> SUFFICES ASSUME k + 1 \in 0..n
               PROVE  h[k + 1] \in Rc
    OBVIOUS
  <2>1. k \in Nat /\ k \in 0..n /\ h[k] \in Rc
    OBVIOUS
  <2>2. h[k + 1] = Crypto!Step(h[k])
    BY <1>6, <2>1
  <2> QED
    BY <2>1, <2>2, StepPermutes
<1> HIDE DEF T
<1>9. \A k \in Nat : k \in T
  BY <1>7, <1>8, Induct DEF T
<1> QED
  BY <1>9 DEF T, h

(* What process() writes, and the state it leaves.                            *)
LEMMA ProcessIs ==
  ASSUME NEW rc, NEW text
  PROVE  Crypto!Process(rc, text) =
           [out |-> [r \in 1..Len(text) |->
                       Crypto!Xor(text[r], Crypto!StreamByte(After(rc, Len(text))[r]))],
            rc  |-> After(rc, Len(text))[Len(text)]]
BY DEF Crypto!Process, After, Runs

(* What it makes of what it has written, from the same state.                 *)
LEMMA ProcessTwice ==
  ASSUME NEW rc \in Rc, NEW text \in Seq(Crypto!Bytes)
  PROVE  LET t == Crypto!Process(rc, text) IN
         /\ t.out \in Seq(Crypto!Bytes) /\ Len(t.out) = Len(text) /\ t.rc \in Rc
         /\ Crypto!Process(rc, t.out) = [out |-> text, rc |-> t.rc]
<1> DEFINE n == Len(text)
           key(r) == Crypto!StreamByte(After(rc, n)[r])
           q == [r \in 1..n |-> Crypto!Xor(text[r], key(r))]
<1>1. n \in Nat /\ \A r \in 1..n : text[r] \in Crypto!Bytes
  BY LenProperties, ElementOfSeq
<1>2. \A r \in 1..n : r \in 0..n /\ key(r) \in Crypto!Bytes
  BY <1>1, AfterType, StepPermutes
<1>3. Crypto!Process(rc, text) = [out |-> q, rc |-> After(rc, n)[n]]
  BY ProcessIs
<1>4. After(rc, n)[n] \in Rc
  BY <1>1, AfterType
<1> HIDE DEF n
<1>5. \A r \in 1..n : /\ Crypto!Xor(text[r], key(r)) \in Crypto!Bytes
                      /\ Crypto!Xor(Crypto!Xor(text[r], key(r)), key(r)) = text[r]
  BY <1>1, <1>2, XorTwice
<1> HIDE DEF key
<1>6. q \in Seq(Crypto!Bytes) /\ Len(q) = n /\ \A r \in 1..n : q[r] = Crypto!Xor(text[r], key(r))
  BY <1>1, <1>5
<1> HIDE DEF q
<1>7. Crypto!Process(rc, q) = [out |-> [r \in 1..n |-> Crypto!Xor(q[r], key(r))],
                               rc  |-> After(rc, n)[n]]
  BY <1>6, ProcessIs DEF key
<1>8. [r \in 1..n |-> Crypto!Xor(q[r], key(r))] = text
  <2>1. [r \in 1..n |-> Crypto!Xor(q[r], key(r))] = [r \in 1..n |-> text[r]]
    BY <1>5, <1>6
  <2>2. text = [r \in 1..n |-> text[r]]
    BY DEF n
  <2> QED
    BY <2>1, <2>2
<1> QED
  BY <1>3, <1>4, <1>6, <1>7, <1>8, SMTT(30) DEF n

(* The same of encrypt and decrypt, with and without a key.                   *)
LEMMA ThroughTwice ==
  ASSUME NEW rc \in Rc \cup {Crypto!Off}, NEW text \in Seq(Crypto!Bytes)
  PROVE  LET t == Crypto!Through(rc, text) IN
         /\ t.out \in Seq(Crypto!Bytes) /\ t.rc \in Rc \cup {Crypto!Off}
         /\ Crypto!Through(rc, t.out) = [out |-> text, rc |-> t.rc]
<1> DEFINE t == Crypto!Through(rc, text)
<1>1. CASE rc = Crypto!Off \/ text = <<>>
  <2>1. t = [out |-> text, rc |-> rc]
    BY <1>1 DEF Crypto!Through
  <2>2. Crypto!Through(rc, text) = [out |-> text, rc |-> rc]
    BY <2>1
  <2> QED
    BY <2>1, <2>2
<1>2. CASE ~(rc = Crypto!Off \/ text = <<>>)
  <2>1. t = Crypto!Process(rc, text)
    BY <1>2 DEF Crypto!Through
  <2> HIDE DEF t
  <2>2. rc \in Rc
    BY <1>2
  <2>3. /\ t.out \in Seq(Crypto!Bytes) /\ Len(t.out) = Len(text) /\ t.rc \in Rc
        /\ Crypto!Process(rc, t.out) = [out |-> text, rc |-> t.rc]
    BY <2>1, <2>2, ProcessTwice
  <2>4. t.out # <<>>
    BY <1>2, <2>3
  <2>5. Crypto!Through(rc, t.out) = Crypto!Process(rc, t.out)
    BY <1>2, <2>4 DEF Crypto!Through
  <2> QED
    BY <2>3, <2>5 DEF t
<1> QED
  BY <1>1, <1>2
(* The i-th exchange that a key makes, and f has the tables of all of them.   *)
Mixed(q, i, key) ==
  LET j == (q.j + q.s[i - 1] + key[((i - 1) % Len(key)) + 1]) % ByteValues
  IN  [s |-> Crypto!Swap(q.s, i - 1, j), j |-> j]

Mixes(f, key) ==
  f = [i \in 0..ByteValues |-> IF i = 0 THEN [s |-> [b \in Crypto!Bytes |-> b], j |-> 0]
                               ELSE Mixed(f[i - 1], i, key)]

(* A table of all bytes and a place in it.                                    *)
Tables == {q \in [s : [Crypto!Bytes -> Crypto!Bytes], j : Crypto!Bytes] : Permuted(q.s)}

(* An exchange leaves one.                                                    *)
LEMMA MixedType ==
  ASSUME NEW q \in Tables, NEW i \in 1..ByteValues, NEW key \in Seq(Crypto!Bytes), key # <<>>
  PROVE  Mixed(q, i, key) \in Tables
<1> DEFINE j == (q.j + q.s[i - 1] + key[((i - 1) % Len(key)) + 1]) % ByteValues
<1>1. /\ q.s \in [Crypto!Bytes -> Crypto!Bytes] /\ Permuted(q.s) /\ q.j \in Crypto!Bytes
  BY DEF Tables
<1>2. Crypto!Bytes \in SUBSET Int /\ i - 1 \in Crypto!Bytes /\ i - 1 \in Int
  BY BytesAre
<1>3. q.s[i - 1] \in Crypto!Bytes
  BY <1>1, <1>2
<1>4. key[((i - 1) % Len(key)) + 1] \in Crypto!Bytes
  <2>1. Len(key) \in Nat \ {0}
    BY EmptySeq, LenProperties
  <2> DEFINE r == (i - 1) % Len(key)
  <2>2. r \in 0..(Len(key) - 1)
    BY <1>2, <2>1, RestBelow
  <2> HIDE DEF r
  <2>3. r + 1 \in 1..Len(key)
    BY <2>1, <2>2
  <2>4. key[r + 1] \in Crypto!Bytes
    BY <2>3, ElementOfSeq
  <2> QED
    BY <2>4 DEF r
<1>5. j \in Crypto!Bytes
  <2> DEFINE x == key[((i - 1) % Len(key)) + 1]
  <2>1. q.j \in Int /\ q.s[i - 1] \in Int /\ x \in Int
    BY <1>1, <1>2, <1>3, <1>4
  <2> HIDE DEF x
  <2>2. q.j + q.s[i - 1] + x \in Int
    BY <2>1
  <2>3. (q.j + q.s[i - 1] + x) % ByteValues \in Crypto!Bytes
    BY <2>2, BytesAre, RestBelow
  <2> QED
    BY <2>3 DEF x
<1>6. Mixed(q, i, key) = [s |-> Crypto!Swap(q.s, i - 1, j), j |-> j]
  BY DEF Mixed
<1> HIDE DEF j
<1>7. /\ Crypto!Swap(q.s, i - 1, j) \in [Crypto!Bytes -> Crypto!Bytes]
      /\ Permuted(Crypto!Swap(q.s, i - 1, j))
  BY <1>1, <1>2, <1>5, SwapPermutes
<1> QED
  BY <1>5, <1>6, <1>7 DEF Tables

(* A key makes a state of RC4.                                                *)
LEMMA SetKeyType ==
  ASSUME NEW key \in Keys
  PROVE  Crypto!SetKey(key) \in Rc
<1> DEFINE n == ByteValues
           c == [s |-> [b \in Crypto!Bytes |-> b], j |-> 0]
           g == [p \in Tables \X (1..n) |-> Mixed(p[1], p[2], key)]
           h == CHOOSE f : Mixes(f, key)
<1>1. key \in Seq(Crypto!Bytes) /\ key # <<>> /\ n \in Nat /\ 0 \in Crypto!Bytes
  BY BytesAre
<1>2. c \in Tables
  BY <1>1 DEF Tables, Permuted
<1>3. g \in [Tables \X (1..n) -> Tables]
  BY <1>1, MixedType
<1>4. \A q \in Tables, k \in 1..n : g[<<q, k>>] = Mixed(q, k, key)
  OBVIOUS
<1>5. Crypto!KeySchedule(key) = h[n].s
  BY DEF Crypto!KeySchedule, Mixes, Mixed
<1> HIDE DEF g, c, n
<1>6. CanStep(Tables, c, n, g)
  BY <1>1, <1>2, <1>3 DEF CanStep
<1>7. PICK f : Stepped(f, Tables, c, n, g)
  BY <1>6, StepsExist
<1>8. /\ f \in [0..n -> Tables]
      /\ \A k \in 0..n : f[k] = IF k = 0 THEN c ELSE g[<<f[k - 1], k>>]
  BY <1>7 DEF Stepped
<1>9. Mixes(f, key)
  <2>1. \A k \in 0..n : f[k] = IF k = 0 THEN c ELSE Mixed(f[k - 1], k, key)
    <3> TAKE k \in 0..n
    <3>1. k # 0 => k \in 1..n /\ f[k - 1] \in Tables
      BY <1>1, <1>8
    <3> QED
      BY <1>4, <1>8, <3>1
  <2> QED
    BY <1>8, <2>1 DEF Mixes, c, n
<1>10. Mixes(h, key)
  BY <1>9
<1> HIDE DEF h
<1>11. \A k \in 0..n : h[k] = IF k = 0 THEN c ELSE Mixed(h[k - 1], k, key)
  BY <1>10 DEF Mixes, c, n
<1> DEFINE T == {k \in Nat : k \in 0..n => h[k] \in Tables}
<1>12. 0 \in T
  BY <1>2, <1>11
<1>13. ASSUME NEW k \in T
       PROVE  k + 1 \in T
  <2> SUFFICES ASSUME k + 1 \in 0..n
               PROVE  h[k + 1] \in Tables
    OBVIOUS
  <2>1. k \in Nat /\ k \in 0..n /\ k + 1 \in 1..n /\ h[k] \in Tables
    BY <1>1
  <2>2. h[k + 1] = Mixed(h[k], k + 1, key)
    BY <1>11, <2>1
  <2>3. k + 1 \in 1..ByteValues
    BY <2>1 DEF n
  <2> QED
    BY <1>1, <2>1, <2>2, <2>3, MixedType
<1> HIDE DEF T
<1>14. \A k \in Nat : k \in T
  BY <1>12, <1>13, Induct DEF T
<1>15. h[n] \in Tables
  BY <1>1, <1>14 DEF T
<1> QED
  BY <1>1, <1>5, <1>15 DEF Crypto!SetKey, Tables, Rc, Crypto!Rc4
(* RC4 goes from one state to the other over q: its m-th and further messages *)
(* are those of xs, encrypted.                                                *)
Encrypts(d, q, xs, m, from, to) ==
  /\ d \in [0..Len(q) -> Rc \cup {Crypto!Off}] /\ d[0] = from /\ d[Len(q)] = to
  /\ \A i \in 1..Len(q) : /\ q[i] = Crypto!Through(d[i - 1], xs[m + i]).out
                          /\ d[i] = Crypto!Through(d[i - 1], xs[m + i]).rc

Encrypted(q, xs, m, from, to) == \E d : Encrypts(d, q, xs, m, from, to)

(* A message that is sent goes on from where the sender was.                  *)
LEMMA EncryptedGrows ==
  ASSUME NEW q \in Seq(Seq(Crypto!Bytes)), NEW xs \in Seq(Texts), NEW m \in Nat,
         NEW from, NEW to, Encrypted(q, xs, m, from, to), Len(xs) = m + Len(q),
         NEW text \in Texts
  PROVE  LET t == Crypto!Through(to, text) IN
         /\ t.out \in Seq(Crypto!Bytes) /\ t.rc \in Rc \cup {Crypto!Off}
         /\ Encrypted(Append(q, t.out), Append(xs, text), m, from, t.rc)
<1> DEFINE t == Crypto!Through(to, text)
           n == Len(q)
           p == Append(q, t.out)
           ys == Append(xs, text)
<1>1. n \in Nat /\ Len(xs) = m + n /\ text \in Seq(Crypto!Bytes)
  BY LenProperties, BytesAre
<1>2. PICK d : Encrypts(d, q, xs, m, from, to)
  BY DEF Encrypted
<1>3. /\ d \in [0..n -> Rc \cup {Crypto!Off}] /\ d[0] = from /\ d[n] = to
      /\ \A i \in 1..n : /\ q[i] = Crypto!Through(d[i - 1], xs[m + i]).out
                         /\ d[i] = Crypto!Through(d[i - 1], xs[m + i]).rc
  BY <1>2 DEF Encrypts
<1>4. to \in Rc \cup {Crypto!Off}
  BY <1>1, <1>3
<1>5. t.out \in Seq(Crypto!Bytes) /\ t.rc \in Rc \cup {Crypto!Off}
  BY <1>1, <1>4, ThroughTwice
<1> HIDE DEF t
<1>6. /\ Len(p) = n + 1 /\ p[n + 1] = t.out /\ \A i \in 1..n : p[i] = q[i]
      /\ ys[m + n + 1] = text /\ \A i \in 1..n : ys[m + i] = xs[m + i]
  <2>1. Len(p) = n + 1 /\ p[n + 1] = t.out /\ \A i \in 1..n : p[i] = q[i]
    BY <1>1, <1>5, AppendProperties
  <2>2. /\ ys[(m + n) + 1] = text /\ \A i \in 1..(m + n) : ys[i] = xs[i]
    BY <1>1, AppendProperties
  <2>3. \A i \in 1..n : m + i \in 1..(m + n)
    BY <1>1
  <2> QED
    BY <2>1, <2>2, <2>3
<1> HIDE DEF p, ys, n
<1> DEFINE e == [i \in 0..(n + 1) |-> IF i = n + 1 THEN t.rc ELSE d[i]]
<1>7. e \in [0..(n + 1) -> Rc \cup {Crypto!Off}]
  BY <1>1, <1>3, <1>5
<1>8. e[n + 1] = t.rc /\ \A i \in 0..n : e[i] = d[i]
  BY <1>1
<1> HIDE DEF e
<1>9. ASSUME NEW i \in 1..(n + 1)
      PROVE  /\ p[i] = Crypto!Through(e[i - 1], ys[m + i]).out
             /\ e[i] = Crypto!Through(e[i - 1], ys[m + i]).rc
  <2>1. CASE i \in 1..n
    <3>1. i - 1 \in 0..n /\ i \in 0..n
      BY <1>1, <2>1
    <3> QED
      BY <1>3, <1>6, <1>8, <2>1, <3>1
  <2>2. CASE i = n + 1
    <3>1. i - 1 = n /\ n \in 0..n /\ m + i = m + n + 1
      BY <1>1, <2>2
    <3>2. e[i - 1] = to /\ ys[m + i] = text /\ e[i] = t.rc /\ p[i] = t.out
      BY <1>3, <1>6, <1>8, <2>2, <3>1
    <3> QED
      BY <3>2 DEF t
  <2> QED
    BY <1>1, <2>1, <2>2
<1>10. 0 \in 0..n /\ n + 1 \in 0..(n + 1)
  BY <1>1
<1>11. Encrypts(e, p, ys, m, from, t.rc)
  BY <1>3, <1>6, <1>7, <1>8, <1>9, <1>10 DEF Encrypts
<1> QED
  BY <1>5, <1>11 DEF Encrypted, p, ys, t

(* The one that is received is decrypted, and the rest goes on from there.    *)
LEMMA EncryptedShrinks ==
  ASSUME NEW q \in Seq(Seq(Crypto!Bytes)), q # <<>>, NEW xs \in Seq(Texts), NEW m \in Nat,
         NEW from, NEW to, Encrypted(q, xs, m, from, to), Len(xs) = m + Len(q)
  PROVE  LET t == Crypto!Through(from, Head(q)) IN
         /\ t.out = xs[m + 1] /\ t.rc \in Rc \cup {Crypto!Off}
         /\ Encrypted(Tail(q), xs, m + 1, t.rc, to)
<1> DEFINE t == Crypto!Through(from, Head(q))
           n == Len(q)
           p == Tail(q)
<1>1. /\ n \in Nat /\ n # 0 /\ Head(q) = q[1] /\ Len(p) = n - 1
      /\ \A i \in 1..(n - 1) : p[i] = q[i + 1]
  BY EmptySeq, HeadTailProperties, LenProperties
<1> HIDE DEF p, n
<1>2. PICK d : Encrypts(d, q, xs, m, from, to)
  BY DEF Encrypted
<1>3. /\ d \in [0..n -> Rc \cup {Crypto!Off}] /\ d[0] = from /\ d[n] = to
      /\ \A i \in 1..n : /\ q[i] = Crypto!Through(d[i - 1], xs[m + i]).out
                         /\ d[i] = Crypto!Through(d[i - 1], xs[m + i]).rc
  BY <1>2 DEF Encrypts, n
<1>4. from \in Rc \cup {Crypto!Off} /\ xs[m + 1] \in Seq(Crypto!Bytes)
  <2>1. 0 \in 0..n /\ m + 1 \in 1..Len(xs)
    BY <1>1 DEF n
  <2>2. xs[m + 1] \in Texts
    BY <2>1, ElementOfSeq
  <2> QED
    BY <1>3, <2>1, <2>2, BytesAre
<1>5. q[1] = Crypto!Through(from, xs[m + 1]).out /\ d[1] = Crypto!Through(from, xs[m + 1]).rc
  <2>1. 1 \in 1..n /\ 1 - 1 = 0
    BY <1>1
  <2> QED
    BY <1>3, <2>1
<1>6. /\ Crypto!Through(from, Crypto!Through(from, xs[m + 1]).out)
           = [out |-> xs[m + 1], rc |-> Crypto!Through(from, xs[m + 1]).rc]
      /\ Crypto!Through(from, xs[m + 1]).rc \in Rc \cup {Crypto!Off}
  BY <1>4, ThroughTwice
<1>7. t.out = xs[m + 1] /\ t.rc = d[1] /\ t.rc \in Rc \cup {Crypto!Off}
  BY <1>1, <1>5, <1>6
<1> HIDE DEF t
<1> DEFINE e == [i \in 0..(n - 1) |-> d[i + 1]]
<1>8. e \in [0..(n - 1) -> Rc \cup {Crypto!Off}]
  BY <1>1, <1>3
<1>9. \A i \in 0..(n - 1) : e[i] = d[i + 1]
  OBVIOUS
<1> HIDE DEF e
<1>10. e[0] = t.rc /\ e[n - 1] = to
  <2>1. 0 \in 0..(n - 1) /\ n - 1 \in 0..(n - 1) /\ (n - 1) + 1 = n /\ 0 + 1 = 1
    BY <1>1
  <2> QED
    BY <1>3, <1>7, <1>9, <2>1
<1>11. ASSUME NEW i \in 1..(n - 1)
       PROVE  /\ p[i] = Crypto!Through(e[i - 1], xs[(m + 1) + i]).out
              /\ e[i] = Crypto!Through(e[i - 1], xs[(m + 1) + i]).rc
  <2>1. /\ i - 1 \in 0..(n - 1) /\ i \in 0..(n - 1) /\ i + 1 \in 1..n
        /\ (i - 1) + 1 = i /\ (i + 1) - 1 = i /\ (m + 1) + i = m + (i + 1)
    BY <1>1
  <2>2. e[i - 1] = d[i] /\ e[i] = d[i + 1] /\ p[i] = q[i + 1]
    BY <1>1, <1>9, <2>1
  <2>3. /\ q[i + 1] = Crypto!Through(d[i], xs[m + (i + 1)]).out
        /\ d[i + 1] = Crypto!Through(d[i], xs[m + (i + 1)]).rc
    BY <1>3, <2>1
  <2> QED
    BY <2>1, <2>2, <2>3
<1>12. Encrypts(e, p, xs, m + 1, t.rc, to)
  BY <1>1, <1>8, <1>10, <1>11 DEF Encrypts
<1> QED
  BY <1>7, <1>12 DEF Encrypted, p, t
(* The inductive invariant of CryptoChannel. As long as nothing was refused,  *)
(* the messages under way are those after the received ones, encrypted from   *)
(* the receiver's state to the sender's.                                      *)
CryptoInv ==
  /\ encrypt \in Rc \cup {Crypto!Off} /\ decrypt \in Rc \cup {Crypto!Off}
  /\ cipher \in Seq(Seq(Crypto!Bytes)) /\ Len(cipher) <= CipherMax
  /\ plain \in Seq(Texts) /\ Len(plain) <= PlainMax
  /\ received \in Seq(Seq(Crypto!Bytes)) /\ refused \in BOOLEAN
  /\ ~refused =>
       /\ Len(plain) = Len(received) + Len(cipher)
       /\ \A i \in 1..Len(received) : received[i] = plain[i]
       /\ Encrypted(cipher, plain, Len(received), decrypt, encrypt)

(* It holds of two sessions without anything sent.                            *)
LEMMA NothingSent ==
  ASSUME NEW rc \in Rc \cup {Crypto!Off}
  PROVE  /\ <<>> \in Seq(Seq(Crypto!Bytes)) /\ <<>> \in Seq(Texts) /\ Len(<<>>) = 0
         /\ Encrypted(<<>>, <<>>, 0, rc, rc)
<1> DEFINE d == [i \in 0..0 |-> rc]
<1>1. d \in [0..Len(<<>>) -> Rc \cup {Crypto!Off}] /\ d[0] = rc /\ d[Len(<<>>)] = rc
  BY EmptySeq
<1>2. \A i \in 1..Len(<<>>) : FALSE
  BY EmptySeq
<1>3. Encrypts(d, <<>>, <<>>, 0, rc, rc)
  BY <1>1, <1>2 DEF Encrypts
<1> QED
  BY <1>3, EmptySeq DEF Encrypted

(* At the start.                                                              *)
LEMMA CryptoStarts ==
  ASSUME Crypto!Init
  PROVE  CryptoInv
<1>1. /\ encrypt = Crypto!Off /\ decrypt = Crypto!Off
      /\ cipher = <<>> /\ plain = <<>> /\ received = <<>> /\ refused = FALSE
  BY DEF Crypto!Init
<1>2. /\ <<>> \in Seq(Seq(Crypto!Bytes)) /\ <<>> \in Seq(Texts) /\ Len(<<>>) = 0
      /\ Encrypted(<<>>, <<>>, 0, Crypto!Off, Crypto!Off)
  BY NothingSent
<1>3. /\ Len(cipher) = 0 /\ Len(plain) = 0 /\ Len(received) = 0
      /\ Encrypted(cipher, plain, Len(received), decrypt, encrypt)
  BY <1>1, <1>2
<1>4. \A i \in 1..Len(received) : received[i] = plain[i]
  BY <1>3
<1>5. Len(cipher) <= CipherMax /\ Len(plain) <= PlainMax
  BY <1>3, BytesAre
<1>6. /\ cipher \in Seq(Seq(Crypto!Bytes)) /\ received \in Seq(Seq(Crypto!Bytes))
      /\ plain \in Seq(Texts) /\ Len(plain) = Len(received) + Len(cipher)
  BY <1>1, <1>2, <1>3
<1> QED
  BY <1>1, <1>3, <1>4, <1>5, <1>6 DEF CryptoInv

(* Every step keeps it.                                                       *)
LEMMA CryptoStep ==
  ASSUME CryptoInv, [Crypto!Next]_(Crypto!vars)
  PROVE  CryptoInv'
<1>1. /\ encrypt \in Rc \cup {Crypto!Off} /\ decrypt \in Rc \cup {Crypto!Off}
      /\ cipher \in Seq(Seq(Crypto!Bytes)) /\ Len(cipher) <= CipherMax
      /\ plain \in Seq(Texts) /\ Len(plain) <= PlainMax
      /\ received \in Seq(Seq(Crypto!Bytes)) /\ refused \in BOOLEAN
      /\ Len(cipher) \in Nat /\ Len(plain) \in Nat /\ Len(received) \in Nat
  BY LenProperties DEF CryptoInv
<1>2. ~refused => /\ Len(plain) = Len(received) + Len(cipher)
                  /\ \A i \in 1..Len(received) : received[i] = plain[i]
                  /\ Encrypted(cipher, plain, Len(received), decrypt, encrypt)
  BY DEF CryptoInv
<1>3. ASSUME NEW rc \in Rc \cup {Crypto!Off}, encrypt' = rc, decrypt' = rc, cipher' = <<>>,
             plain' = <<>>, received' = <<>>, refused' = FALSE
      PROVE  CryptoInv'
  <2>1. /\ <<>> \in Seq(Seq(Crypto!Bytes)) /\ <<>> \in Seq(Texts) /\ Len(<<>>) = 0
        /\ Encrypted(<<>>, <<>>, 0, rc, rc)
    BY NothingSent
  <2>2. /\ Len(cipher') = 0 /\ Len(plain') = 0 /\ Len(received') = 0
        /\ Encrypted(cipher', plain', Len(received'), decrypt', encrypt')
    BY <1>3, <2>1
  <2>3. \A i \in 1..Len(received') : received'[i] = plain'[i]
    BY <2>2
  <2>4. Len(cipher') <= CipherMax /\ Len(plain') <= PlainMax
    BY <2>2, BytesAre
  <2>5. /\ cipher' \in Seq(Seq(Crypto!Bytes)) /\ received' \in Seq(Seq(Crypto!Bytes))
        /\ plain' \in Seq(Texts) /\ Len(plain') = Len(received') + Len(cipher')
    BY <1>3, <2>1, <2>2
  <2> QED
    BY <1>3, <2>2, <2>3, <2>4, <2>5 DEF CryptoInv
<1>4. ASSUME NEW key \in Keys, Crypto!SetKeys(key)
      PROVE  CryptoInv'
  <2>1. /\ encrypt' = Crypto!SetKey(key) /\ decrypt' = Crypto!SetKey(key) /\ cipher' = <<>>
        /\ plain' = <<>> /\ received' = <<>> /\ refused' = FALSE
    BY <1>4 DEF Crypto!SetKeys
  <2> QED
    BY <1>3, <2>1, SetKeyType
<1>5. ASSUME NEW text \in Texts, NEW taken \in BOOLEAN, Crypto!EncryptSendMsg(text, taken)
      PROVE  CryptoInv'
  <2> DEFINE t == Crypto!Through(encrypt, text)
  <2>1. /\ Len(plain) < PlainMax /\ Len(cipher) < CipherMax
        /\ encrypt' = t.rc /\ decrypt' = decrypt /\ received' = received
    BY <1>5 DEF Crypto!EncryptSendMsg, Crypto!EncryptSend
  <2>2. t.out \in Seq(Crypto!Bytes) /\ t.rc \in Rc \cup {Crypto!Off}
    <3>1. text \in Seq(Crypto!Bytes)
      BY BytesAre
    <3> QED
      BY <1>1, <3>1, ThroughTwice
  <2>3. CASE taken /\ text # <<>>
    <3>1. cipher' = Append(cipher, t.out) /\ plain' = Append(plain, text) /\ refused' = refused
      BY <1>5, <2>3 DEF Crypto!EncryptSendMsg, Crypto!EncryptSend
    <3>2. ~refused => Encrypted(Append(cipher, t.out), Append(plain, text), Len(received),
                                decrypt, t.rc)
      BY <1>1, <1>2, EncryptedGrows
    <3> HIDE DEF t
    <3>3. /\ cipher' \in Seq(Seq(Crypto!Bytes)) /\ Len(cipher') = Len(cipher) + 1
          /\ plain' \in Seq(Texts) /\ Len(plain') = Len(plain) + 1
          /\ \A i \in 1..Len(plain) : plain'[i] = plain[i]
      BY <1>1, <2>2, <3>1, AppendProperties
    <3>4. ~refused => \A i \in 1..Len(received) : i \in 1..Len(plain)
      BY <1>1, <1>2
    <3>5. ASSUME ~refused'
          PROVE  /\ Len(plain') = Len(received') + Len(cipher')
                 /\ \A i \in 1..Len(received') : received'[i] = plain'[i]
                 /\ Encrypted(cipher', plain', Len(received'), decrypt', encrypt')
      <4>1. ~refused /\ Len(received') = Len(received)
        BY <2>1, <3>1, <3>5
      <4>2. Len(plain) = Len(received) + Len(cipher)
        BY <1>2, <4>1
      <4>3. Len(plain') = Len(received') + Len(cipher')
        BY <1>1, <3>3, <4>1, <4>2
      <4>4. \A i \in 1..Len(received') : received'[i] = plain'[i]
        BY <1>2, <2>1, <3>3, <3>4, <4>1
      <4>5. Encrypted(cipher', plain', Len(received'), decrypt', encrypt')
        BY <2>1, <3>1, <3>2, <4>1
      <4> QED
        BY <4>3, <4>4, <4>5
    <3>6. Len(cipher') <= CipherMax /\ Len(plain') <= PlainMax
      BY <1>1, <2>1, <3>3, BytesAre
    <3> QED
      BY <1>1, <2>1, <2>2, <3>1, <3>3, <3>5, <3>6 DEF CryptoInv
  <2>4. CASE ~(taken /\ text # <<>>)
    <3>1. cipher' = cipher /\ plain' = plain /\ refused' = (refused \/ t.rc # encrypt)
      BY <1>5, <2>4 DEF Crypto!EncryptSendMsg, Crypto!EncryptSend
    <3>2. refused' \in BOOLEAN /\ (~refused' => ~refused /\ encrypt' = encrypt)
      BY <2>1, <3>1
    <3> HIDE DEF t
    <3> QED
      BY <1>1, <1>2, <2>1, <2>2, <3>1, <3>2 DEF CryptoInv
  <2> QED
    BY <2>3, <2>4
<1>6. CASE Crypto!Receive
  <2> DEFINE t == Crypto!Through(decrypt, Head(cipher))
  <2>1. /\ cipher # <<>> /\ decrypt' = t.rc /\ received' = Append(received, t.out)
        /\ cipher' = Tail(cipher) /\ encrypt' = encrypt /\ plain' = plain /\ refused' = refused
    BY <1>6 DEF Crypto!Receive
  <2>2. /\ Head(cipher) \in Seq(Crypto!Bytes) /\ Tail(cipher) \in Seq(Seq(Crypto!Bytes))
        /\ Len(Tail(cipher)) = Len(cipher) - 1 /\ Len(cipher) # 0
    BY <1>1, <2>1, EmptySeq, HeadTailProperties
  <2>3. t.out \in Seq(Crypto!Bytes) /\ t.rc \in Rc \cup {Crypto!Off}
    BY <1>1, <2>2, ThroughTwice
  <2>4. ~refused => /\ t.out = plain[Len(received) + 1]
                    /\ Encrypted(Tail(cipher), plain, Len(received) + 1, t.rc, encrypt)
    BY <1>1, <1>2, <2>1, EncryptedShrinks
  <2> HIDE DEF t
  <2>5. /\ received' \in Seq(Seq(Crypto!Bytes)) /\ Len(received') = Len(received) + 1
        /\ received'[Len(received) + 1] = t.out
        /\ \A i \in 1..Len(received) : received'[i] = received[i]
    BY <1>1, <2>1, <2>3, AppendProperties
  <2>6. ASSUME ~refused'
        PROVE  /\ Len(plain') = Len(received') + Len(cipher')
               /\ \A i \in 1..Len(received') : received'[i] = plain'[i]
               /\ Encrypted(cipher', plain', Len(received'), decrypt', encrypt')
    <3>1. ~refused
      BY <2>1, <2>6
    <3>2. Len(plain') = Len(received') + Len(cipher')
      <4>1. Len(plain) = Len(received) + Len(cipher) /\ Len(plain') = Len(plain)
        BY <1>2, <2>1, <3>1
      <4>2. Len(received') = Len(received) + 1 /\ Len(cipher') = Len(cipher) - 1
        BY <2>1, <2>2, <2>5
      <4> QED
        BY <1>1, <4>1, <4>2
    <3>3. ASSUME NEW i \in 1..Len(received')
          PROVE  received'[i] = plain'[i]
      <4>1. i \in 1..Len(received) \/ i = Len(received) + 1
        BY <1>1, <2>5
      <4> QED
        BY <1>2, <2>1, <2>4, <2>5, <3>1, <4>1
    <3> QED
      BY <2>1, <2>4, <2>5, <3>1, <3>2, <3>3
  <2>7. Len(cipher') <= CipherMax
    BY <1>1, <2>1, <2>2, BytesAre
  <2> QED
    BY <1>1, <2>1, <2>2, <2>3, <2>5, <2>6, <2>7 DEF CryptoInv
<1>7. CASE Crypto!Disconnect
  BY <1>3, <1>7 DEF Crypto!Disconnect
<1>8. CASE UNCHANGED Crypto!vars
  BY <1>8 DEF Crypto!vars, CryptoInv
<1> QED
  BY <1>4, <1>5, <1>6, <1>7, <1>8 DEF Crypto!Next

(* What the invariant says of the messages and of the states.                 *)
LEMMA CryptoReads ==
  ASSUME CryptoInv
  PROVE  Crypto!ReadAsSent /\ Crypto!TypeOK
<1>1. /\ encrypt \in Rc \cup {Crypto!Off} /\ decrypt \in Rc \cup {Crypto!Off}
      /\ cipher \in Seq(Seq(Crypto!Bytes)) /\ Len(cipher) <= CipherMax
      /\ plain \in Seq(Texts) /\ Len(plain) <= PlainMax
      /\ received \in Seq(Seq(Crypto!Bytes)) /\ refused \in BOOLEAN
      /\ Len(cipher) \in Nat /\ Len(plain) \in Nat /\ Len(received) \in Nat
  BY LenProperties DEF CryptoInv
<1>2. ASSUME ~refused
      PROVE  received = SubSeq(plain, 1, Len(received))
  <2> DEFINE n == Len(received)
             p == SubSeq(plain, 1, n)
  <2>1. n \in 0..Len(plain) /\ \A i \in 1..n : received[i] = plain[i]
    BY <1>1, <1>2 DEF CryptoInv
  <2>2. Len(p) = n /\ p \in Seq(Texts) /\ \A i \in 1..n : p[i] = plain[i]
    BY <1>1, <2>1
  <2> HIDE DEF p
  <2>3. \A i \in 1..Len(received) : received[i] = p[i]
    BY <2>1, <2>2
  <2> QED
    BY <1>1, <2>2, <2>3, SeqEqual DEF p
<1>3. ASSUME NEW rc \in Rc
      PROVE  rc \in Crypto!Rc4 /\ Crypto!Permutes(rc)
  <2>1. {rc.s[b] : b \in Crypto!Bytes} = 0..(ByteValues - 1)
    BY BytesAre DEF Rc, Permuted
  <2>2. Cardinality(0..(ByteValues - 1)) = ByteValues
    BY BytesAre, FS_Interval
  <2>3. Crypto!Cardinality(0..(ByteValues - 1)) = Cardinality(0..(ByteValues - 1))
    BY DEF Crypto!Cardinality, Cardinality
  <2> QED
    BY <2>1, <2>2, <2>3 DEF Rc, Crypto!Permutes
<1>4. Texts \cup Seq(Crypto!Bytes) = Seq(Crypto!Bytes)
  BY BytesAre
<1> QED
  BY <1>1, <1>2, <1>3, <1>4 DEF Crypto!ReadAsSent, Crypto!TypeOK

-----------------------------------------------------------------------------
(* The clock. Its times are seconds, and the zone is added to them.           *)
ClockInv == now \in Nat /\ zone \in Int

(* On day d, at h:m and s seconds, as the zone has it.                        *)
Shown(time, d, h, m, s) ==
  /\ d \in Int /\ h \in 0..23 /\ m \in 0..59 /\ s \in 0..59
  /\ time + zone = 86400 * d + 3600 * h + 60 * m + s

(* Every time is shown as something,                                          *)
LEMMA ShownAs ==
  ASSUME zone \in Int, NEW time \in Int
  PROVE  \E d, h, m, s : Shown(time, d, h, m, s)
<1>1. PICK x \in Int : x = time + zone
  OBVIOUS
<1>2. PICK d, r : d = x \div 86400 /\ r = x % 86400
  OBVIOUS
<1>3. d \in Int /\ r \in Int /\ 0 <= r /\ r < 86400
  BY <1>2, SMT
<1>4. x = 86400 * d + r
  BY <1>2, SMT
<1>5. PICK h, q : h = r \div 3600 /\ q = r % 3600
  OBVIOUS
<1>6. h \in 0..23 /\ q \in Int /\ 0 <= q /\ q < 3600
  BY <1>3, <1>5, SMT
<1>7. r = 3600 * h + q
  BY <1>3, <1>5, SMT
<1>8. PICK m, s : m = q \div 60 /\ s = q % 60
  OBVIOUS
<1>9. m \in 0..59 /\ s \in 0..59
  BY <1>6, <1>8, SMT
<1>10. q = 60 * m + s
  BY <1>6, <1>8, SMT
<1>11. x = 86400 * d + 3600 * h + 60 * m + s
  BY <1>3, <1>4, <1>6, <1>7, <1>9, <1>10, SMT
<1>12. Shown(time, d, h, m, s)
  BY <1>1, <1>3, <1>6, <1>9, <1>11, SMT DEF Shown
<1> QED
  BY ONLY <1>12, Zenon

(* and a broken-down time is what is shown.                                   *)
LEMMA TmShown ==
  ASSUME zone \in Int, NEW time \in Int, NEW d, NEW h, NEW m, NEW s, Shown(time, d, h, m, s),
         NEW v, v = (d + 4) % 7
  PROVE  Clock!Tm(time) = [day |-> d, wday |-> v, hour |-> h, min |-> m, sec |-> s]
<1>1. PICK x \in Int : x = time + zone
  OBVIOUS
<1>2. d \in Int /\ h \in 0..23 /\ m \in 0..59 /\ s \in 0..59
      /\ x = 86400 * d + 3600 * h + 60 * m + s
  BY <1>1 DEF Shown
<1>3. x \div 86400 = d /\ x % 86400 = 3600 * h + 60 * m + s
  BY <1>2
<1>4. (3600 * h + 60 * m + s) \div 3600 = h
  BY <1>2
<1>5. x % 3600 = 60 * m + s
  BY <1>2
<1>6. (60 * m + s) \div 60 = m
  BY <1>2
<1>7. x % 60 = s
  BY <1>2
<1> QED
  BY <1>1, <1>3, <1>4, <1>5, <1>6, <1>7 DEF Clock!Tm, Clock!Day, Clock!Hour, Clock!Minute

(* For a moment, h:m is asked for; v is the day of its week, and b says       *)
(* whether the hour and minute are to come on that day.                       *)
Asked(time, d, h0, m0, s0, h, m, v, b) ==
  /\ zone \in Int /\ time \in Int /\ Shown(time, d, h0, m0, s0)
  /\ h \in 0..23 /\ m \in 0..59 /\ v = (d + 4) % 7
  /\ b \in BOOLEAN /\ (b <=> (h0 < h \/ (h0 = h /\ m0 < m)))

LEMMA AskedSo ==
  ASSUME zone \in Int, NEW time \in Int, NEW h \in 0..23, NEW m \in 0..59
  PROVE  \E d, h0, m0, s0, v, b : Asked(time, d, h0, m0, s0, h, m, v, b)
<1>1. PICK d, h0, m0, s0 : Shown(time, d, h0, m0, s0)
  BY ShownAs, Zenon
<1>2. PICK v : v = (d + 4) % 7
  BY Zenon
<1>3. PICK b \in BOOLEAN : b <=> (h0 < h \/ (h0 = h /\ m0 < m))
  BY Zenon
<1>4. Asked(time, d, h0, m0, s0, h, m, v, b)
  BY <1>1, <1>2, <1>3 DEF Asked
<1> QED
  BY ONLY <1>4, Zenon

(* The stamps of a moment, as shown.                                          *)
LEMMA OnTheHourShown ==
  ASSUME NEW time, NEW d, NEW h0, NEW m0, NEW s0, NEW h, NEW m, NEW v, NEW b,
         Asked(time, d, h0, m0, s0, h, m, v, b)
  PROVE  /\ Clock!OnTheHour(time, Clock!Tm(time), h, m) \in Int
         /\ Shown(Clock!OnTheHour(time, Clock!Tm(time), h, m), d, h, m, 0)
         /\ Clock!Before(Clock!Tm(time), h, m) <=> b
         /\ Clock!Tm(time).wday = v /\ v \in 0..6 /\ d \in Int
<1>0. /\ zone \in Int /\ time \in Int /\ Shown(time, d, h0, m0, s0) /\ h \in 0..23 /\ m \in 0..59
      /\ v = (d + 4) % 7 /\ b \in BOOLEAN /\ (b <=> (h0 < h \/ (h0 = h /\ m0 < m)))
  BY DEF Asked
<1>1. /\ d \in Int /\ h0 \in 0..23 /\ m0 \in 0..59 /\ s0 \in 0..59
      /\ time + zone = 86400 * d + 3600 * h0 + 60 * m0 + s0
  BY <1>0, SMT DEF Shown
<1>2. v \in 0..6
  BY <1>0, <1>1, SMT
<1>3. PICK tm : tm = [day |-> d, wday |-> v, hour |-> h0, min |-> m0, sec |-> s0]
  BY Zenon
<1>4. Clock!Tm(time) = tm
  BY <1>0, <1>3, TmShown
<1>5. Clock!Before(tm, h, m) <=> b
  BY <1>0, <1>3, SMT DEF Clock!Before
<1>6. PICK x : x = Clock!OnTheHour(time, tm, h, m)
  BY Zenon
<1>7. x = time - (h0 - h) * 3600 - (m0 - m) * 60 - s0
  BY <1>0, <1>3, <1>6, SMT DEF Clock!OnTheHour, Clock!Hour, Clock!Minute
<1>8. x \in Int
  BY <1>0, <1>1, <1>7, SMT
<1>9. x + zone = 86400 * d + 3600 * h + 60 * m
  BY <1>0, <1>1, <1>7, SMT
<1>10. Shown(x, d, h, m, 0)
  BY <1>0, <1>1, <1>8, <1>9, SMT DEF Shown
<1>11. tm.wday = v
  BY <1>0, <1>3, Zenon
<1> QED
  BY ONLY <1>0, <1>1, <1>2, <1>4, <1>5, <1>6, <1>8, <1>10, <1>11, SMT

(* A moment that is n days later is shown n days later.                       *)
LEMMA DaysLater ==
  ASSUME zone \in Int, NEW x \in Int, NEW d, NEW h, NEW m, NEW s, Shown(x, d, h, m, s),
         NEW n \in Int
  PROVE  x + n * Clock!Day \in Int /\ Shown(x + n * Clock!Day, d + n, h, m, s)
<1>1. PICK y : y = x + n * Clock!Day
  BY Zenon
<1>2. y \in Int /\ y = x + n * 86400
  BY <1>1, SMT DEF Clock!Day, Clock!Hour, Clock!Minute
<1>3. Shown(y, d + n, h, m, s)
  BY <1>2, SMT DEF Shown
<1> QED
  BY <1>1, <1>2, <1>3

(* The day of the stamp of a day, and that of a day w of the week.            *)
NextDay(d, b)        == IF b THEN d ELSE d + 1
NextWday(d, v, w, b) == IF v < w \/ (v = w /\ b) THEN d + w - v ELSE d + w - v + 7

LEMMA DayStampShown ==
  ASSUME NEW time, NEW d, NEW h0, NEW m0, NEW s0, NEW h, NEW m, NEW v, NEW b,
         Asked(time, d, h0, m0, s0, h, m, v, b)
  PROVE  /\ Clock!DayStamp64(time, h, m) \in Int
         /\ Shown(Clock!DayStamp64(time, h, m), NextDay(d, b), h, m, 0)
<1>1. PICK x : x = Clock!OnTheHour(time, Clock!Tm(time), h, m)
  BY Zenon
<1>2. /\ x \in Int /\ Shown(x, d, h, m, 0) /\ d \in Int /\ zone \in Int /\ b \in BOOLEAN
      /\ Clock!Before(Clock!Tm(time), h, m) <=> b
  <2>1. zone \in Int /\ b \in BOOLEAN
    BY DEF Asked
  <2> QED
    BY <1>1, <2>1, OnTheHourShown, Zenon
<1>3. PICK n : n = IF b THEN 0 ELSE 1
  BY Zenon
<1>4. n \in Int /\ NextDay(d, b) = d + n
      /\ x + n * Clock!Day = x + (IF b THEN 0 ELSE Clock!Day)
  BY <1>2, <1>3, SMT DEF NextDay, Clock!Day, Clock!Hour, Clock!Minute
<1>5. Clock!DayStamp64(time, h, m) = x + n * Clock!Day
  BY <1>1, <1>2, <1>4, Zenon DEF Clock!DayStamp64
<1>6. x + n * Clock!Day \in Int /\ Shown(x + n * Clock!Day, d + n, h, m, 0)
  BY ONLY <1>2, <1>4, DaysLater
<1> QED
  BY <1>4, <1>5, <1>6, Zenon

LEMMA WeekStampShown ==
  ASSUME NEW time, NEW d, NEW h0, NEW m0, NEW s0, NEW h, NEW m, NEW v, NEW b,
         Asked(time, d, h0, m0, s0, h, m, v, b),
         NEW w \in 0..6
  PROVE  /\ Clock!ThisWeekStamp64(time, w, h, m) \in Int
         /\ Shown(Clock!ThisWeekStamp64(time, w, h, m), d + w - v, h, m, 0)
         /\ Clock!WeekStamp64(time, w, h, m) \in Int
         /\ Shown(Clock!WeekStamp64(time, w, h, m), NextWday(d, v, w, b), h, m, 0)
         /\ Clock!WeekStamp64(time, w, h, m)
              \in {Clock!ThisWeekStamp64(time, w, h, m),
                   Clock!ThisWeekStamp64(time, w, h, m) + Clock!Week}
<1>1. PICK x : x = Clock!OnTheHour(time, Clock!Tm(time), h, m)
  BY Zenon
<1>2. /\ x \in Int /\ Shown(x, d, h, m, 0) /\ d \in Int /\ v \in 0..6
      /\ Clock!Before(Clock!Tm(time), h, m) <=> b
      /\ Clock!Tm(time).wday = v /\ zone \in Int /\ b \in BOOLEAN
  <2>1. zone \in Int /\ b \in BOOLEAN
    BY DEF Asked
  <2> QED
    BY <1>1, <2>1, OnTheHourShown, Zenon
<1>3. PICK y : y = Clock!ThisWeekStamp64(time, w, h, m)
  BY Zenon
<1>4. PICK n : n = w - v
  BY Zenon
<1>5. n \in Int /\ d + w - v = d + n /\ x - (v - w) * Clock!Day = x + n * Clock!Day
  BY <1>2, <1>4, SMT DEF Clock!Day, Clock!Hour, Clock!Minute
<1>6. y = x + n * Clock!Day
  BY <1>1, <1>2, <1>3, <1>5, Zenon DEF Clock!ThisWeekStamp64
<1>7. y \in Int /\ Shown(y, d + w - v, h, m, 0)
  BY <1>2, <1>5, <1>6, DaysLater, Zenon
<1>8. Clock!BeforeInWeek(Clock!Tm(time), w, h, m) <=> (v < w \/ (v = w /\ b))
  BY <1>2, Zenon DEF Clock!BeforeInWeek
<1>9. Clock!WeekStamp64(time, w, h, m) = y + (IF v < w \/ (v = w /\ b) THEN 0 ELSE Clock!Week)
  BY <1>3, <1>8, Zenon DEF Clock!WeekStamp64
<1>10. PICK k : k = IF v < w \/ (v = w /\ b) THEN 0 ELSE 7
  BY Zenon
<1>11. /\ k \in Int /\ NextWday(d, v, w, b) = d + w - v + k
       /\ y + k * Clock!Day = y + (IF v < w \/ (v = w /\ b) THEN 0 ELSE Clock!Week)
  BY <1>2, <1>7, <1>10, SMT DEF NextWday, Clock!Week, Clock!Day, Clock!Hour, Clock!Minute
<1>12. y + k * Clock!Day \in Int /\ Shown(y + k * Clock!Day, d + w - v + k, h, m, 0)
  BY ONLY <1>2, <1>7, <1>11, DaysLater
<1>13. y + k * Clock!Day \in {y, y + Clock!Week}
  BY <1>7, <1>11, SMT DEF Clock!Week, Clock!Day, Clock!Hour, Clock!Minute
<1> QED
  BY ONLY <1>3, <1>7, <1>9, <1>11, <1>12, <1>13, Zenon

(* The moments are in the order in which they are shown.                      *)
LEMMA InOrder ==
  ASSUME NEW t, NEW d, NEW h0, NEW m0, NEW s0, NEW h, NEW m, NEW v, NEW b,
         Asked(t, d, h0, m0, s0, h, m, v, b), NEW u \in Int, NEW e, Shown(u, e, h, m, 0)
  PROVE  /\ d < e \/ (d = e /\ b) => t < u
         /\ e < d + 1 \/ (e = d + 1 /\ ~b) => u <= t + Clock!Day
         /\ e < d + 7 \/ (e = d + 7 /\ ~b) => u <= t + Clock!Week
<1>0. /\ zone \in Int /\ t \in Int /\ Shown(t, d, h0, m0, s0) /\ h \in 0..23 /\ m \in 0..59
      /\ v = (d + 4) % 7 /\ b \in BOOLEAN /\ (b <=> (h0 < h \/ (h0 = h /\ m0 < m)))
  BY DEF Asked
<1>1. /\ d \in Int /\ h0 \in 0..23 /\ m0 \in 0..59 /\ s0 \in 0..59
      /\ t + zone = 86400 * d + 3600 * h0 + 60 * m0 + s0
  BY <1>0, SMT DEF Shown
<1>2. e \in Int /\ h \in 0..23 /\ m \in 0..59 /\ u + zone = 86400 * e + 3600 * h + 60 * m
  BY <1>0, SMT DEF Shown
<1>3. PICK c : c = 3600 * (h - h0) + 60 * (m - m0) - s0
  OBVIOUS
<1>4. /\ c \in Int /\ -86400 < c /\ c < 86400
      /\ b => 0 < c
      /\ ~b => c <= 0
  BY <1>0, <1>1, <1>2, <1>3, SMT
<1>5. u - t = 86400 * (e - d) + c
  BY <1>0, <1>1, <1>2, <1>3, SMT
<1>6. d < e \/ (d = e /\ b) => t < u
  BY <1>0, <1>1, <1>2, <1>4, <1>5, SMT
<1>7. e < d + 1 \/ (e = d + 1 /\ ~b) => u <= t + Clock!Day
  BY <1>0, <1>1, <1>2, <1>4, <1>5, SMT DEF Clock!Day, Clock!Hour, Clock!Minute
<1>8. e < d + 7 \/ (e = d + 7 /\ ~b) => u <= t + Clock!Week
  BY <1>0, <1>1, <1>2, <1>4, <1>5, SMT DEF Clock!Week, Clock!Day, Clock!Hour, Clock!Minute
<1> QED
  BY <1>0, <1>6, <1>7, <1>8, Zenon

LEMMA DaysInOrder ==
  ASSUME zone \in Int, NEW t \in Int, NEW u \in Int, NEW d, NEW e, NEW h, NEW m, NEW s,
         Shown(t, d, h, m, s), Shown(u, e, h, m, s)
  PROVE  (d = e => t = u) /\ (d <= e => t <= u)
<1>1. PICK x : x = 3600 * h + 60 * m + s
  OBVIOUS
<1>2. d \in Int /\ e \in Int /\ x \in Int /\ t + zone = 86400 * d + x /\ u + zone = 86400 * e + x
  BY <1>1, SMT DEF Shown
<1> QED
  BY <1>2, SMT

(* The stamp of a day is the next such moment.                                *)
LEMMA NextOfDayShown ==
  ASSUME zone \in Int, now \in Int, NEW h \in 0..23, NEW m \in 0..59
  PROVE  LET s == Clock!DayStamp64(now, h, m) IN
           /\ s \in Int /\ now < s /\ s <= now + Clock!Day
           /\ Clock!Tm(s).hour = h /\ Clock!Tm(s).min = m /\ Clock!Tm(s).sec = 0
           /\ Clock!TodayStamp64(now, h) \in Int
           /\ Clock!TodayStamp64(now, h)
                \in {Clock!DayStamp64(now, h, 0), Clock!DayStamp64(now, h, 0) - Clock!Day}
<1>1. PICK d, h0, m0, s0, v, b : Asked(now, d, h0, m0, s0, h, m, v, b)
  BY AskedSo, Zenon
<1>2. d \in Int /\ b \in BOOLEAN /\ Shown(now, d, h0, m0, s0) /\ v = (d + 4) % 7
  BY <1>1, SMT DEF Asked, Shown
<1>4. PICK e : e = NextDay(d, b)
  BY Zenon
<1>5. PICK s : s = Clock!DayStamp64(now, h, m)
  BY Zenon
<1>6. s \in Int /\ Shown(s, e, h, m, 0)
  BY <1>1, <1>4, <1>5, DayStampShown, Zenon
<1>8. (d < e \/ (d = e /\ b)) /\ (e < d + 1 \/ (e = d + 1 /\ ~b))
  BY <1>2, <1>4, SMT DEF NextDay
<1>9. now < s /\ s <= now + Clock!Day
  BY <1>1, <1>6, <1>8, InOrder
<1>10. PICK v1 : v1 = (e + 4) % 7
  BY Zenon
<1>11. Clock!Tm(s) = [day |-> e, wday |-> v1, hour |-> h, min |-> m, sec |-> 0]
  BY <1>6, <1>10, TmShown
<1>12. Clock!Tm(s).hour = h /\ Clock!Tm(s).min = m /\ Clock!Tm(s).sec = 0
  BY <1>11
<1>13. PICK x : x = Clock!OnTheHour(now, Clock!Tm(now), h, 0)
  BY Zenon
<1>15. 0 \in 0..59
  BY SMT
<1>14. PICK d1, h1, m1, s1, v2, b1 : Asked(now, d1, h1, m1, s1, h, 0, v2, b1)
  BY <1>15, AskedSo, Zenon
<1>16. x \in Int
  BY <1>13, <1>14, OnTheHourShown, Zenon
<1>17. Clock!TodayStamp64(now, h) = x
  BY <1>13, Zenon DEF Clock!TodayStamp64
<1>18. PICK y : y = Clock!DayStamp64(now, h, 0)
  BY Zenon
<1>19. y = x \/ y = x + 86400
  BY <1>13, <1>16, <1>18, SMT DEF Clock!DayStamp64, Clock!Day, Clock!Hour, Clock!Minute
<1>20. x \in {y, y - Clock!Day}
  BY <1>16, <1>19, SMT DEF Clock!Day, Clock!Hour, Clock!Minute
<1> QED
  BY <1>5, <1>6, <1>9, <1>12, <1>16, <1>17, <1>18, <1>20, Zenon

(* The week of a moment begins on the Sunday before.                          *)
LEMMA WeekBegins ==
  ASSUME zone \in Int, NEW time \in Int, NEW d, NEW h, NEW m, NEW s, Shown(time, d, h, m, s),
         NEW v, v = (d + 4) % 7
  PROVE  /\ Clock!ThisWeekStamp64(time, 0, 0, 0) \in Int
         /\ Shown(Clock!ThisWeekStamp64(time, 0, 0, 0), d - v, 0, 0, 0)
<1>1. d \in Int
  BY SMT DEF Shown
<1>2. PICK b \in BOOLEAN : b <=> (h < 0 \/ (h = 0 /\ m < 0))
  BY Zenon
<1>3. 0 \in 0..23 /\ 0 \in 0..59 /\ 0 \in 0..6 /\ d + 0 - v = d - v
  BY <1>1, SMT
<1>4. Asked(time, d, h, m, s, 0, 0, v, b)
  BY <1>2, <1>3, Zenon DEF Asked
<1>6. /\ Clock!ThisWeekStamp64(time, 0, 0, 0) \in Int
      /\ Shown(Clock!ThisWeekStamp64(time, 0, 0, 0), d + 0 - v, 0, 0, 0)
  BY <1>3, <1>4, WeekStampShown, Zenon
<1> QED
  BY <1>3, <1>6, Zenon

(* The stamps of the days of the week go with that of the day.                *)
LEMMA WeekMeetsDayShown ==
  ASSUME zone \in Int, now \in Int, NEW h \in 0..23, NEW m \in 0..59
  PROVE  /\ \E w \in 0..6 : Clock!WeekStamp64(now, w, h, m) = Clock!DayStamp64(now, h, m)
         /\ \A w \in 0..6 : LET s == Clock!WeekStamp64(now, w, h, m) IN
              /\ s \in Int /\ Clock!ThisWeekStamp64(now, w, h, m) \in Int
              /\ Clock!DayStamp64(now, h, m) <= s /\ s <= now + Clock!Week
              /\ Clock!Tm(s).wday = w
              /\ s \in {Clock!ThisWeekStamp64(now, w, h, m),
                        Clock!ThisWeekStamp64(now, w, h, m) + Clock!Week}
              /\ Clock!ThisWeekStamp64(Clock!ThisWeekStamp64(now, w, h, m), 0, 0, 0)
                   = Clock!ThisWeekStamp64(now, 0, 0, 0)
<1>1. PICK d, h0, m0, s0, v, b : Asked(now, d, h0, m0, s0, h, m, v, b)
  BY AskedSo, Zenon
<1>2. d \in Int /\ b \in BOOLEAN /\ Shown(now, d, h0, m0, s0) /\ v = (d + 4) % 7
  BY <1>1, SMT DEF Asked, Shown
<1>4. PICK t : t = Clock!DayStamp64(now, h, m)
  BY Zenon
<1>5. PICK e : e = NextDay(d, b)
  BY Zenon
<1>6. t \in Int /\ Shown(t, e, h, m, 0)
  BY <1>1, <1>4, <1>5, DayStampShown, Zenon
<1>8. v \in 0..6
  BY <1>2, SMT
<1>9. \E w \in 0..6 : Clock!WeekStamp64(now, w, h, m) = t
  <2>1. PICK w : w = IF b THEN v ELSE IF v = 6 THEN 0 ELSE v + 1
    BY Zenon
  <2>2. w \in 0..6
    BY <1>8, <2>1, SMT
  <2>3. PICK s : s = Clock!WeekStamp64(now, w, h, m)
    BY Zenon
  <2>4. PICK f : f = NextWday(d, v, w, b)
    BY Zenon
  <2>5. s \in Int /\ Shown(s, f, h, m, 0)
    BY <1>1, <2>2, <2>3, <2>4, WeekStampShown, Zenon
  <2>6. f = e
    BY <1>2, <1>5, <1>8, <2>1, <2>4, SMT DEF NextDay, NextWday
  <2>7. s = t
    BY <1>6, <2>5, <2>6, DaysInOrder, Zenon
  <2> QED
    BY <2>2, <2>3, <2>7, Zenon
<1>10. ASSUME NEW w \in 0..6
       PROVE  LET s == Clock!WeekStamp64(now, w, h, m) IN
                /\ s \in Int /\ Clock!ThisWeekStamp64(now, w, h, m) \in Int
                /\ t <= s /\ s <= now + Clock!Week
                /\ Clock!Tm(s).wday = w
                /\ s \in {Clock!ThisWeekStamp64(now, w, h, m),
                          Clock!ThisWeekStamp64(now, w, h, m) + Clock!Week}
                /\ Clock!ThisWeekStamp64(Clock!ThisWeekStamp64(now, w, h, m), 0, 0, 0)
                     = Clock!ThisWeekStamp64(now, 0, 0, 0)
  <2>1. PICK s : s = Clock!WeekStamp64(now, w, h, m)
    BY Zenon
  <2>2. PICK u : u = Clock!ThisWeekStamp64(now, w, h, m)
    BY Zenon
  <2>3. PICK f : f = NextWday(d, v, w, b)
    BY Zenon
  <2>4. PICK g : g = d + w - v
    BY Zenon
  <2>5. /\ u \in Int /\ Shown(u, g, h, m, 0) /\ s \in Int /\ Shown(s, f, h, m, 0)
        /\ s \in {u, u + Clock!Week}
    BY <1>1, <2>1, <2>2, <2>3, <2>4, WeekStampShown, Zenon
  <2>7. PICK k : k = (d + 4) \div 7
    BY Zenon
  <2>8. k \in Int /\ d + 4 = 7 * k + v
    BY <1>2, <2>7, SMT
  <2>9. g \in Int /\ (g + 4) % 7 = w
    <3>1. g + 4 = 7 * k + w
      BY <1>2, <1>8, <2>4, <2>8, SMT
    <3>2. g \in Int
      BY <1>2, <1>8, <2>4, SMT
    <3> QED
      BY <2>8, <3>1, <3>2, SMT
  <2>10. f \in Int /\ (f + 4) % 7 = w
    <3>1. f = g \/ f = g + 7
      BY <2>3, <2>4, Zenon DEF NextWday
    <3> QED
      BY <2>9, <3>1, SMT
  <2>11. Clock!Tm(s) = [day |-> f, wday |-> w, hour |-> h, min |-> m, sec |-> 0]
    BY <2>5, <2>10, TmShown
  <2>12. Clock!Tm(s).wday = w
    BY <2>11
  <2>13. e <= f
    BY <1>2, <1>5, <1>8, <2>3, SMT DEF NextDay, NextWday
  <2>14. t <= s
    BY <1>6, <2>5, <2>13, DaysInOrder, Zenon
  <2>15. f < d + 7 \/ (f = d + 7 /\ ~b)
    BY <1>2, <1>8, <2>3, SMT DEF NextWday
  <2>16. s <= now + Clock!Week
    BY ONLY <1>1, <2>5, <2>15, InOrder
  <2>17. /\ Clock!ThisWeekStamp64(u, 0, 0, 0) \in Int
         /\ Shown(Clock!ThisWeekStamp64(u, 0, 0, 0), g - w, 0, 0, 0)
    BY <2>5, <2>9, WeekBegins, Zenon
  <2>18. /\ Clock!ThisWeekStamp64(now, 0, 0, 0) \in Int
         /\ Shown(Clock!ThisWeekStamp64(now, 0, 0, 0), d - v, 0, 0, 0)
    BY <1>2, WeekBegins, Zenon
  <2>19. g - w = d - v
    BY <1>2, <1>8, <2>4, SMT
  <2>20. Clock!ThisWeekStamp64(u, 0, 0, 0) = Clock!ThisWeekStamp64(now, 0, 0, 0)
    BY <2>17, <2>18, <2>19, DaysInOrder, Zenon
  <2> QED
    BY <2>1, <2>2, <2>5, <2>12, <2>14, <2>16, <2>20, Zenon
<1> QED
  BY <1>4, <1>9, <1>10, Zenon

(* An int keeps what it can hold, and k more or less of what it cannot, where *)
(* k is the number of its values; so much is asked of it as a sum of two or   *)
(* a difference of times makes.                                               *)
Holds32(n) == -IntMax - 1 <= n /\ n <= IntMax

LEMMA KeptBy ==
  ASSUME IntMax \in Nat, NEW k \in Nat, k = 2 * (IntMax + 1), NEW n \in Int, 0 <= n + 2 * k, n < k
  PROVE  /\ Clock!Int32(n) \in Int /\ Holds32(Clock!Int32(n))
         /\ Clock!Int32(n) \in {n - k, n, n + k, n + 2 * k}
<1>1. PICK r : r = n % k
  BY Zenon
<1>2. r \in 0..(k - 1) /\ r \in {n, n + k, n + 2 * k}
  <2>1. CASE 0 <= n
    BY <1>1, <2>1, SMT
  <2>2. CASE -k <= n /\ n < 0
    BY <1>1, <2>2, SMT
  <2>3. CASE n < -k
    BY <1>1, <2>3, SMT
  <2> QED
    BY <2>1, <2>2, <2>3, SMT
<1>3. Clock!Int32(n) = IF r <= IntMax THEN r ELSE r - k
  BY <1>1, Zenon DEF Clock!Int32, Clock!Ints
<1>4. PICK i : i = Clock!Int32(n)
  BY Zenon
<1>5. i = IF r <= IntMax THEN r ELSE r - k
  BY <1>3, <1>4, Zenon
<1>6. i \in Int /\ Holds32(i) /\ i \in {n - k, n, n + k, n + 2 * k}
  BY <1>2, <1>5, SMT DEF Holds32
<1> QED
  BY <1>4, <1>6, Zenon

LEMMA HeldBy ==
  ASSUME IntMax \in Nat, NEW n \in Int, Holds32(n)
  PROVE  Clock!Int32(n) = n
<1>1. PICK k : k = 2 * (IntMax + 1)
  OBVIOUS
<1>2. k \in Nat /\ 0 <= n + 2 * k /\ n < k
  BY <1>1, SMT DEF Holds32
<1>3. PICK i : i = Clock!Int32(n)
  BY Zenon
<1>4. i \in Int /\ Holds32(i) /\ i \in {n - k, n, n + k, n + 2 * k}
  BY <1>1, <1>2, <1>3, KeptBy, Zenon
<1>5. i = n
  BY <1>1, <1>4, SMT DEF Holds32
<1> QED
  BY <1>3, <1>5, Zenon

LEMMA ThroughInt ==
  ASSUME IntMax \in Nat, NEW t \in Int, Clock!Fits(t)
  PROVE  Clock!Time32(t) = t - Clock!BaseTime
<1>1. t - Clock!BaseTime \in Int /\ Holds32(t - Clock!BaseTime)
  BY SMT DEF Clock!Fits, Clock!BaseTime, Holds32
<1> QED
  BY <1>1, HeldBy, Zenon DEF Clock!Time32

(* Until 2038 a time comes back from 32 bits, and after it the one that lies  *)
(* all the values of an int before it does.                                   *)
LEMMA ThereAndBack ==
  ASSUME IntMax \in Nat, Clock!BaseTime <= IntMax, now \in Nat, Clock!Fits(now)
  PROVE  /\ now <= IntMax => Clock!Time64(Clock!Time32(now)) = now
         /\ ~(now <= IntMax) => Clock!Time64(Clock!Time32(now)) = now - 2 * (IntMax + 1)
<1>1. Clock!Time32(now) = now - Clock!BaseTime
  BY ThroughInt
<1>2. PICK k : k = 2 * (IntMax + 1)
  OBVIOUS
<1>3. /\ k \in Nat /\ now < k /\ now \in Int
      /\ Clock!BaseTime + (now - Clock!BaseTime) = now
  BY <1>2, SMT DEF Clock!Fits, Clock!BaseTime
<1>4. PICK i : i = Clock!Int32(now)
  BY Zenon
<1>5. 0 <= now + 2 * k
  BY <1>3, SMT
<1>6. i \in Int /\ Holds32(i) /\ i \in {now - k, now, now + k, now + 2 * k}
  BY <1>2, <1>3, <1>4, <1>5, KeptBy, Zenon
<1>7. (now <= IntMax => i = now) /\ (~(now <= IntMax) => i = now - k)
  BY <1>2, <1>3, <1>6, SMT DEF Holds32
<1> QED
  BY <1>1, <1>2, <1>3, <1>4, <1>7, Zenon DEF Clock!Time64

(* u is a moment at h:m and not far from time.                                *)
EightDays == 691200

CloseTo(time, u, h, m) ==
  /\ u \in Int /\ time - EightDays <= u /\ u <= time + EightDays
  /\ \E e : Shown(u, e, h, m, 0)

LEMMA ShownClose ==
  ASSUME zone \in Int, NEW time \in Int, NEW u \in Int, NEW d, NEW h0, NEW m0, NEW s0,
         NEW e, NEW h, NEW m, Shown(time, d, h0, m0, s0), Shown(u, e, h, m, 0), d - 6 <= e, e <= d + 7
  PROVE  CloseTo(time, u, h, m)
<1>1. d \in Int /\ h0 \in 0..23 /\ m0 \in 0..59 /\ s0 \in 0..59
      /\ time + zone = 86400 * d + 3600 * h0 + 60 * m0 + s0
  BY SMT DEF Shown
<1>2. e \in Int /\ h \in 0..23 /\ m \in 0..59 /\ u + zone = 86400 * e + 3600 * h + 60 * m
  BY SMT DEF Shown
<1>3. time - EightDays <= u /\ u <= time + EightDays
  BY <1>1, <1>2, SMT DEF EightDays
<1> QED
  BY <1>3, Zenon DEF CloseTo

LEMMA StampsClose ==
  ASSUME zone \in Int, NEW time \in Int, NEW h \in 0..23, NEW m \in 0..59
  PROVE  /\ CloseTo(time, Clock!DayStamp64(time, h, m), h, m)
         /\ \A w \in 0..6 : /\ CloseTo(time, Clock!WeekStamp64(time, w, h, m), h, m)
                            /\ CloseTo(time, Clock!ThisWeekStamp64(time, w, h, m), h, m)
<1>1. PICK d, h0, m0, s0, v, b : Asked(time, d, h0, m0, s0, h, m, v, b)
  BY AskedSo, Zenon
<1>2. Shown(time, d, h0, m0, s0) /\ v = (d + 4) % 7 /\ b \in BOOLEAN
  BY <1>1 DEF Asked
<1>3. d \in Int
  BY <1>2, SMT DEF Shown
<1>4. v \in 0..6
  BY <1>2, <1>3, SMT
<1>5. PICK e : e = NextDay(d, b)
  BY Zenon
<1>6. d - 6 <= e /\ e <= d + 7
  BY <1>2, <1>3, <1>5, SMT DEF NextDay
<1>7. Clock!DayStamp64(time, h, m) \in Int /\ Shown(Clock!DayStamp64(time, h, m), e, h, m, 0)
  BY <1>1, <1>5, DayStampShown, Zenon
<1>8. CloseTo(time, Clock!DayStamp64(time, h, m), h, m)
  BY <1>2, <1>6, <1>7, ShownClose, Zenon
<1>9. ASSUME NEW w \in 0..6
      PROVE  /\ CloseTo(time, Clock!WeekStamp64(time, w, h, m), h, m)
             /\ CloseTo(time, Clock!ThisWeekStamp64(time, w, h, m), h, m)
  <2>1. PICK f : f = NextWday(d, v, w, b)
    BY Zenon
  <2>2. PICK g : g = d + w - v
    BY Zenon
  <2>3. d - 6 <= f /\ f <= d + 7 /\ d - 6 <= g /\ g <= d + 7
    BY <1>2, <1>3, <1>4, <2>1, <2>2, SMT DEF NextWday
  <2>4. /\ Clock!WeekStamp64(time, w, h, m) \in Int
        /\ Shown(Clock!WeekStamp64(time, w, h, m), f, h, m, 0)
        /\ Clock!ThisWeekStamp64(time, w, h, m) \in Int
        /\ Shown(Clock!ThisWeekStamp64(time, w, h, m), g, h, m, 0)
    BY <1>1, <2>1, <2>2, WeekStampShown, Zenon
  <2>5. CloseTo(time, Clock!WeekStamp64(time, w, h, m), h, m)
    BY <1>2, <2>3, <2>4, ShownClose, Zenon
  <2>6. CloseTo(time, Clock!ThisWeekStamp64(time, w, h, m), h, m)
    BY <1>2, <2>3, <2>4, ShownClose, Zenon
  <2> QED
    BY <2>5, <2>6
<1> QED
  BY <1>8, <1>9

(* A stamp that was made of a time an int does not hold is not the one asked  *)
(* for: it would lie all the values of an int before it, and these are no     *)
(* whole days.                                                                *)
LongInt ==
  IntMax \in Nat /\ Clock!BaseTime <= IntMax /\ (2 * (IntMax + 1)) % Clock!Day # 0

LEMMA OutOfDay ==
  ASSUME ClockInv, LongInt, Clock!Fits(now), now > IntMax, NEW h, NEW m,
         NEW t, CloseTo(now - 2 * (IntMax + 1), t, h, m), NEW u, CloseTo(now, u, h, m)
  PROVE  Clock!Time32(t) # u - Clock!BaseTime
<1>0. IntMax \in Nat /\ now \in Nat /\ zone \in Int
  BY Zenon DEF LongInt, ClockInv
<1>1. PICK k : k = 2 * (IntMax + 1)
  OBVIOUS
<1>2. PICK base : base = Clock!BaseTime
  BY Zenon
<1>3. /\ k \in Nat /\ base \in Nat /\ base <= IntMax
      /\ EightDays \in Nat /\ 2 * EightDays < base
  BY <1>1, <1>2, SMT DEF LongInt, Clock!BaseTime, EightDays
<1>4. /\ t \in Int /\ now - k - EightDays <= t /\ t <= now - k + EightDays
      /\ u \in Int /\ now - EightDays <= u /\ u <= now + EightDays
  BY <1>1, Zenon DEF CloseTo
<1>5. PICK d : Shown(t, d, h, m, 0)
  BY Zenon DEF CloseTo
<1>6. PICK e : Shown(u, e, h, m, 0)
  BY Zenon DEF CloseTo
<1>7. d \in Int /\ e \in Int /\ u - t = 86400 * (e - d)
  BY <1>0, <1>4, <1>5, <1>6, SMT DEF Shown
<1>8. u - t # k
  BY <1>1, <1>3, <1>7, SMT DEF LongInt, Clock!Day, Clock!Hour, Clock!Minute
<1>9. PICK n : n = t - base
  BY Zenon
<1>10. now <= IntMax + base
  BY <1>0, <1>2, <1>3, SMT DEF Clock!Fits
<1>11. n \in Int /\ 0 <= n + 2 * k /\ n < k
  BY <1>0, <1>1, <1>3, <1>4, <1>9, <1>10, SMT
<1>12. PICK i : i = Clock!Int32(n)
  OBVIOUS
<1>13. i \in {n - k, n, n + k, n + 2 * k}
  BY ONLY <1>0, <1>1, <1>3, <1>11, <1>12, KeptBy, Zenon
<1>14. i # u - base
  BY <1>0, <1>1, <1>3, <1>4, <1>8, <1>9, <1>13, SMT
<1> QED
  BY <1>2, <1>9, <1>12, <1>14, Zenon DEF Clock!Time32

(* The stamps of 32 bits are those of 64 until then, and not after it.        *)
StampOf(time, t, u, h, m) ==
  /\ time = Clock!Time64(Clock!Time32(now))
  /\ CloseTo(time, t, h, m) /\ CloseTo(now, u, h, m)
  /\ time = now => t = u

LEMMA RightUntilShown ==
  ASSUME ClockInv, LongInt, Clock!Fits(now),
         NEW h, NEW m, NEW time, NEW t, NEW u, StampOf(time, t, u, h, m)
  PROVE  Clock!RightUntil2038(Clock!Time32(t), u)
<1> USE DEF StampOf
<1>0. IntMax \in Nat /\ Clock!BaseTime <= IntMax /\ now \in Nat
  BY Zenon DEF LongInt, ClockInv
<1>1. (now <= IntMax => time = now) /\ (~(now <= IntMax) => time = now - 2 * (IntMax + 1))
  BY <1>0, ThereAndBack, Zenon
<1>2. CASE now <= IntMax
  <2>1. t = u /\ u \in Int
    BY <1>1, <1>2, Zenon DEF CloseTo
  <2>2. Clock!Fits(u) => Clock!Time32(u) = u - Clock!BaseTime
    BY <1>0, <2>1, ThroughInt, Zenon
  <2> QED
    BY <1>2, <2>1, <2>2, Zenon DEF Clock!RightUntil2038
<1>3. CASE ~(now <= IntMax)
  <2>1. now > IntMax /\ CloseTo(now - 2 * (IntMax + 1), t, h, m)
    BY <1>0, <1>1, <1>3, SMT
  <2>2. Clock!Time32(t) # u - Clock!BaseTime
    BY <2>1, OutOfDay, Zenon
  <2> QED
    BY <1>3, <2>2, Zenon DEF Clock!RightUntil2038
<1> QED
  BY <1>2, <1>3, Zenon

LEMMA StampsAgreeShown ==
  ASSUME ClockInv, LongInt, Clock!Fits(now), NEW h \in 0..23, NEW m \in 0..59
  PROVE  /\ Clock!Fits(Clock!TodayStamp64(now, h))
              => Clock!TodayStamp(now, h) = Clock!TodayStamp64(now, h) - Clock!BaseTime
         /\ Clock!RightUntil2038(Clock!DayStamp(Clock!Time32(now), h, m), Clock!DayStamp64(now, h, m))
         /\ \A w \in 0..6 :
              /\ Clock!RightUntil2038(Clock!WeekStamp(Clock!Time32(now), w, h, m),
                                      Clock!WeekStamp64(now, w, h, m))
              /\ Clock!RightUntil2038(Clock!ThisWeekStamp(Clock!Time32(now), w, h, m),
                                      Clock!ThisWeekStamp64(now, w, h, m))
<1>0. IntMax \in Nat /\ Clock!BaseTime <= IntMax
  BY Zenon DEF LongInt
<1>1. zone \in Int /\ now \in Nat /\ now \in Int
  BY DEF ClockInv
<1>2. PICK time : time = Clock!Time64(Clock!Time32(now))
  BY Zenon
<1>3. (now <= IntMax => time = now) /\ (~(now <= IntMax) => time = now - 2 * (IntMax + 1))
  BY <1>0, <1>1, <1>2, ThereAndBack, Zenon
<1>4. time \in Int
  BY <1>0, <1>1, <1>3, SMT
<1>5. Clock!TodayStamp64(now, h) \in Int
  BY <1>1, NextOfDayShown, Zenon
<1>6. Clock!Fits(Clock!TodayStamp64(now, h))
        => Clock!TodayStamp(now, h) = Clock!TodayStamp64(now, h) - Clock!BaseTime
  BY <1>0, <1>5, ThroughInt, Zenon DEF Clock!TodayStamp
<1>7. Clock!RightUntil2038(Clock!DayStamp(Clock!Time32(now), h, m), Clock!DayStamp64(now, h, m))
  <2>1. PICK t : t = Clock!DayStamp64(time, h, m)
    BY Zenon
  <2>2. PICK u : u = Clock!DayStamp64(now, h, m)
    BY Zenon
  <2>3. CloseTo(time, t, h, m) /\ CloseTo(now, u, h, m)
    BY <1>1, <1>4, <2>1, <2>2, StampsClose, Zenon
  <2>4. time = now => t = u
    BY <2>1, <2>2, Zenon
  <2>5. Clock!RightUntil2038(Clock!Time32(t), u)
    <3>1. StampOf(time, t, u, h, m)
      BY <1>2, <2>3, <2>4, Zenon DEF StampOf
    <3> QED
      BY <3>1, RightUntilShown, Zenon
  <2> QED
    BY <1>2, <2>1, <2>2, <2>5, Zenon DEF Clock!DayStamp
<1>8. ASSUME NEW w \in 0..6
      PROVE  Clock!RightUntil2038(Clock!WeekStamp(Clock!Time32(now), w, h, m),
                                  Clock!WeekStamp64(now, w, h, m))
  <2>1. PICK t : t = Clock!WeekStamp64(time, w, h, m)
    BY Zenon
  <2>2. PICK u : u = Clock!WeekStamp64(now, w, h, m)
    BY Zenon
  <2>3. CloseTo(time, t, h, m) /\ CloseTo(now, u, h, m)
    BY <1>1, <1>4, <2>1, <2>2, StampsClose, Zenon
  <2>4. time = now => t = u
    BY <2>1, <2>2, Zenon
  <2>5. Clock!RightUntil2038(Clock!Time32(t), u)
    <3>1. StampOf(time, t, u, h, m)
      BY <1>2, <2>3, <2>4, Zenon DEF StampOf
    <3> QED
      BY <3>1, RightUntilShown, Zenon
  <2> QED
    BY <1>2, <2>1, <2>2, <2>5, Zenon DEF Clock!WeekStamp
<1>9. ASSUME NEW w \in 0..6
      PROVE  Clock!RightUntil2038(Clock!ThisWeekStamp(Clock!Time32(now), w, h, m),
                                  Clock!ThisWeekStamp64(now, w, h, m))
  <2>1. PICK t : t = Clock!ThisWeekStamp64(time, w, h, m)
    BY Zenon
  <2>2. PICK u : u = Clock!ThisWeekStamp64(now, w, h, m)
    BY Zenon
  <2>3. CloseTo(time, t, h, m) /\ CloseTo(now, u, h, m)
    BY <1>1, <1>4, <2>1, <2>2, StampsClose, Zenon
  <2>4. time = now => t = u
    BY <2>1, <2>2, Zenon
  <2>5. Clock!RightUntil2038(Clock!Time32(t), u)
    <3>1. StampOf(time, t, u, h, m)
      BY <1>2, <2>3, <2>4, Zenon DEF StampOf
    <3> QED
      BY <3>1, RightUntilShown, Zenon
  <2> QED
    BY <1>2, <2>1, <2>2, <2>5, Zenon DEF Clock!ThisWeekStamp
<1> QED
  BY <1>6, <1>7, <1>8, <1>9, Zenon

(* A broken-down time goes back to its time but for the zone and TZ.          *)
LEMMA TmGoesBackShown ==
  ASSUME ClockInv, IntMax \in Nat, Clock!BaseTime <= IntMax, Local \in Int, now <= IntMax,
         Clock!Fits(now + 2 * zone - Local)
  PROVE  Clock!TmToTime32(Clock!Tm32(Clock!Time32(now))) = Clock!Time32(now) <=> Local = 2 * zone
<1>0. zone \in Int /\ now \in Nat /\ Clock!Fits(now)
  BY SMT DEF ClockInv, Clock!Fits, Clock!BaseTime
<1>1. zone \in Int /\ now \in Int
  BY <1>0
<1>2. Clock!Time64(Clock!Time32(now)) = now /\ Clock!Time32(now) = now - Clock!BaseTime
  BY <1>0, <1>1, ThroughInt, ThereAndBack, Zenon
<1>3. PICK d, h, m, s : Shown(now, d, h, m, s)
  BY <1>1, ShownAs, Zenon
<1>4. PICK v : v = (d + 4) % 7
  BY Zenon
<1>5. PICK tm : tm = Clock!Tm(now)
  BY Zenon
<1>6. tm = [day |-> d, wday |-> v, hour |-> h, min |-> m, sec |-> s]
  BY ONLY <1>1, <1>3, <1>4, <1>5, TmShown
<1>7. tm.day = d /\ tm.hour = h /\ tm.min = m /\ tm.sec = s
  BY <1>6, SMT
<1>8. /\ d \in Int /\ h \in 0..23 /\ m \in 0..59 /\ s \in 0..59
      /\ now + zone = 86400 * d + 3600 * h + 60 * m + s
  BY <1>3, SMT DEF Shown
<1>9. PICK t : t = now + 2 * zone - Local
  BY Zenon
<1>10. t \in Int
  BY <1>1, <1>9, SMT
<1>11. Clock!TmToTime(tm) = d * 86400 + h * 3600 + m * 60 + s - Local + zone
  BY <1>7, SMT DEF Clock!TmToTime, Clock!MkTime, Clock!Day, Clock!Hour, Clock!Minute
<1>12. Clock!TmToTime(tm) = t
  BY <1>1, <1>8, <1>9, <1>11, SMT
<1>13. Clock!Fits(t)
  BY <1>9, Zenon
<1>14. Clock!Time32(t) = t - Clock!BaseTime
  BY <1>10, <1>13, ThroughInt, Zenon
<1>15. Clock!TmToTime32(Clock!Tm32(Clock!Time32(now))) = t - Clock!BaseTime
  BY <1>2, <1>5, <1>12, <1>14, Zenon DEF Clock!TmToTime32, Clock!Tm32
<1>16. t - Clock!BaseTime = now - Clock!BaseTime <=> Local = 2 * zone
  BY <1>1, <1>9, SMT DEF Clock!BaseTime
<1> QED
  BY <1>2, <1>15, <1>16, Zenon

(* The properties of the clock.                                               *)
LEMMA ClockShows ==
  ClockInv => Clock!NextOfDay /\ Clock!WeekMeetsDay /\ Clock!StampsAgree /\ Clock!TmGoesBack
<1> SUFFICES ASSUME ClockInv
             PROVE  Clock!NextOfDay /\ Clock!WeekMeetsDay /\ Clock!StampsAgree /\ Clock!TmGoesBack
  OBVIOUS
<1>1. zone \in Int /\ now \in Int
  BY DEF ClockInv
<1>2. /\ Hours \subseteq 0..23 /\ Minutes \subseteq 0..59 /\ Local \in Int
      /\ IntMax \in Nat /\ Clock!BaseTime <= IntMax /\ LongInt
  BY PartsAssumption, Zenon DEF Clock!TimeStampsAssumption, LongInt
<1>3. Clock!NextOfDay
  BY <1>1, <1>2, NextOfDayShown, Zenon DEF Clock!NextOfDay
<1>4. Clock!Wdays = 0..6
  BY DEF Clock!Wdays
<1>5. Clock!WeekMeetsDay
  <2>1. 0 \in 0..6
    BY SMT
  <2> QED
    BY <1>1, <1>2, <1>4, <2>1, WeekMeetsDayShown, Zenon DEF Clock!WeekMeetsDay, Clock!ThisWeeksDay
<1>6. Clock!StampsAgree
  <2>1. Clock!Fits(now) => (Clock!Time64(Clock!Time32(now)) = now <=> now <= IntMax)
    <3>1. now \in Nat /\ now - 2 * (IntMax + 1) # now
      BY <1>2, SMT DEF ClockInv
    <3> QED
      BY <1>2, <3>1, ThereAndBack, Zenon
  <2> QED
    BY <1>2, <1>4, <2>1, StampsAgreeShown, Zenon DEF Clock!StampsAgree
<1>7. Clock!TmGoesBack
  BY <1>2, TmGoesBackShown, Zenon DEF Clock!TmGoesBack
<1> QED
  BY <1>3, <1>5, <1>6, <1>7, Zenon

(* The invariant of the clock holds at first and is kept.                     *)
LEMMA ClockStarts == Clock!Init => ClockInv
<1> SUFFICES ASSUME Clock!Init
             PROVE  ClockInv
  OBVIOUS
<1>1. Times \subseteq Nat /\ Zones \subseteq -11..11
  BY PartsAssumption, Zenon DEF Clock!TimeStampsAssumption
<1>2. now \in Nat
  BY <1>1, Zenon DEF Clock!Init
<1>3. zone \in Int
  BY <1>1, SMT DEF Clock!Init, Clock!Hour, Clock!Minute
<1> QED
  BY <1>2, <1>3 DEF ClockInv

LEMMA ClockStep == ClockInv /\ (UNCHANGED clockVars \/ Clock!Next) => ClockInv'
<1> SUFFICES ASSUME ClockInv, UNCHANGED clockVars \/ Clock!Next
             PROVE  ClockInv'
  OBVIOUS
<1>1. Times \subseteq Nat /\ Zones \subseteq -11..11
  BY PartsAssumption, Zenon DEF Clock!TimeStampsAssumption
<1>2. CASE UNCHANGED clockVars
  BY <1>2, SMT DEF clockVars, ClockInv
<1>3. CASE Clock!TimePasses
  <2>1. now' \in Times /\ zone' = zone
    BY <1>3, Zenon DEF Clock!TimePasses
  <2>2. now' \in Nat
    BY <1>1, <2>1, Zenon
  <2> QED
    BY <2>1, <2>2 DEF ClockInv
<1>4. CASE Clock!SetTimeZone
  <2>1. zone' \in Int /\ now' = now
    BY <1>1, <1>4, SMT DEF Clock!SetTimeZone, Clock!Hour, Clock!Minute
  <2> QED
    BY <2>1 DEF ClockInv
<1> QED
  BY <1>2, <1>3, <1>4 DEF Clock!Next

-----------------------------------------------------------------------------
(* MD5. Division with a rest, for any divisor.                                *)
LEMMA Division ==
  ASSUME NEW m \in Nat \ {0}, NEW a \in Nat
  PROVE  a \div m \in Nat /\ a % m \in 0..(m - 1) /\ a = m * (a \div m) + (a % m)
<1>1. a % m \in 0..(m - 1)
  BY SMT
<1>2. a \div m \in Nat
  BY SMT
<1>3. a = m * (a \div m) + (a % m)
  BY SMT
<1> QED
  BY <1>1, <1>2, <1>3

LEMMA DivisionOnce ==
  ASSUME NEW m \in Nat \ {0}, NEW q \in Int, NEW p \in Int, NEW r \in 0..(m - 1), NEW s \in 0..(m - 1),
         m * q + r = m * p + s
  PROVE  q = p /\ r = s
<1>1. m * (q - p) = s - r
  BY SMT
<1>2. ~(q < p)
  <2> SUFFICES ASSUME q < p
               PROVE  FALSE
    OBVIOUS
  <2>1. m * (p - q) >= m
    BY SMT
  <2> QED
    BY <1>1, <2>1, SMT
<1>3. ~(p < q)
  <2> SUFFICES ASSUME p < q
               PROVE  FALSE
    OBVIOUS
  <2>1. m * (q - p) >= m
    BY SMT
  <2> QED
    BY <1>1, <2>1, SMT
<1> QED
  BY <1>2, <1>3, SMT

LEMMA Quotient ==
  ASSUME NEW m \in Nat \ {0}, NEW a \in Nat, NEW q \in Int, NEW r \in 0..(m - 1), a = m * q + r
  PROVE  a \div m = q /\ a % m = r
<1>1. PICK p, s : p = a \div m /\ s = a % m
  BY Zenon
<1>2. p \in Nat /\ s \in 0..(m - 1) /\ a = m * p + s
  BY <1>1, Division, Zenon
<1>3. p \in Int /\ q \in Int /\ m * p + s = m * q + r
  BY <1>2, SMT
<1>4. p = q /\ s = r
  BY <1>2, <1>3, DivisionOnce
<1> QED
  BY <1>1, <1>4, Zenon

LEMMA ModPlus ==
  ASSUME NEW m \in Nat \ {0}, NEW a \in Nat, NEW b \in Nat
  PROVE  ((a % m) + b) % m = (a + b) % m
<1>1. PICK p, r : p = a \div m /\ r = a % m
  BY Zenon
<1>2. p \in Nat /\ r \in 0..(m - 1) /\ a = m * p + r
  BY <1>1, Division, Zenon
<1>3. PICK q, s : q = (r + b) \div m /\ s = (r + b) % m
  BY Zenon
<1>4. r + b \in Nat
  BY <1>2, SMT
<1>5. q \in Nat /\ s \in 0..(m - 1) /\ r + b = m * q + s
  BY <1>3, <1>4, Division, Zenon
<1>6. a + b = m * (p + q) + s /\ p + q \in Int /\ a + b \in Nat
  BY <1>2, <1>5, SMT
<1>7. (a + b) % m = s
  BY <1>5, <1>6, Quotient, Zenon
<1> QED
  BY <1>1, <1>3, <1>7, Zenon

(* A count of bits modulo w tells the place in the block.                     *)
LEMMA BitsPlace ==
  ASSUME NEW b \in Nat \ {0}, NEW w \in Nat \ {0}, w % (8 * b) = 0, NEW n \in Nat
  PROVE  (((8 * n) % w) \div 8) % b = n % b
<1>1. PICK k : k = w \div (8 * b)
  BY Zenon
<1>2. 8 * b \in Nat \ {0}
  BY SMT
<1>3. k \in Nat /\ w = (8 * b) * k + 0
  BY <1>1, <1>2, Division, Zenon
<1>4. PICK p, r : p = (8 * n) \div w /\ r = (8 * n) % w
  BY Zenon
<1>5. 8 * n \in Nat
  BY SMT
<1>6. p \in Nat /\ r \in 0..(w - 1) /\ 8 * n = w * p + r
  BY <1>4, <1>5, Division, Zenon
<1>7. PICK j : j = b * (k * p)
  BY Zenon
<1>8. k * p \in Nat /\ j \in Nat /\ w * p = 8 * j
  <2>1. k * p \in Nat
    BY <1>3, <1>6, SMT
  <2>2. j \in Nat
    BY <1>7, <2>1, SMT
  <2>3. w * p = 8 * j
    BY <1>3, <1>6, <1>7, SMT
  <2> QED
    BY <2>1, <2>2, <2>3
<1>9. r \div 8 = n - j /\ n - j \in Nat
  BY <1>6, <1>8, SMT
<1>10. PICK q, s : q = n \div b /\ s = n % b
  BY Zenon
<1>11. q \in Nat /\ s \in 0..(b - 1) /\ n = b * q + s
  BY <1>10, Division, Zenon
<1>12. n - j = b * (q - k * p) + s /\ q - k * p \in Int
  BY <1>7, <1>8, <1>11, SMT
<1>13. (n - j) % b = s
  BY <1>9, <1>11, <1>12, Quotient, Zenon
<1> QED
  BY <1>4, <1>9, <1>10, <1>13, Zenon

MdKind == {"msg", "pad", "low", "high", "junk"}
MdByte == MdKind \X Nat

(* The context c has gone through S: its whole blocks are in the state, the   *)
(* rest is in the buffer.                                                     *)
HoldsAt(c, S, q, r) ==
  /\ q \in Nat /\ r \in 0..(Block - 1) /\ Len(S) = Block * q + r
  /\ c.state = SubSeq(S, 1, Block * q)
  /\ \A k \in 1..r : c.buffer[k] = S[Block * q + k]

Holds(c, S) ==
  /\ S \in Seq(MdByte)
  /\ c.low = (8 * Len(S)) % Word
  /\ c.buffer \in [1..Block -> MdByte]
  /\ \E q, r : HoldsAt(c, S, q, r)

LEMMA MdConstants ==
  /\ Block \in Nat \ {0} /\ Word \in Nat \ {0} /\ Word % (8 * Block) = 0
  /\ LenBytes \in 1..(Block - 1)
<1>1. Md!Md5Assumption
  BY PartsAssumption, Zenon
<1>2. Block \in Nat /\ Word \in Nat \ {0} /\ Word % (8 * Block) = 0 /\ LenBytes \in 1..(Block - 1)
  BY <1>1, Zenon DEF Md!Md5Assumption
<1> QED
  BY <1>2, SMT

LEMMA IndexIs ==
  ASSUME NEW c, NEW S, Holds(c, S), NEW q, NEW r, HoldsAt(c, S, q, r)
  PROVE  Md!Index(c) = r
<1>1. /\ Block \in Nat \ {0} /\ Word \in Nat \ {0} /\ Word % (8 * Block) = 0
  BY MdConstants, Zenon
<1>2. PICK n : n = Len(S)
  BY Zenon
<1>3. q \in Nat /\ r \in 0..(Block - 1) /\ n = Block * q + r
  BY <1>2, Zenon DEF HoldsAt
<1>4. n \in Nat /\ q \in Int
  BY <1>1, <1>3, SMT
<1>5. n % Block = r
  BY <1>1, <1>3, <1>4, Quotient, Zenon
<1>6. c.low = (8 * n) % Word
  BY <1>2, Zenon DEF Holds
<1>7. (((8 * n) % Word) \div 8) % Block = n % Block
  BY <1>1, <1>4, BitsPlace, Zenon
<1> QED
  BY <1>5, <1>6, <1>7, Zenon DEF Md!Index

(* What memcpy leaves in the buffer.                                          *)
LEMMA OverwrittenAt ==
  ASSUME NEW buf \in [1..Block -> MdByte], NEW at \in Nat, NEW bytes \in Seq(MdByte)
  PROVE  /\ Md!Overwritten(buf, at, bytes) \in [1..Block -> MdByte]
         /\ \A k \in 1..Block : Md!Overwritten(buf, at, bytes)[k]
              = IF k - at \in 1..Len(bytes) THEN bytes[k - at] ELSE buf[k]
<1>1. DOMAIN bytes = 1..Len(bytes) /\ \A i \in 1..Len(bytes) : bytes[i] \in MdByte
  BY LenProperties, ElementOfSeq
<1>2. \A k \in 1..Block : Md!Overwritten(buf, at, bytes)[k]
         = IF k - at \in 1..Len(bytes) THEN bytes[k - at] ELSE buf[k]
  BY <1>1, Zenon DEF Md!Overwritten
<1>3. Md!Overwritten(buf, at, bytes)
        = [k \in 1..Block |-> IF k - at \in 1..Len(bytes) THEN bytes[k - at] ELSE buf[k]]
  BY <1>1, Zenon DEF Md!Overwritten
<1>4. \A k \in 1..Block : (IF k - at \in 1..Len(bytes) THEN bytes[k - at] ELSE buf[k]) \in MdByte
  BY <1>1, Zenon
<1> QED
  BY <1>2, <1>3, <1>4, Zenon

(* The first b elements of a sequence, and those after the first b.           *)
LEMMA FirstPart ==
  ASSUME NEW X, NEW t, NEW b \in Nat, \A i \in 1..b : t[i] \in X
  PROVE  /\ SubSeq(t, 1, b) \in Seq(X) /\ Len(SubSeq(t, 1, b)) = b
         /\ \A i \in 1..b : SubSeq(t, 1, b)[i] = t[i]
<1>1. PICK u : u = SubSeq(t, 1, b)
  BY Zenon
<1>2. 1 \in Int /\ b \in Int /\ \A i \in 1..b : t[i] \in X
  BY SMT
<1>3. /\ u \in Seq(X) /\ Len(u) = (IF 1 <= b THEN b - 1 + 1 ELSE 0)
      /\ \A i \in 1..(b - 1 + 1) : u[i] = t[1 + i - 1]
  BY ONLY <1>1, <1>2, SubSeqProperties
<1>4. b - 1 + 1 = b /\ (~(1 <= b) => b = 0) /\ \A i \in 1..b : 1 + i - 1 = i
  BY SMT
<1>5. Len(u) = b /\ \A i \in 1..b : u[i] = t[i]
  BY <1>3, <1>4, Zenon
<1> QED
  BY <1>1, <1>3, <1>5, Zenon

(* Bytes that go in are at the end of what the context has gone through: as   *)
(* long as they do not fill the block,                                        *)
LEMMA HoldsInBuffer ==
  ASSUME NEW c, NEW S, NEW q, NEW r, HoldsAt(c, S, q, r), NEW input \in Seq(MdByte),
         Block \in Nat \ {0}, S \in Seq(MdByte), c.buffer \in [1..Block -> MdByte],
         Len(input) < Block - r, NEW d, d.state = c.state,
         d.buffer = Md!Overwritten(c.buffer, r, input)
  PROVE  d.buffer \in [1..Block -> MdByte] /\ HoldsAt(d, S \o input, q, r + Len(input))
<1>1. PICK n, l, T : n = Len(input) /\ l = Len(S) /\ T = S \o input
  BY Zenon
<1>2. /\ n \in Nat /\ l \in Nat /\ T \in Seq(MdByte) /\ Len(T) = l + n
      /\ \A i \in 1..(l + n) : T[i] = IF i <= l THEN S[i] ELSE input[i - l]
  BY <1>1, LenProperties, ConcatProperties
<1>3. q \in Nat /\ r \in 0..(Block - 1) /\ l = Block * q + r /\ c.state = SubSeq(S, 1, Block * q)
      /\ \A k \in 1..r : c.buffer[k] = S[Block * q + k]
  BY <1>1, Zenon DEF HoldsAt
<1>4. PICK b : b = Block * q
  BY Zenon
<1>5. b \in Nat /\ l = b + r /\ r \in Nat /\ r + n \in 0..(Block - 1)
  <2>1. b \in Nat
    BY <1>3, <1>4, SMT
  <2> QED
    BY <1>1, <1>2, <1>3, <1>4, <2>1, SMT
<1>6. /\ d.buffer \in [1..Block -> MdByte]
      /\ \A k \in 1..Block : d.buffer[k] = IF k - r \in 1..n THEN input[k - r] ELSE c.buffer[k]
  <2>1. PICK buf, e : buf = c.buffer /\ e = Md!Overwritten(buf, r, input)
    BY Zenon
  <2>2. buf \in [1..Block -> MdByte] /\ r \in Nat /\ input \in Seq(MdByte)
    BY <1>5, <2>1, Zenon
  <2>3. /\ e \in [1..Block -> MdByte]
        /\ \A k \in 1..Block : e[k] = IF k - r \in 1..Len(input) THEN input[k - r] ELSE buf[k]
    BY ONLY <2>1, <2>2, OverwrittenAt
  <2> QED
    BY <1>1, <2>1, <2>3, Zenon
<1>7. SubSeq(T, 1, b) = SubSeq(S, 1, b)
  <2>1. \A i \in 1..b : S[i] \in MdByte /\ T[i] \in MdByte /\ T[i] = S[i]
    <3> SUFFICES ASSUME NEW i \in 1..b
                 PROVE  S[i] \in MdByte /\ T[i] \in MdByte /\ T[i] = S[i]
      OBVIOUS
    <3>1. i \in 1..l /\ i \in 1..(l + n) /\ i <= l
      BY <1>2, <1>5, SMT
    <3>2. T[i] = S[i]
      BY <1>2, <3>1, Zenon
    <3>3. S[i] \in MdByte
      BY <1>1, <3>1, ElementOfSeq, Zenon
    <3> QED
      BY <3>2, <3>3, Zenon
  <2>2. PICK u, v : u = SubSeq(T, 1, b) /\ v = SubSeq(S, 1, b)
    BY Zenon
  <2>3. b \in Nat /\ \A i \in 1..b : S[i] \in MdByte /\ T[i] \in MdByte
    BY <1>5, <2>1, Zenon
  <2>4. u \in Seq(MdByte) /\ Len(u) = b /\ \A i \in 1..b : u[i] = T[i]
    BY ONLY <2>2, <2>3, FirstPart
  <2>5. v \in Seq(MdByte) /\ Len(v) = b /\ \A i \in 1..b : v[i] = S[i]
    BY ONLY <2>2, <2>3, FirstPart
  <2>6. Len(u) = Len(v) /\ \A i \in 1..Len(u) : u[i] = v[i]
    BY ONLY <2>1, <2>4, <2>5, Zenon
  <2> QED
    BY <2>2, <2>4, <2>5, <2>6, SeqEqual, Zenon
<1>8. ASSUME NEW k \in 1..(r + n)
      PROVE  d.buffer[k] = T[b + k]
  <2>1. k \in 1..Block /\ b + k \in 1..(l + n) /\ k \in Int
    BY <1>2, <1>5, SMT
  <2>2. CASE k <= r
    <3>1. ~(k - r \in 1..n) /\ k \in 1..r /\ b + k <= l
      BY <1>2, <1>5, <2>1, <2>2, SMT
    <3>2. d.buffer[k] = c.buffer[k] /\ T[b + k] = S[b + k]
      BY <1>2, <1>6, <2>1, <3>1, Zenon
    <3> QED
      BY <1>3, <1>4, <3>1, <3>2, Zenon
  <2>3. CASE ~(k <= r)
    <3>1. k - r \in 1..n /\ ~(b + k <= l) /\ (b + k) - l = k - r
      BY <1>2, <1>5, <2>1, <2>3, SMT
    <3>2. d.buffer[k] = input[k - r] /\ T[b + k] = input[(b + k) - l]
      BY <1>2, <1>6, <2>1, <3>1, Zenon
    <3> QED
      BY <3>1, <3>2, Zenon
  <2> QED
    BY <2>2, <2>3, Zenon
<1>9. Len(T) = b + (r + n)
  BY <1>2, <1>5, SMT
<1> QED
  BY <1>1, <1>3, <1>4, <1>5, <1>6, <1>7, <1>8, <1>9, Zenon DEF HoldsAt

(* and when they do: the block goes into the state with the whole ones after  *)
(* it, and what is left into the buffer.                                      *)
Fills(c, S, q, r, input, p, j, x, taken, d) ==
  /\ HoldsAt(c, S, q, r) /\ input \in Seq(MdByte)
  /\ S \in Seq(MdByte) /\ c.buffer \in [1..Block -> MdByte]
  /\ p = Block - r /\ Len(input) >= p
  /\ j \in Nat /\ x \in 0..(Block - 1) /\ Len(input) - p = Block * j + x /\ taken = p + Block * j
  /\ d.state = c.state \o (SubSeq(c.buffer, 1, r) \o SubSeq(input, 1, taken))
  /\ d.buffer = Md!Overwritten(Md!Overwritten(c.buffer, r, SubSeq(input, 1, p)),
                               0, SubSeq(input, taken + 1, Len(input)))

LEMMA HoldsInState ==
  ASSUME NEW c, NEW S, NEW q, NEW r, NEW input, NEW p, NEW j, NEW x, NEW taken, NEW d,
         Fills(c, S, q, r, input, p, j, x, taken, d)
  PROVE  d.buffer \in [1..Block -> MdByte] /\ HoldsAt(d, S \o input, q + 1 + j, x)
<1> /\ HoldsAt(c, S, q, r) /\ input \in Seq(MdByte)
    /\ S \in Seq(MdByte) /\ c.buffer \in [1..Block -> MdByte]
    /\ p = Block - r /\ Len(input) >= p
    /\ j \in Nat /\ x \in 0..(Block - 1) /\ Len(input) - p = Block * j + x /\ taken = p + Block * j
    /\ d.state = c.state \o (SubSeq(c.buffer, 1, r) \o SubSeq(input, 1, taken))
    /\ d.buffer = Md!Overwritten(Md!Overwritten(c.buffer, r, SubSeq(input, 1, p)),
                                 0, SubSeq(input, taken + 1, Len(input)))
  BY Zenon DEF Fills
<1> Block \in Nat \ {0}
  BY MdConstants, Zenon
<1>1. PICK n, l, T : n = Len(input) /\ l = Len(S) /\ T = S \o input
  BY Zenon
<1>2. /\ n \in Nat /\ l \in Nat /\ T \in Seq(MdByte) /\ Len(T) = l + n
      /\ \A i \in 1..(l + n) : T[i] = IF i <= l THEN S[i] ELSE input[i - l]
      /\ \A i \in 1..l : S[i] \in MdByte
      /\ \A i \in 1..n : input[i] \in MdByte
  <2>1. n \in Nat /\ l \in Nat
    BY <1>1, LenProperties
  <2>2. /\ T \in Seq(MdByte) /\ Len(T) = l + n
        /\ \A i \in 1..(l + n) : T[i] = IF i <= l THEN S[i] ELSE input[i - l]
    <3>1. S \in Seq(MdByte) /\ input \in Seq(MdByte)
      OBVIOUS
    <3> QED
      BY ONLY <1>1, <3>1, ConcatProperties, Zenon
  <2>3. /\ \A i \in 1..l : S[i] \in MdByte
        /\ \A i \in 1..n : input[i] \in MdByte
    BY <1>1, ElementOfSeq, Zenon
  <2> QED
    BY <2>1, <2>2, <2>3
<1>3. q \in Nat /\ r \in 0..(Block - 1) /\ l = Block * q + r /\ c.state = SubSeq(S, 1, Block * q)
      /\ \A k \in 1..r : c.buffer[k] = S[Block * q + k]
  BY <1>1, Zenon DEF HoldsAt
<1>4. PICK b, g, e : b = Block * q /\ g = Block * j /\ e = Block * (q + 1 + j)
  BY Zenon
<1>5. b \in Nat /\ g \in Nat /\ e = b + Block + g
  <2>1. b \in Nat
    BY ONLY <1>3, <1>4, Block \in Nat \ {0}, SMT
  <2>2. g \in Nat
    BY ONLY <1>4, j \in Nat, Block \in Nat \ {0}, SMT
  <2>3. e = b + Block + g
    <3>1. Block * (q + 1 + j) = Block * q + Block + Block * j
      BY ONLY <1>3, j \in Nat, Block \in Nat \ {0}, SMT
    <3> QED
      BY <1>4, <3>1, Zenon
  <2> QED
    BY <2>1, <2>2, <2>3
<1>6. /\ r \in Nat /\ r < Block /\ p \in Nat /\ p = Block - r /\ 1 <= p /\ l = b + r
      /\ taken \in Nat /\ taken = p + g /\ n = taken + x /\ x \in Nat /\ x < Block
      /\ e \in Nat /\ e = l + taken /\ Block \in Nat /\ b \in Nat /\ l \in Nat /\ n \in Nat
  <2>1. n \in Nat /\ l \in Nat /\ r \in 0..(Block - 1) /\ l = b + r /\ n - p = g + x /\ taken = p + g
    BY <1>1, <1>2, <1>3, <1>4, Zenon
  <2> QED
    BY ONLY <1>5, <2>1, p = Block - r, x \in 0..(Block - 1), Block \in Nat \ {0}, SMT
<1>7. PICK u, v, w, y : /\ u = SubSeq(S, 1, b) /\ v = SubSeq(c.buffer, 1, r)
                       /\ w = SubSeq(input, 1, taken) /\ y = SubSeq(input, taken + 1, n)
  BY Zenon
<1>8. u \in Seq(MdByte) /\ Len(u) = b /\ \A i \in 1..b : u[i] = S[i]
  <2>1. \A i \in 1..b : i \in 1..l
    BY ONLY <1>6, SMT
  <2>2. b \in Nat /\ \A i \in 1..b : S[i] \in MdByte
    BY <1>2, <1>6, <2>1, Zenon
  <2>3. u = SubSeq(S, 1, b)
    BY <1>7, Zenon
  <2> QED
    BY ONLY <2>2, <2>3, FirstPart
<1>9. v \in Seq(MdByte) /\ Len(v) = r /\ \A i \in 1..r : v[i] = S[b + i]
  <2>1. PICK buf : buf = c.buffer
    BY Zenon
  <2>2. \A i \in 1..r : i \in 1..Block
    BY ONLY <1>6, SMT
  <2>3. r \in Nat /\ \A i \in 1..r : buf[i] \in MdByte
    BY <1>6, <2>1, <2>2, Zenon
  <2>4. v \in Seq(MdByte) /\ Len(v) = r /\ \A i \in 1..r : v[i] = buf[i]
    BY ONLY <1>7, <2>1, <2>3, FirstPart
  <2> QED
    BY <1>3, <1>4, <2>1, <2>4, Zenon
<1>10. w \in Seq(MdByte) /\ Len(w) = taken /\ \A i \in 1..taken : w[i] = input[i]
  <2>1. \A i \in 1..taken : i \in 1..n
    BY ONLY <1>6, SMT
  <2>2. taken \in Nat /\ \A i \in 1..taken : input[i] \in MdByte
    BY <1>2, <1>6, <2>1, Zenon
  <2>3. w = SubSeq(input, 1, taken)
    BY <1>7, Zenon
  <2> QED
    BY ONLY <2>2, <2>3, FirstPart
<1>11. y \in Seq(MdByte) /\ Len(y) = x /\ \A i \in 1..x : y[i] = input[taken + i]
  <2>1. PICK f : f = taken + 1
    BY Zenon
  <2>2. y = SubSeq(input, f, n)
    BY <1>7, <2>1, Zenon
  <2>3. f \in Int /\ n \in Int /\ \A i \in f..n : input[i] \in MdByte
    <3>1. f \in Int /\ n \in Int /\ \A i \in f..n : i \in 1..n
      BY ONLY <1>6, <2>1, SMT
    <3> QED
      BY <1>2, <3>1, Zenon
  <2>4. /\ y \in Seq(MdByte) /\ Len(y) = (IF f <= n THEN n - f + 1 ELSE 0)
        /\ \A i \in 1..(n - f + 1) : y[i] = input[f + i - 1]
    BY ONLY <2>2, <2>3, SubSeqProperties
  <2>5. n = taken + x /\ x \in Nat /\ taken \in Nat
    BY <1>6, Zenon
  <2>6. n - f + 1 = x /\ (~(f <= n) => x = 0)
    BY ONLY <2>1, <2>5, SMT
  <2>7. \A i \in 1..x : f + i - 1 = taken + i
    BY ONLY <2>1, <2>5, SMT
  <2> QED
    BY <2>4, <2>6, <2>7, Zenon
<1>12. d.state = SubSeq(T, 1, e)
  <2>1. PICK z : z = v \o w
    BY Zenon
  <2>2. /\ z \in Seq(MdByte) /\ Len(z) = r + taken
        /\ \A i \in 1..(r + taken) : z[i] = IF i <= r THEN v[i] ELSE w[i - r]
    <3>1. v \in Seq(MdByte) /\ w \in Seq(MdByte) /\ Len(v) = r /\ Len(w) = taken
      BY <1>9, <1>10, Zenon
    <3>2. /\ v \o w \in Seq(MdByte) /\ Len(v \o w) = Len(v) + Len(w)
          /\ \A i \in 1..(Len(v) + Len(w)) :
               (v \o w)[i] = IF i <= Len(v) THEN v[i] ELSE w[i - Len(v)]
      BY ONLY <3>1, ConcatProperties, Zenon
    <3> QED
      BY <2>1, <3>1, <3>2, Zenon
  <2>3. PICK a : a = u \o z
    BY Zenon
  <2>4. /\ a \in Seq(MdByte) /\ Len(a) = b + (r + taken)
        /\ \A i \in 1..(b + (r + taken)) : a[i] = IF i <= b THEN u[i] ELSE z[i - b]
    <3>1. u \in Seq(MdByte) /\ z \in Seq(MdByte) /\ Len(u) = b /\ Len(z) = r + taken
      BY <1>8, <2>2, Zenon
    <3>2. /\ u \o z \in Seq(MdByte) /\ Len(u \o z) = Len(u) + Len(z)
          /\ \A i \in 1..(Len(u) + Len(z)) :
               (u \o z)[i] = IF i <= Len(u) THEN u[i] ELSE z[i - Len(u)]
      BY ONLY <3>1, ConcatProperties, Zenon
    <3> QED
      BY <2>3, <3>1, <3>2, Zenon
  <2>5. d.state = a
    BY <1>3, <1>4, <1>7, <2>1, <2>3, Zenon
  <2>6. PICK f : f = SubSeq(T, 1, e)
    BY Zenon
  <2>7. e \in Nat /\ \A i \in 1..e : T[i] \in MdByte
    <3>1. \A i \in 1..e : i \in 1..(l + n)
      BY ONLY <1>6, SMT
    <3>2. \A i \in 1..(l + n) : T[i] \in MdByte
      BY <1>2, ElementOfSeq, Zenon
    <3> QED
      BY <1>6, <3>1, <3>2, Zenon
  <2>8. f \in Seq(MdByte) /\ Len(f) = e /\ \A i \in 1..e : f[i] = T[i]
    BY ONLY <2>6, <2>7, FirstPart
  <2>9. Len(f) = Len(a) /\ Len(a) = e
    <3>1. b + (r + taken) = e
      BY ONLY <1>6, SMT
    <3> QED
      BY <2>4, <2>8, <3>1, Zenon
  <2>10. ASSUME NEW i \in 1..e
         PROVE  a[i] = f[i]
    <3>5. i \in 1..(l + n) /\ i \in 1..(b + (r + taken)) /\ i \in Int
      BY ONLY <1>6, i \in 1..e, SMT
    <3>1. f[i] = T[i] /\ i \in 1..(l + n) /\ i \in 1..(b + (r + taken))
      BY <2>8, <3>5, Zenon
    <3>2. CASE i <= b
      <4>1. i \in 1..b /\ i <= l
        BY ONLY <1>6, <3>2, i \in 1..e, SMT
      <4> QED
        BY <1>2, <1>8, <2>4, <3>1, <3>2, <4>1, Zenon
    <3>3. CASE ~(i <= b) /\ i <= l
      <4>1. i - b \in 1..r /\ i - b \in 1..(r + taken) /\ i - b <= r /\ b + (i - b) = i
        BY ONLY <1>6, <3>3, i \in 1..e, SMT
      <4>2. a[i] = z[i - b] /\ z[i - b] = v[i - b] /\ v[i - b] = S[b + (i - b)] /\ T[i] = S[i]
        BY <1>2, <1>9, <2>2, <2>4, <3>1, <3>3, <4>1, Zenon
      <4> QED
        BY <3>1, <4>1, <4>2, Zenon
    <3>4. CASE ~(i <= b) /\ ~(i <= l)
      <4>1. /\ i - b \in 1..(r + taken) /\ ~(i - b <= r) /\ (i - b) - r = i - l
            /\ i - l \in 1..taken
        BY ONLY <1>6, <3>4, i \in 1..e, SMT
      <4>2. /\ a[i] = z[i - b] /\ z[i - b] = w[(i - b) - r] /\ w[i - l] = input[i - l]
            /\ T[i] = input[i - l]
        BY <1>2, <1>10, <2>2, <2>4, <3>1, <3>4, <4>1, Zenon
      <4> QED
        BY <3>1, <4>1, <4>2, Zenon
    <3> QED
      BY <3>2, <3>3, <3>4, Zenon
  <2>11. a = f
    <3>1. a \in Seq(MdByte) /\ f \in Seq(MdByte) /\ Len(a) = Len(f) /\ \A i \in 1..Len(a) : a[i] = f[i]
      BY <2>4, <2>8, <2>9, <2>10, Zenon
    <3> QED
      BY ONLY <3>1, SeqEqual
  <2> QED
    BY <2>5, <2>6, <2>11, Zenon
<1>13. /\ d.buffer \in [1..Block -> MdByte]
       /\ \A k \in 1..x : d.buffer[k] = T[e + k]
  <2>1. PICK buf, h : buf = c.buffer /\ h = SubSeq(input, 1, p)
    BY Zenon
  <2>2. h \in Seq(MdByte)
    <3>1. \A i \in 1..p : i \in 1..n
      BY ONLY <1>5, <1>6, SMT
    <3>2. p \in Nat /\ \A i \in 1..p : input[i] \in MdByte
      BY <1>2, <1>6, <3>1, Zenon
    <3> QED
      BY ONLY <2>1, <3>2, FirstPart
  <2>3. PICK m : m = Md!Overwritten(buf, r, h)
    BY Zenon
  <2>4. buf \in [1..Block -> MdByte] /\ r \in Nat /\ h \in Seq(MdByte)
    BY <1>6, <2>1, <2>2, Zenon
  <2>5. m \in [1..Block -> MdByte]
    BY ONLY <2>3, <2>4, OverwrittenAt
  <2>6. m \in [1..Block -> MdByte] /\ 0 \in Nat /\ y \in Seq(MdByte)
    BY <1>11, <2>5, SMT
  <2>7. PICK o : o = Md!Overwritten(m, 0, y)
    BY Zenon
  <2>8. /\ o \in [1..Block -> MdByte]
        /\ \A k \in 1..Block : o[k] = IF k - 0 \in 1..Len(y) THEN y[k - 0] ELSE m[k]
    <3>1. /\ Md!Overwritten(m, 0, y) \in [1..Block -> MdByte]
          /\ \A k \in 1..Block : Md!Overwritten(m, 0, y)[k]
               = IF k - 0 \in 1..Len(y) THEN y[k - 0] ELSE m[k]
      BY ONLY <2>6, OverwrittenAt, Zenon
    <3> QED
      BY <2>7, <3>1, Zenon
  <2>9. d.buffer = o
    BY <1>1, <1>7, <2>1, <2>3, <2>7, Zenon
  <2>10. ASSUME NEW k \in 1..x
         PROVE  o[k] = T[e + k]
    <3>3. /\ k \in 1..Block /\ k - 0 = k
          /\ e + k \in 1..(l + n) /\ ~(e + k <= l) /\ (e + k) - l = taken + k
      BY ONLY <1>6, k \in 1..x, SMT
    <3>1. /\ k \in 1..Block /\ k - 0 \in 1..Len(y) /\ k - 0 = k
          /\ e + k \in 1..(l + n) /\ ~(e + k <= l) /\ (e + k) - l = taken + k
      BY <1>11, <3>3, Zenon
    <3>2. o[k] = y[k - 0] /\ y[k] = input[taken + k] /\ T[e + k] = input[(e + k) - l]
      BY <1>2, <1>11, <2>8, <3>1, Zenon
    <3> QED
      BY <3>1, <3>2, Zenon
  <2> QED
    BY <2>8, <2>9, <2>10, Zenon
<1>14. q + 1 + j \in Nat /\ x \in 0..(Block - 1) /\ Len(T) = e + x
  <2>1. q + 1 + j \in Nat
    BY <1>3, SMT
  <2>2. l + n = e + x
    BY ONLY <1>6, SMT
  <2> QED
    BY <1>2, <2>1, <2>2, Zenon
<1> QED
  BY <1>1, <1>4, <1>12, <1>13, <1>14, Zenon DEF HoldsAt

(* What update() leaves, case by case.                                        *)
UpdateOf(c, input, r, n, p, taken, d) ==
  /\ r = Md!Index(c) /\ n = Len(input) /\ p = Block - r
  /\ taken = p + Block * ((n - p) \div Block) /\ d = Md!Updated(c, input)

UpdateLeaves(c, input, r, n, p, taken, d) ==
  /\ d.low = (c.low + 8 * n) % Word /\ d.high = Md!HighAfter(c, n)
  /\ n < p => /\ d.state = c.state
              /\ d.buffer = Md!Overwritten(c.buffer, r, input)
  /\ ~(n < p) =>
       /\ d.state = c.state \o (SubSeq(c.buffer, 1, r) \o SubSeq(input, 1, taken))
       /\ d.buffer = Md!Overwritten(Md!Overwritten(c.buffer, r, SubSeq(input, 1, p)),
                                    0, SubSeq(input, taken + 1, n))

LEMMA UpdatedIs ==
  ASSUME NEW c, NEW input, NEW r, NEW n, NEW p, NEW taken, NEW d,
         UpdateOf(c, input, r, n, p, taken, d)
  PROVE  UpdateLeaves(c, input, r, n, p, taken, d)
<1>1. d = [low  |-> (c.low + 8 * n) % Word,
           high |-> Md!HighAfter(c, n),
           state |-> IF n < p THEN c.state
                     ELSE Md!Transformed(c.state, SubSeq(c.buffer, 1, r) \o SubSeq(input, 1, taken)),
           buffer |-> IF n < p THEN Md!Overwritten(c.buffer, r, input)
                      ELSE Md!Overwritten(Md!Overwritten(c.buffer, r, SubSeq(input, 1, p)),
                                          0, SubSeq(input, taken + 1, n))]
  BY Zenon DEF UpdateOf, Md!Updated
<1>2. /\ d.low = (c.low + 8 * n) % Word /\ d.high = Md!HighAfter(c, n)
      /\ d.state = IF n < p THEN c.state
                     ELSE Md!Transformed(c.state, SubSeq(c.buffer, 1, r) \o SubSeq(input, 1, taken))
      /\ d.buffer = IF n < p THEN Md!Overwritten(c.buffer, r, input)
                      ELSE Md!Overwritten(Md!Overwritten(c.buffer, r, SubSeq(input, 1, p)),
                                          0, SubSeq(input, taken + 1, n))
  BY ONLY <1>1, Zenon
<1> QED
  BY ONLY <1>2, Zenon DEF UpdateLeaves, Md!Transformed

(* and in every case: the buffer is one of bytes.                             *)
LEMMA UpdatedBuffer ==
  ASSUME NEW c, c.low \in Nat, c.buffer \in [1..Block -> MdByte], NEW input \in Seq(MdByte)
  PROVE  Md!Updated(c, input).buffer \in [1..Block -> MdByte]
<1>1. PICK r, n, d : r = Md!Index(c) /\ n = Len(input) /\ d = Md!Updated(c, input)
  BY Zenon
<1>2. PICK p : p = Block - r
  BY Zenon
<1>3. PICK taken : taken = p + Block * ((n - p) \div Block)
  BY Zenon
<1>4. /\ n < p => d.buffer = Md!Overwritten(c.buffer, r, input)
      /\ ~(n < p) => d.buffer = Md!Overwritten(Md!Overwritten(c.buffer, r, SubSeq(input, 1, p)),
                                               0, SubSeq(input, taken + 1, n))
  <2>1. UpdateOf(c, input, r, n, p, taken, d)
    BY <1>1, <1>2, <1>3, Zenon DEF UpdateOf
  <2>2. UpdateLeaves(c, input, r, n, p, taken, d)
    BY ONLY <2>1, UpdatedIs, Zenon
  <2> QED
    BY ONLY <2>2, Zenon DEF UpdateLeaves
<1>5. r \in 0..(Block - 1) /\ Block \in Nat \ {0}
  <2>1. PICK w : w = c.low
    BY Zenon
  <2>2. r = (w \div 8) % Block /\ w \in Nat /\ Block \in Nat \ {0}
    BY <1>1, <2>1, MdConstants, Zenon DEF Md!Index
  <2>3. w \div 8 \in Nat
    BY ONLY <2>2, SMT
  <2> QED
    BY ONLY <2>2, <2>3, Division, Zenon
<1>6. n \in Nat /\ r \in Nat /\ p \in Nat
  <2>1. n \in Nat
    BY <1>1, LenProperties
  <2> QED
    BY ONLY <1>2, <1>5, <2>1, SMT
<1>7. \A i \in 1..n : input[i] \in MdByte
  BY <1>1, ElementOfSeq, Zenon
<1>8. PICK buf : buf = c.buffer /\ buf \in [1..Block -> MdByte]
  BY Zenon
<1>9. CASE n < p
  <2>1. Md!Overwritten(buf, r, input) \in [1..Block -> MdByte]
    BY <1>6, <1>8, OverwrittenAt, Zenon
  <2> QED
    BY <1>1, <1>4, <1>8, <1>9, <2>1, Zenon
<1>10. CASE ~(n < p)
  <2>1. PICK h, y, f : h = SubSeq(input, 1, p) /\ y = SubSeq(input, f, n) /\ f = taken + 1
    BY Zenon
  <2>2. h \in Seq(MdByte)
    <3>1. \A i \in 1..p : i \in 1..n
      BY ONLY <1>6, <1>10, SMT
    <3>2. p \in Nat /\ \A i \in 1..p : input[i] \in MdByte
      BY <1>6, <1>7, <3>1, Zenon
    <3> QED
      BY ONLY <2>1, <3>2, FirstPart
  <2>3. f \in Int /\ n \in Int /\ \A i \in f..n : i \in 1..n
    <3>1. PICK a : a = n - p
      BY Zenon
    <3>2. a \in Nat
      BY ONLY <1>6, <1>10, <3>1, SMT
    <3>3. PICK j : j = a \div Block
      BY Zenon
    <3>4. j \in Nat
      BY ONLY <1>5, <3>2, <3>3, Division, Zenon
    <3>5. PICK g : g = Block * j
      BY Zenon
    <3>6. g \in Nat
      BY ONLY <1>5, <3>4, <3>5, SMT
    <3>7. taken = p + g
      BY <1>3, <3>1, <3>3, <3>5, Zenon
    <3> QED
      BY ONLY <1>6, <2>1, <3>6, <3>7, SMT
  <2>4. y \in Seq(MdByte)
    <3>1. \A i \in f..n : input[i] \in MdByte
      BY <1>7, <2>3, Zenon
    <3> QED
      BY ONLY <2>1, <2>3, <3>1, SubSeqProperties
  <2>5. PICK m : m = Md!Overwritten(buf, r, h)
    BY Zenon
  <2>6. m \in [1..Block -> MdByte] /\ 0 \in Nat
    <3>1. Md!Overwritten(buf, r, h) \in [1..Block -> MdByte]
      BY <1>6, <1>8, <2>2, OverwrittenAt, Zenon
    <3>2. 0 \in Nat
      BY SMT
    <3> QED
      BY <2>5, <3>1, <3>2, Zenon
  <2>7. Md!Overwritten(m, 0, y) \in [1..Block -> MdByte]
    BY <2>4, <2>6, OverwrittenAt, Zenon
  <2> QED
    BY <1>1, <1>4, <1>8, <1>10, <2>1, <2>5, <2>7, Zenon
<1> QED
  BY <1>9, <1>10, Zenon

(* The two words are those of the count of bits, with the carry.              *)
LowIs(l)  == (8 * l) % Word
HighIs(l) == ((8 * l) \div Word) % Word

LEMMA LowMore ==
  ASSUME NEW c, NEW l \in Nat, NEW n \in Nat, c.low = LowIs(l)
  PROVE  (c.low + 8 * n) % Word = LowIs(l + n)
<1>1. Word \in Nat \ {0}
  BY MdConstants, Zenon
<1>2. 8 * l \in Nat /\ 8 * n \in Nat /\ 8 * l + 8 * n = 8 * (l + n)
  BY SMT
<1>3. (((8 * l) % Word) + 8 * n) % Word = (8 * l + 8 * n) % Word
  BY ONLY <1>1, <1>2, ModPlus, Zenon
<1> QED
  BY <1>2, <1>3, Zenon DEF LowIs

LEMMA HighMore ==
  ASSUME NEW c, NEW l \in Nat, NEW n \in Nat, c.low = LowIs(l), c.high = HighIs(l)
  PROVE  Md!HighAfter(c, n) = HighIs(l + n)
<1>1. Word \in Nat \ {0}
  BY MdConstants, Zenon
<1>2. 8 * l \in Nat /\ 8 * n \in Nat /\ 8 * (l + n) \in Nat /\ 8 * (l + n) = 8 * l + 8 * n
  BY SMT
<1>3. PICK p, s : p = (8 * l) \div Word /\ s = (8 * l) % Word
  BY Zenon
<1>4. p \in Nat /\ s \in 0..(Word - 1) /\ 8 * l = Word * p + s
  BY ONLY <1>1, <1>2, <1>3, Division, Zenon
<1>5. PICK o, t : o = (8 * n) \div Word /\ t = (8 * n) % Word
  BY Zenon
<1>6. o \in Nat /\ t \in 0..(Word - 1) /\ 8 * n = Word * o + t
  BY ONLY <1>1, <1>2, <1>5, Division, Zenon
<1>7. PICK carry : carry = IF s + t >= Word THEN 1 ELSE 0
  BY Zenon
<1>8. carry \in {0, 1} /\ s + t - Word * carry \in 0..(Word - 1)
  BY ONLY <1>1, <1>4, <1>6, <1>7, SMT
<1>9. p + o + carry \in Nat /\ 8 * (l + n) = Word * (p + o + carry) + (s + t - Word * carry)
  <2>1. p + o + carry \in Nat
    BY ONLY <1>4, <1>6, <1>8, SMT
  <2>2. Word * (p + o + carry) = Word * p + Word * o + Word * carry
    BY ONLY <1>1, <1>4, <1>6, <1>8, SMT
  <2>3. 8 * (l + n) = Word * p + s + Word * o + t
    BY ONLY <1>1, <1>2, <1>4, <1>6, SMT
  <2>4. PICK a, b, e : a = Word * p /\ b = Word * o /\ e = Word * carry
    BY Zenon
  <2>5. a \in Nat /\ b \in Nat /\ e \in Nat
    BY ONLY <1>1, <1>4, <1>6, <1>8, <2>4, SMT
  <2>6. a + s + b + t = a + b + e + (s + t - e)
    BY ONLY <1>1, <1>4, <1>6, <2>5, SMT
  <2> QED
    BY <2>1, <2>2, <2>3, <2>4, <2>6, Zenon
<1>10. (8 * (l + n)) \div Word = p + o + carry
  <2>1. PICK a, k, u : a = 8 * (l + n) /\ k = p + o + carry /\ u = s + t - Word * carry
    BY Zenon
  <2>2. a \in Nat /\ k \in Int /\ u \in 0..(Word - 1) /\ a = Word * k + u
    <3>1. k \in Nat
      BY <1>9, <2>1, Zenon
    <3>2. k \in Int
      BY ONLY <3>1, SMT
    <3> QED
      BY <1>2, <1>8, <1>9, <2>1, <3>2, Zenon
  <2>3. a \div Word = k
    BY ONLY <1>1, <2>2, Quotient
  <2> QED
    BY <2>1, <2>3, Zenon
<1>11. ((p % Word) + (o + carry)) % Word = (p + (o + carry)) % Word
  <2>1. o + carry \in Nat
    BY ONLY <1>6, <1>8, SMT
  <2> QED
    BY ONLY <1>1, <1>4, <2>1, ModPlus, Zenon
<1>12. Md!HighAfter(c, n) = ((p % Word) + o + carry) % Word
  BY <1>3, <1>5, <1>7, Zenon DEF Md!HighAfter, LowIs, HighIs
<1>13. (p % Word) + o + carry = (p % Word) + (o + carry) /\ p + o + carry = p + (o + carry)
  <2>1. PICK m : m = p % Word
    BY Zenon
  <2>2. m \in Int
    BY ONLY <1>1, <1>4, <2>1, SMT
  <2>3. m + o + carry = m + (o + carry) /\ p + o + carry = p + (o + carry)
    BY ONLY <1>4, <1>6, <1>8, <2>2, SMT
  <2> QED
    BY <2>1, <2>3, Zenon
<1> QED
  BY <1>10, <1>11, <1>12, <1>13, Zenon DEF HighIs

(* Whatever goes into the context, it has gone through it.                    *)
LEMMA HoldsMore ==
  ASSUME NEW c, NEW S, Holds(c, S), NEW input \in Seq(MdByte)
  PROVE  Holds(Md!Updated(c, input), S \o input)
<1>1. PICK q, r : HoldsAt(c, S, q, r)
  BY Zenon DEF Holds
<1>2. Md!Index(c) = r
  BY <1>1, IndexIs, Zenon
<1>3. PICK n, d, l : n = Len(input) /\ d = Md!Updated(c, input) /\ l = Len(S)
  BY Zenon
<1>4. PICK p : p = Block - r
  BY Zenon
<1>5. PICK j, x : j = (n - p) \div Block /\ x = (n - p) % Block
  BY Zenon
<1>6. PICK taken : taken = p + Block * j
  BY Zenon
<1>7. /\ d.low = (c.low + 8 * n) % Word /\ d.high = Md!HighAfter(c, n)
      /\ n < p => /\ d.state = c.state
                  /\ d.buffer = Md!Overwritten(c.buffer, r, input)
      /\ ~(n < p) =>
           /\ d.state = c.state \o (SubSeq(c.buffer, 1, r) \o SubSeq(input, 1, taken))
           /\ d.buffer = Md!Overwritten(Md!Overwritten(c.buffer, r, SubSeq(input, 1, p)),
                                        0, SubSeq(input, taken + 1, n))
  <2>1. UpdateOf(c, input, r, n, p, taken, d)
    BY <1>2, <1>3, <1>4, <1>5, <1>6, Zenon DEF UpdateOf
  <2>2. UpdateLeaves(c, input, r, n, p, taken, d)
    BY ONLY <2>1, UpdatedIs, Zenon
  <2> QED
    BY ONLY <2>2, Zenon DEF UpdateLeaves
<1>8. /\ S \in Seq(MdByte) /\ c.low = LowIs(l) /\ c.buffer \in [1..Block -> MdByte]
      /\ n \in Nat /\ l \in Nat /\ S \o input \in Seq(MdByte) /\ Len(S \o input) = l + n
  <2>1. S \in Seq(MdByte) /\ c.low = LowIs(l) /\ c.buffer \in [1..Block -> MdByte]
    BY <1>3, Zenon DEF Holds, LowIs
  <2>2. n \in Nat /\ l \in Nat
    BY <1>3, <2>1, LenProperties
  <2>3. S \o input \in Seq(MdByte) /\ Len(S \o input) = l + n
    BY <1>3, <2>1, ConcatProperties, Zenon
  <2> QED
    BY <2>1, <2>2, <2>3, Zenon
<1>9. d.low = (8 * Len(S \o input)) % Word
  <2>1. d.low = LowIs(l + n)
    BY <1>7, <1>8, LowMore, Zenon
  <2> QED
    BY <1>8, <2>1, Zenon DEF LowIs
<1>10. Block \in Nat \ {0} /\ r \in 0..(Block - 1)
  BY <1>1, MdConstants, Zenon DEF HoldsAt
<1>11. CASE n < p
  <2>1. Len(input) < Block - r /\ d.state = c.state /\ d.buffer = Md!Overwritten(c.buffer, r, input)
    BY <1>3, <1>4, <1>7, <1>11, Zenon
  <2>2. d.buffer \in [1..Block -> MdByte] /\ HoldsAt(d, S \o input, q, r + Len(input))
    BY <1>1, <1>8, <1>10, <2>1, HoldsInBuffer, Zenon
  <2> QED
    BY <1>3, <1>8, <1>9, <2>2, Zenon DEF Holds
<1>12. CASE ~(n < p)
  <2>1. n - p \in Nat /\ n >= p
    BY ONLY <1>4, <1>8, <1>10, <1>12, SMT
  <2>2. j \in Nat /\ x \in 0..(Block - 1) /\ n - p = Block * j + x
    BY ONLY <1>5, <1>10, <2>1, Division, Zenon
  <2>3. Fills(c, S, q, r, input, p, j, x, taken, d)
    BY <1>1, <1>3, <1>4, <1>6, <1>7, <1>8, <1>10, <1>12, <2>1, <2>2, Zenon DEF Fills
  <2>4. d.buffer \in [1..Block -> MdByte] /\ HoldsAt(d, S \o input, q + 1 + j, x)
    BY ONLY <2>3, HoldsInState, Zenon
  <2> QED
    BY <1>3, <1>8, <1>9, <2>4, Zenon DEF Holds
<1> QED
  BY <1>11, <1>12, Zenon

(* The bytes of the message, of the padding and of the length.                *)
LEMMA BytesInOrderOf ==
  ASSUME NEW n \in Nat, NEW f \in [1..n -> MdByte]
  PROVE  f \in Seq(MdByte) /\ Len(f) = n
<1>1. f \in Seq(MdByte)
  BY SMT DEF Seq
<1>2. DOMAIN f = 1..n
  BY Zenon
<1> QED
  BY <1>1, <1>2, LenProperties, SMT

LEMMA MessageIs ==
  ASSUME NEW l \in Nat, NEW n \in Nat
  PROVE  /\ Md!Message(l + 1, l + n) \in Seq(MdByte) /\ Len(Md!Message(l + 1, l + n)) = n
         /\ \A k \in 1..n : Md!Message(l + 1, l + n)[k] = <<"msg", l + k>>
<1>1. PICK m : m = Md!Message(l + 1, l + n)
  BY Zenon
<1>2. m = [k \in 1..((l + n) - (l + 1) + 1) |-> <<"msg", l + 1 + k - 1>>]
  BY <1>1, Zenon DEF Md!Message
<1>3. (l + n) - (l + 1) + 1 = n
  BY SMT
<1>4. m = [k \in 1..n |-> <<"msg", l + 1 + k - 1>>]
  BY <1>2, <1>3, Zenon
<1>5. \A k \in 1..n : l + 1 + k - 1 = l + k /\ l + k \in Nat
  BY SMT
<1>6. \A k \in 1..n : m[k] = <<"msg", l + k>>
  BY <1>4, <1>5, Zenon
<1>7. \A k \in 1..n : <<"msg", l + 1 + k - 1>> \in MdByte
  BY <1>5, Zenon DEF MdByte, MdKind
<1>8. m \in [1..n -> MdByte]
  BY <1>4, <1>7, Zenon
<1>9. m \in Seq(MdByte) /\ Len(m) = n
  BY <1>8, BytesInOrderOf, Zenon
<1> QED
  BY <1>1, <1>6, <1>9, Zenon

LEMMA WholeMessage ==
  ASSUME NEW n \in Nat
  PROVE  /\ Md!Message(1, n) \in Seq(MdByte) /\ Len(Md!Message(1, n)) = n
         /\ \A k \in 1..n : Md!Message(1, n)[k] = <<"msg", k>>
<1>1. PICK o : o = 0
  BY Zenon
<1>2. o \in Nat /\ o + 1 = 1 /\ o + n = n /\ \A k \in 1..n : o + k = k
  BY <1>1, SMT
<1>3. /\ Md!Message(o + 1, o + n) \in Seq(MdByte) /\ Len(Md!Message(o + 1, o + n)) = n
      /\ \A k \in 1..n : Md!Message(o + 1, o + n)[k] = <<"msg", o + k>>
  BY <1>2, MessageIs, Zenon
<1> QED
  BY <1>2, <1>3, Zenon

LEMMA MessageGoesOn ==
  ASSUME NEW l \in Nat, NEW n \in Nat
  PROVE  Md!Message(1, l) \o Md!Message(l + 1, l + n) = Md!Message(1, l + n)
<1>1. PICK a, b, m : a = Md!Message(1, l) /\ b = Md!Message(l + 1, l + n) /\ m = Md!Message(1, l + n)
  BY Zenon
<1>2. a \in Seq(MdByte) /\ Len(a) = l /\ \A k \in 1..l : a[k] = <<"msg", k>>
  BY <1>1, WholeMessage, Zenon
<1>3. b \in Seq(MdByte) /\ Len(b) = n /\ \A k \in 1..n : b[k] = <<"msg", l + k>>
  BY <1>1, MessageIs, Zenon
<1>4. l + n \in Nat
  BY SMT
<1>5. m \in Seq(MdByte) /\ Len(m) = l + n /\ \A k \in 1..(l + n) : m[k] = <<"msg", k>>
  BY <1>1, <1>4, WholeMessage, Zenon
<1>6. PICK t : t = a \o b
  BY Zenon
<1>7. /\ t \in Seq(MdByte) /\ Len(t) = l + n
      /\ \A k \in 1..(l + n) : t[k] = IF k <= l THEN a[k] ELSE b[k - l]
  BY <1>2, <1>3, <1>6, ConcatProperties, Zenon
<1>8. ASSUME NEW k \in 1..(l + n)
      PROVE  t[k] = m[k]
  <2>1. CASE k <= l
    <3>1. k \in 1..l
      BY <2>1, SMT
    <3> QED
      BY <1>2, <1>5, <1>7, <2>1, <3>1, Zenon
  <2>2. CASE ~(k <= l)
    <3>1. k - l \in 1..n /\ l + (k - l) = k
      BY <2>2, SMT
    <3>2. t[k] = b[k - l] /\ b[k - l] = <<"msg", l + (k - l)>>
      BY <1>3, <1>7, <2>2, <3>1, Zenon
    <3> QED
      BY <1>5, <3>1, <3>2, Zenon
  <2> QED
    BY <2>1, <2>2, Zenon
<1>9. t \in Seq(MdByte) /\ m \in Seq(MdByte) /\ Len(t) = Len(m) /\ \A k \in 1..Len(t) : t[k] = m[k]
  BY <1>5, <1>7, <1>8, Zenon
<1>10. t = m
  BY ONLY <1>9, SeqEqual
<1> QED
  BY <1>1, <1>6, <1>10, Zenon

LEMMA PaddingIs ==
  ASSUME NEW n \in Nat
  PROVE  Md!Padding(n) \in Seq(MdByte) /\ Len(Md!Padding(n)) = n
<1>1. \A k \in 1..n : <<"pad", IF k = 1 THEN 128 ELSE 0>> \in MdByte
  <2>1. 128 \in Nat /\ 0 \in Nat
    BY SMT
  <2>2. \A k \in 1..n : (IF k = 1 THEN 128 ELSE 0) \in Nat
    BY <2>1, SMT
  <2> QED
    BY <2>2, Zenon DEF MdByte, MdKind
<1>2. Md!Padding(n) = [k \in 1..n |-> <<"pad", IF k = 1 THEN 128 ELSE 0>>]
  BY Zenon DEF Md!Padding
<1>3. Md!Padding(n) \in [1..n -> MdByte]
  BY <1>1, <1>2, Zenon
<1> QED
  BY <1>3, BytesInOrderOf, Zenon

LEMMA LengthBytesIs ==
  ASSUME NEW a \in Nat, NEW b \in Nat
  PROVE  Md!LengthBytes(a, b) \in Seq(MdByte) /\ Len(Md!LengthBytes(a, b)) = LenBytes
<1>1. LenBytes \in Nat /\ 0 \in Nat
  BY MdConstants, SMT
<1>2. <<"low", a>> \in MdByte /\ <<"high", b>> \in MdByte /\ <<"pad", 0>> \in MdByte
  BY <1>1, Zenon DEF MdByte, MdKind
<1>3. \A k \in 1..LenBytes :
         (CASE k = 1 -> <<"low", a>> [] k = 2 -> <<"high", b>> [] OTHER -> <<"pad", 0>>) \in MdByte
  BY <1>2, SMT
<1>4. Md!LengthBytes(a, b)
        = [k \in 1..LenBytes |->
             CASE k = 1 -> <<"low", a>> [] k = 2 -> <<"high", b>> [] OTHER -> <<"pad", 0>>]
  BY Zenon DEF Md!LengthBytes
<1>5. Md!LengthBytes(a, b) \in [1..LenBytes -> MdByte]
  BY <1>3, <1>4, Zenon
<1> QED
  BY <1>1, <1>5, BytesInOrderOf, Zenon

(* A context that has gone through whole blocks has them all in its state.    *)
LEMMA WholeBlocks ==
  ASSUME NEW c, NEW S, Holds(c, S), NEW a \in Nat, Len(S) = Block * a
  PROVE  c.state = S
<1>1. PICK q, r : HoldsAt(c, S, q, r)
  BY Zenon DEF Holds
<1>2. /\ q \in Nat /\ r \in 0..(Block - 1) /\ Block * a = Block * q + r
      /\ c.state = SubSeq(S, 1, Block * q)
  BY <1>1, Zenon DEF HoldsAt
<1>3. Block \in Nat \ {0}
  BY MdConstants, Zenon
<1>4. PICK o : o = 0
  BY Zenon
<1>5. q \in Int /\ a \in Int /\ o \in 0..(Block - 1)
  BY <1>2, <1>3, <1>4, SMT
<1>6. Block * q + r = Block * a + o
  <2>1. Block * a = Block * a + 0
    BY ONLY <1>3, <1>5, SMT
  <2> QED
    BY <1>2, <1>4, <2>1, Zenon
<1>7. q = a
  BY ONLY <1>2, <1>3, <1>5, <1>6, DivisionOnce
<1>8. PICK n, u : n = Len(S) /\ u = SubSeq(S, 1, n)
  BY Zenon
<1>9. S \in Seq(MdByte) /\ n \in Nat /\ \A i \in 1..n : S[i] \in MdByte
  <2>1. S \in Seq(MdByte)
    BY Zenon DEF Holds
  <2> QED
    BY <1>8, <2>1, LenProperties, ElementOfSeq, Zenon
<1>10. u \in Seq(MdByte) /\ Len(u) = n /\ \A i \in 1..n : u[i] = S[i]
  BY ONLY <1>8, <1>9, FirstPart
<1>11. u \in Seq(MdByte) /\ S \in Seq(MdByte) /\ Len(u) = Len(S) /\ \A i \in 1..Len(u) : u[i] = S[i]
  BY <1>8, <1>9, <1>10, Zenon
<1>12. u = S
  BY ONLY <1>11, SeqEqual
<1> QED
  BY <1>2, <1>7, <1>8, <1>12, Zenon

(* The padding and the length complete the last block, and no other padding   *)
(* of at most a block does.                                                   *)
LEMMA PadLenIs ==
  ASSUME NEW c, NEW q \in Nat, NEW r \in 0..(Block - 1), Md!Index(c) = r
  PROVE  /\ Md!PadLen(c) \in 1..Block
         /\ \E a \in Nat : Block * q + r + Md!PadLen(c) + LenBytes = Block * a
<1>1. Block \in Nat \ {0} /\ LenBytes \in 1..(Block - 1)
  BY MdConstants, Zenon
<1>2. PICK p, b : p = Md!PadLen(c) /\ b = Block * q
  BY Zenon
<1>3. p = IF r < Block - LenBytes THEN Block - LenBytes - r ELSE 2 * Block - LenBytes - r
  BY <1>2, Zenon DEF Md!PadLen
<1>4. b \in Nat
  BY ONLY <1>1, <1>2, q \in Nat, SMT
<1>5. CASE r < Block - LenBytes
  <2>1. p = Block - LenBytes - r
    BY <1>3, <1>5, Zenon
  <2>2. p \in 1..Block /\ b + r + p + LenBytes = b + Block
    BY ONLY <1>1, <1>4, <1>5, <2>1, r \in 0..(Block - 1), SMT
  <2>3. q + 1 \in Nat /\ Block * (q + 1) = Block * q + Block
    BY ONLY <1>1, q \in Nat, SMT
  <2> QED
    BY <1>2, <2>2, <2>3, Zenon
<1>6. CASE ~(r < Block - LenBytes)
  <2>1. p = 2 * Block - LenBytes - r
    BY <1>3, <1>6, Zenon
  <2>2. p \in 1..Block /\ b + r + p + LenBytes = b + 2 * Block
    BY ONLY <1>1, <1>4, <1>6, <2>1, r \in 0..(Block - 1), SMT
  <2>3. q + 2 \in Nat /\ Block * (q + 2) = Block * q + 2 * Block
    BY ONLY <1>1, q \in Nat, SMT
  <2> QED
    BY <1>2, <2>2, <2>3, Zenon
<1> QED
  BY <1>5, <1>6, Zenon

LEMMA ZerosOnce ==
  ASSUME NEW n \in Nat, NEW p \in 1..Block, NEW a \in Nat, n + p + LenBytes = Block * a
  PROVE  (CHOOSE z \in 1..Block : (n + z + LenBytes) % Block = 0) = p
<1>1. Block \in Nat \ {0} /\ LenBytes \in 1..(Block - 1)
  BY MdConstants, Zenon
<1>2. (n + p + LenBytes) % Block = 0
  <2>1. PICK t, o : t = n + p + LenBytes /\ o = 0
    BY Zenon
  <2>2. t \in Nat /\ a \in Int /\ o \in 0..(Block - 1)
    BY ONLY <1>1, <2>1, n \in Nat, p \in 1..Block, a \in Nat, SMT
  <2>3. t = Block * a + o
    <3>1. Block * a = Block * a + 0
      BY ONLY <1>1, a \in Nat, SMT
    <3> QED
      BY <2>1, <3>1, Zenon
  <2>4. t % Block = o
    BY ONLY <1>1, <2>2, <2>3, Quotient
  <2> QED
    BY <2>1, <2>4, Zenon
<1>3. ASSUME NEW z \in 1..Block, (n + z + LenBytes) % Block = 0
      PROVE  z = p
  <2>1. PICK t : t = n + z + LenBytes
    BY Zenon
  <2>2. t \in Nat
    BY ONLY <1>1, <2>1, n \in Nat, z \in 1..Block, SMT
  <2>3. PICK b : b = t \div Block
    BY Zenon
  <2>4. t % Block = 0
    BY <1>3, <2>1, Zenon
  <2>5. b \in Nat /\ t = Block * b + (t % Block)
    BY ONLY <1>1, <2>2, <2>3, Division, Zenon
  <2>6. n + z + LenBytes = Block * b
    <3>1. Block * b = Block * b + 0
      BY ONLY <1>1, <2>5, SMT
    <3> QED
      BY <2>1, <2>4, <2>5, <3>1, Zenon
  <2>7. PICK u, v : u = Block * a /\ v = Block * b
    BY Zenon
  <2>8. u \in Nat /\ v \in Nat
    BY ONLY <1>1, <2>5, <2>7, a \in Nat, SMT
  <2>9. v + (p - 1) = u + (z - 1)
    <3>1. n + z + LenBytes = v /\ n + p + LenBytes = u
      BY <2>6, <2>7, Zenon
    <3> QED
      BY ONLY <1>1, <2>8, <3>1, n \in Nat, p \in 1..Block, z \in 1..Block, SMT
  <2>10. PICK i, k : i = p - 1 /\ k = z - 1
    BY Zenon
  <2>11. i \in 0..(Block - 1) /\ k \in 0..(Block - 1) /\ a \in Int /\ b \in Int
    BY ONLY <1>1, <2>5, <2>10, a \in Nat, p \in 1..Block, z \in 1..Block, SMT
  <2>12. Block * b + i = Block * a + k
    BY <2>7, <2>9, <2>10, Zenon
  <2>13. i = k
    BY ONLY <1>1, <2>11, <2>12, DivisionOnce
  <2> QED
    BY ONLY <2>10, <2>13, p \in 1..Block, z \in 1..Block, SMT
<1> QED
  BY <1>2, <1>3, Zenon

LEMMA WordsAreNat ==
  ASSUME NEW n \in Nat
  PROVE  LowIs(n) \in Nat /\ HighIs(n) \in Nat
<1>1. Word \in Nat \ {0}
  BY MdConstants, Zenon
<1>2. \A m \in Nat : m \div Word \in Nat /\ m % Word \in Nat
  BY ONLY <1>1, SMT
<1>3. 8 * n \in Nat
  BY SMT
<1> QED
  BY <1>2, <1>3, Zenon DEF LowIs, HighIs

(* The digest of a context is that of what it has gone through.               *)
LEMMA DigestIs ==
  ASSUME NEW c, NEW n \in Nat, Holds(c, Md!Message(1, n)), c.low = LowIs(n), c.high = HighIs(n)
  PROVE  Md!Finished(c).state = Md!Padded(n)
<1>1. PICK S, p, pad, bytes, d, e :
        /\ S = Md!Message(1, n) /\ p = Md!PadLen(c)
        /\ pad = Md!Padding(p) /\ bytes = Md!LengthBytes(c.low, c.high)
        /\ d = Md!Updated(c, pad) /\ e = Md!Updated(d, bytes)
  BY Zenon
<1>2. e = Md!Finished(c)
  BY <1>1, Zenon DEF Md!Finished
<1>3. S \in Seq(MdByte) /\ Len(S) = n /\ Holds(c, S)
  BY <1>1, WholeMessage, Zenon
<1>4. PICK q, r : HoldsAt(c, S, q, r)
  BY <1>3, Zenon DEF Holds
<1>5. q \in Nat /\ r \in 0..(Block - 1) /\ n = Block * q + r /\ Md!Index(c) = r
  <2>1. Md!Index(c) = r
    BY <1>3, <1>4, IndexIs, Zenon
  <2>2. q \in Nat /\ r \in 0..(Block - 1) /\ n = Block * q + r
    BY <1>3, <1>4, Zenon DEF HoldsAt
  <2> QED
    BY <2>1, <2>2, Zenon
<1>6. p \in 1..Block /\ \E a \in Nat : n + p + LenBytes = Block * a
  BY <1>1, <1>5, PadLenIs, Zenon
<1>7. PICK a \in Nat : n + p + LenBytes = Block * a
  BY <1>6, Zenon
<1>8. Block \in Nat \ {0} /\ LenBytes \in 1..(Block - 1)
  BY MdConstants, Zenon
<1>9. p \in Nat
  BY ONLY <1>6, <1>8, SMT
<1>10. pad \in Seq(MdByte) /\ Len(pad) = p
  BY <1>1, <1>9, PaddingIs, Zenon
<1>11. bytes \in Seq(MdByte) /\ Len(bytes) = LenBytes
  BY <1>1, WordsAreNat, LengthBytesIs, Zenon
<1>12. Holds(d, S \o pad)
  BY <1>1, <1>3, <1>10, HoldsMore, Zenon
<1>13. Holds(e, (S \o pad) \o bytes)
  BY <1>1, <1>11, <1>12, HoldsMore, Zenon
<1>14. S \o pad \in Seq(MdByte) /\ Len(S \o pad) = n + p
  BY <1>3, <1>10, ConcatProperties, Zenon
<1>15. Len((S \o pad) \o bytes) = n + p + LenBytes
  BY <1>11, <1>14, ConcatProperties, Zenon
<1>16. e.state = (S \o pad) \o bytes
  <2>1. PICK T : T = (S \o pad) \o bytes
    BY Zenon
  <2>2. Holds(e, T) /\ Len(T) = Block * a
    BY <1>7, <1>13, <1>15, <2>1, Zenon
  <2>3. e.state = T
    BY <2>2, WholeBlocks, Zenon
  <2> QED
    BY <2>1, <2>3, Zenon
<1>17. (CHOOSE z \in 1..Block : (n + z + LenBytes) % Block = 0) = p
  BY <1>6, <1>7, ZerosOnce, Zenon
<1>18. Md!Padded(n) = (S \o pad) \o bytes
  BY <1>1, <1>17, Zenon DEF Md!Padded, LowIs, HighIs
<1> QED
  BY <1>2, <1>16, <1>18, Zenon

(* As long as the length fits into the block that is begun, making it leaves  *)
(* the bytes of the message in the buffer.                                    *)
LEMMA DigestKeeps ==
  ASSUME NEW c, NEW S, Holds(c, S), c.low \in Nat, c.high \in Nat, Md!Index(c) < Block - LenBytes,
         NEW f, f.state = c.state, f.low = c.low, f.buffer = Md!Finished(c).buffer
  PROVE  Holds(f, S)
<1>1. PICK r, p, pad, bytes, d, e :
        /\ r = Md!Index(c) /\ p = Md!PadLen(c)
        /\ pad = Md!Padding(p) /\ bytes = Md!LengthBytes(c.low, c.high)
        /\ d = Md!Updated(c, pad) /\ e = Md!Updated(d, bytes)
  BY Zenon
<1>2. e = Md!Finished(c)
  BY <1>1, Zenon DEF Md!Finished
<1>3. S \in Seq(MdByte) /\ c.low = (8 * Len(S)) % Word /\ c.buffer \in [1..Block -> MdByte]
  BY Zenon DEF Holds
<1>4. PICK q, t : HoldsAt(c, S, q, t)
  BY Zenon DEF Holds
<1>5. PICK l : l = Len(S)
  BY Zenon
<1>6. /\ HoldsAt(c, S, q, r)
      /\ q \in Nat /\ r \in 0..(Block - 1) /\ l = Block * q + r
      /\ \A k \in 1..r : c.buffer[k] = S[Block * q + k]
  <2>1. t = r
    BY <1>1, <1>4, IndexIs, Zenon
  <2>2. HoldsAt(c, S, q, r)
    BY <1>4, <2>1, Zenon
  <2> QED
    BY <1>5, <2>2, Zenon DEF HoldsAt
<1>7. Block \in Nat \ {0} /\ LenBytes \in 1..(Block - 1) /\ r < Block - LenBytes
  BY <1>1, MdConstants, Zenon
<1>8. p = Block - LenBytes - r
  BY <1>1, <1>7, Zenon DEF Md!PadLen
<1>9. /\ p \in Nat /\ p < Block - r /\ r \in Nat /\ LenBytes \in Nat /\ r + p = Block - LenBytes
      /\ ~(LenBytes < LenBytes)
  BY ONLY <1>6, <1>7, <1>8, SMT
<1>10. pad \in Seq(MdByte) /\ Len(pad) = p
  BY <1>1, <1>9, PaddingIs, Zenon
<1>11. bytes \in Seq(MdByte) /\ Len(bytes) = LenBytes
  BY <1>1, LengthBytesIs, Zenon
<1>12. /\ d.buffer = Md!Overwritten(c.buffer, r, pad) /\ d.state = c.state
       /\ Holds(d, S \o pad)
  <2>1. PICK taken : taken = (Block - r) + Block * ((p - (Block - r)) \div Block)
    BY Zenon
  <2>2. UpdateOf(c, pad, r, p, Block - r, taken, d)
    BY <1>1, <1>10, <2>1, Zenon DEF UpdateOf
  <2>3. UpdateLeaves(c, pad, r, p, Block - r, taken, d)
    BY <2>2, UpdatedIs, Zenon
  <2> QED
    BY <1>1, <1>9, <1>10, <2>3, HoldsMore, Zenon DEF UpdateLeaves
<1>13. /\ d.buffer \in [1..Block -> MdByte] /\ HoldsAt(d, S \o pad, q, r + p)
  <2>1. Len(pad) < Block - r
    BY <1>9, <1>10, Zenon
  <2>2. /\ HoldsAt(c, S, q, r) /\ pad \in Seq(MdByte) /\ Block \in Nat \ {0} /\ S \in Seq(MdByte)
        /\ c.buffer \in [1..Block -> MdByte]
    BY <1>3, <1>6, <1>7, <1>10, Zenon
  <2>3. d.state = c.state /\ d.buffer = Md!Overwritten(c.buffer, r, pad)
    BY <1>12, Zenon
  <2>4. d.buffer \in [1..Block -> MdByte] /\ HoldsAt(d, S \o pad, q, r + Len(pad))
    BY ONLY <2>1, <2>2, <2>3, HoldsInBuffer, Zenon
  <2> QED
    BY <1>10, <2>4, Zenon
<1>14. Md!Index(d) = Block - LenBytes
  BY <1>9, <1>12, <1>13, IndexIs, Zenon
<1>15. PICK m : m = Block - LenBytes
  BY Zenon
<1>16. m \in Nat /\ r < m /\ LenBytes = Block - m /\ LenBytes - LenBytes = 0
  BY ONLY <1>6, <1>7, <1>9, <1>15, SMT
<1>17. PICK taken : taken = LenBytes + Block * ((LenBytes - LenBytes) \div Block)
  BY Zenon
<1>18. taken = LenBytes
  <2>1. PICK o : o = LenBytes - LenBytes
    BY Zenon
  <2>2. o = 0
    BY <1>16, <2>1, Zenon
  <2>3. LenBytes + Block * (o \div Block) = LenBytes
    BY ONLY <1>7, <1>9, <2>2, SMT
  <2> QED
    BY <1>17, <2>1, <2>3, Zenon
<1>19. e.buffer = Md!Overwritten(Md!Overwritten(d.buffer, m, SubSeq(bytes, 1, LenBytes)),
                                0, SubSeq(bytes, LenBytes + 1, LenBytes))
  <2>1. UpdateOf(d, bytes, m, LenBytes, LenBytes, taken, e)
    BY <1>1, <1>11, <1>14, <1>15, <1>16, <1>17, Zenon DEF UpdateOf
  <2>2. UpdateLeaves(d, bytes, m, LenBytes, LenBytes, taken, e)
    BY <2>1, UpdatedIs, Zenon
  <2> QED
    BY <1>9, <1>18, <2>2, Zenon DEF UpdateLeaves
<1>20. PICK h, g, y : h = SubSeq(bytes, 1, LenBytes) /\ g = LenBytes + 1 /\ y = SubSeq(bytes, g, LenBytes)
  BY Zenon
<1>21. h \in Seq(MdByte)
  <2>1. LenBytes \in Nat /\ \A i \in 1..LenBytes : bytes[i] \in MdByte
    BY <1>9, <1>11, ElementOfSeq, Zenon
  <2> QED
    BY ONLY <1>20, <2>1, FirstPart
<1>22. y \in Seq(MdByte) /\ Len(y) = 0
  <2>1. g \in Int /\ LenBytes \in Int /\ ~(g <= LenBytes) /\ \A i \in g..LenBytes : bytes[i] \in MdByte
    BY ONLY <1>9, <1>20, SMT
  <2>2. y \in Seq(MdByte) /\ Len(y) = IF g <= LenBytes THEN LenBytes - g + 1 ELSE 0
    BY ONLY <1>20, <2>1, SubSeqProperties
  <2> QED
    BY <2>1, <2>2, Zenon
<1>23. PICK b0, b1, b2, b3 :
         /\ b0 = c.buffer /\ b1 = Md!Overwritten(b0, r, pad)
         /\ b2 = Md!Overwritten(b1, m, h) /\ b3 = Md!Overwritten(b2, 0, y)
  BY Zenon
<1>24. /\ b1 \in [1..Block -> MdByte]
       /\ \A k \in 1..Block : b1[k] = IF k - r \in 1..Len(pad) THEN pad[k - r] ELSE b0[k]
  <2>1. /\ Md!Overwritten(b0, r, pad) \in [1..Block -> MdByte]
        /\ \A k \in 1..Block : Md!Overwritten(b0, r, pad)[k]
             = IF k - r \in 1..Len(pad) THEN pad[k - r] ELSE b0[k]
    <3>1. b0 \in [1..Block -> MdByte] /\ r \in Nat /\ pad \in Seq(MdByte)
      BY <1>3, <1>9, <1>10, <1>23, Zenon
    <3> QED
      BY ONLY <3>1, OverwrittenAt, Zenon
  <2> QED
    BY <1>23, <2>1, Zenon
<1>25. /\ b2 \in [1..Block -> MdByte]
       /\ \A k \in 1..Block : b2[k] = IF k - m \in 1..Len(h) THEN h[k - m] ELSE b1[k]
  <2>1. /\ Md!Overwritten(b1, m, h) \in [1..Block -> MdByte]
        /\ \A k \in 1..Block : Md!Overwritten(b1, m, h)[k]
             = IF k - m \in 1..Len(h) THEN h[k - m] ELSE b1[k]
    <3>1. b1 \in [1..Block -> MdByte] /\ m \in Nat /\ h \in Seq(MdByte)
      BY <1>16, <1>21, <1>24, Zenon
    <3> QED
      BY ONLY <3>1, OverwrittenAt, Zenon
  <2> QED
    BY <1>23, <2>1, Zenon
<1>26. /\ b3 \in [1..Block -> MdByte]
       /\ \A k \in 1..Block : b3[k] = IF k - 0 \in 1..Len(y) THEN y[k - 0] ELSE b2[k]
  <2>1. /\ Md!Overwritten(b2, 0, y) \in [1..Block -> MdByte]
        /\ \A k \in 1..Block : Md!Overwritten(b2, 0, y)[k]
             = IF k - 0 \in 1..Len(y) THEN y[k - 0] ELSE b2[k]
    <3>1. b2 \in [1..Block -> MdByte] /\ 0 \in Nat /\ y \in Seq(MdByte)
      BY <1>22, <1>25, SMT
    <3> QED
      BY ONLY <3>1, OverwrittenAt, Zenon
  <2> QED
    BY <1>23, <2>1, Zenon
<1>27. f.buffer = b3
  BY <1>2, <1>12, <1>19, <1>20, <1>23, Zenon
<1>28. ASSUME NEW k \in 1..r
       PROVE  f.buffer[k] = S[Block * q + k]
  <2>1. k \in 1..Block /\ k \in Int /\ k <= r
    BY ONLY <1>6, <1>7, <1>9, k \in 1..r, SMT
  <2>2. PICK z : z = Len(h)
    BY Zenon
  <2>3. ~(k - r \in 1..p) /\ ~(k - m \in 1..z) /\ ~(k - 0 \in 1..0)
    BY ONLY <1>9, <1>16, <2>1, SMT
  <2>4. b1[k] = b0[k] /\ b2[k] = b1[k] /\ b3[k] = b2[k]
    BY <1>10, <1>22, <1>24, <1>25, <1>26, <2>1, <2>2, <2>3, Zenon
  <2>5. b0[k] = S[Block * q + k]
    BY <1>6, <1>23, Zenon
  <2> QED
    BY <1>27, <2>4, <2>5, Zenon
<1>29. f.buffer \in [1..Block -> MdByte]
  BY <1>26, <1>27, Zenon
<1>30. HoldsAt(f, S, q, r)
  BY <1>6, <1>28, Zenon DEF HoldsAt
<1> QED
  BY <1>3, <1>29, <1>30, Zenon DEF Holds

LEMMA HoldsSame ==
  ASSUME NEW c, NEW S, Holds(c, S), NEW d, d.state = c.state, d.low = c.low, d.buffer = c.buffer
  PROVE  Holds(d, S)
<1>1. PICK q, r : HoldsAt(c, S, q, r)
  BY Zenon DEF Holds
<1>2. HoldsAt(d, S, q, r)
  BY <1>1, Zenon DEF HoldsAt
<1> QED
  BY <1>2, Zenon DEF Holds

(* Until a digest spoils the buffer, the context has gone through the message; *)
(* the count does not depend on it.                                            *)
DigestInv ==
  /\ msgLen \in Nat /\ of \in Nat
  /\ low = LowIs(msgLen) /\ high = HighIs(msgLen)
  /\ buffer \in [1..Block -> MdByte]
  /\ ~spoiled => Holds(Md!Context, Md!Message(1, msgLen))
  /\ sure => digest = Md!Padded(of)

LEMMA ContextIs ==
  /\ Md!Context.state = state /\ Md!Context.low = low
  /\ Md!Context.high = high /\ Md!Context.buffer = buffer
BY Zenon DEF Md!Context

LEMMA ContextNextIs ==
  /\ (Md!Context').state = state' /\ (Md!Context').low = low'
  /\ (Md!Context').high = high' /\ (Md!Context').buffer = buffer'
BY Zenon DEF Md!Context

(* A new context has gone through nothing.                                    *)
LEMMA NothingYet ==
  ASSUME NEW c, c.state = <<>>, c.low = 0, c.buffer \in [1..Block -> MdByte]
  PROVE  Holds(c, Md!Message(1, 0))
<1>1. Block \in Nat \ {0} /\ Word \in Nat \ {0} /\ 0 \in Nat
  BY MdConstants, SMT
<1>2. PICK S : S = Md!Message(1, 0)
  BY Zenon
<1>3. S \in Seq(MdByte) /\ Len(S) = 0
  BY <1>1, <1>2, WholeMessage, Zenon
<1>4. S = <<>>
  BY <1>3, EmptySeq, Zenon
<1>5. Block * 0 = 0 /\ Block * 0 + 0 = 0 /\ 0 \in 0..(Block - 1) /\ (8 * 0) % Word = 0
      /\ \A k \in 1..0 : FALSE
  BY ONLY <1>1, SMT
<1>6. SubSeq(S, 1, 0) = <<>>
  <2>1. PICK o, u : o = 0 /\ u = SubSeq(S, 1, o)
    BY Zenon
  <2>2. o \in Nat /\ \A i \in 1..o : S[i] \in MdByte
    BY ONLY <2>1, SMT
  <2>3. u \in Seq(MdByte) /\ Len(u) = o
    BY ONLY <2>1, <2>2, FirstPart
  <2> QED
    BY <2>1, <2>3, EmptySeq, Zenon
<1>7. HoldsAt(c, S, 0, 0)
  BY <1>1, <1>3, <1>5, <1>6, Zenon DEF HoldsAt
<1> QED
  BY <1>2, <1>3, <1>5, <1>7, Zenon DEF Holds

LEMMA NoBits == LowIs(0) = 0 /\ HighIs(0) = 0 /\ 0 \in Nat
<1>1. Word \in Nat \ {0}
  BY MdConstants, Zenon
<1>2. 8 * 0 = 0 /\ 0 % Word = 0 /\ 0 \div Word = 0 /\ 0 \in Nat
  BY ONLY <1>1, SMT
<1> QED
  BY <1>2, Zenon DEF LowIs, HighIs

LEMMA DigestStarts == Md!Init => DigestInv
<1> SUFFICES ASSUME Md!Init
             PROVE  DigestInv
  OBVIOUS
<1>1. /\ state = <<>> /\ low = 0 /\ high = 0 /\ msgLen = 0 /\ of = 0 /\ ~sure
      /\ buffer = [k \in 1..Block |-> <<"junk", 0>>]
  BY Zenon DEF Md!Init
<1>2. buffer \in [1..Block -> MdByte]
  <2>1. <<"junk", 0>> \in MdByte
    BY NoBits, Zenon DEF MdByte, MdKind
  <2> QED
    BY <1>1, <2>1, Zenon
<1>3. Holds(Md!Context, Md!Message(1, 0))
  BY <1>1, <1>2, ContextIs, NothingYet, Zenon
<1> QED
  BY <1>1, <1>2, <1>3, NoBits, Zenon DEF DigestInv

LEMMA DigestStep == DigestInv /\ (UNCHANGED md5Vars \/ Md!Next) => DigestInv'
<1> SUFFICES ASSUME DigestInv, UNCHANGED md5Vars \/ Md!Next
             PROVE  DigestInv'
  OBVIOUS
<1>1. /\ msgLen \in Nat /\ of \in Nat
      /\ low = LowIs(msgLen) /\ high = HighIs(msgLen)
      /\ buffer \in [1..Block -> MdByte]
      /\ ~spoiled => Holds(Md!Context, Md!Message(1, msgLen))
      /\ sure => digest = Md!Padded(of)
  BY Zenon DEF DigestInv
<1>2. low \in Nat /\ high \in Nat
  BY <1>1, WordsAreNat, Zenon
<1>3. CASE UNCHANGED md5Vars
  <2>1. UNCHANGED <<state, low, high, buffer, digest, msgLen, of, spoiled, sure>>
    BY <1>3, Zenon DEF md5Vars
  <2>2. Md!Context' = Md!Context
    BY <2>1, Zenon DEF Md!Context
  <2>3. ~spoiled' => Holds(Md!Context', Md!Message(1, msgLen'))
    BY <1>1, <2>1, <2>2, Zenon
  <2>4. sure' => digest' = Md!Padded(of')
    BY <1>1, <2>1, Zenon
  <2> QED
    BY <1>1, <2>1, <2>3, <2>4, Zenon DEF DigestInv, LowIs, HighIs, MdByte, MdKind
<1>4. ASSUME NEW n \in 0..MaxPiece, Md!Update(n)
      PROVE  DigestInv'
  <2>1. PICK bytes, c : bytes = Md!Message(msgLen + 1, msgLen + n) /\ c = Md!Updated(Md!Context, bytes)
    BY Zenon
  <2>2. /\ state' = c.state /\ low' = c.low /\ high' = c.high /\ buffer' = c.buffer
        /\ msgLen' = msgLen + n /\ digest' = digest /\ of' = of /\ spoiled' = spoiled /\ sure' = sure
    BY <1>4, <2>1, Zenon DEF Md!Update
  <2>3. n \in Nat
    <3>1. MaxPiece \in 0..(Word - 1)
      BY PartsAssumption, Zenon DEF Md!Md5Assumption
    <3> QED
      BY ONLY <3>1, n \in 0..MaxPiece, SMT
  <2>4. msgLen + n \in Nat
    BY ONLY <1>1, <2>3, SMT
  <2>5. bytes \in Seq(MdByte) /\ Len(bytes) = n
    BY <1>1, <2>1, <2>3, MessageIs, Zenon
  <2>6. c.low = LowIs(msgLen + n) /\ c.high = HighIs(msgLen + n)
    <3>1. PICK r, p, taken : /\ r = Md!Index(Md!Context) /\ p = Block - r
                             /\ taken = p + Block * ((n - p) \div Block)
      BY Zenon
    <3>2. UpdateOf(Md!Context, bytes, r, n, p, taken, c)
      BY <2>1, <2>5, <3>1, Zenon DEF UpdateOf
    <3>3. UpdateLeaves(Md!Context, bytes, r, n, p, taken, c)
      BY <3>2, UpdatedIs, Zenon
    <3>4. c.low = (Md!Context.low + 8 * n) % Word /\ c.high = Md!HighAfter(Md!Context, n)
      BY <3>3, Zenon DEF UpdateLeaves
    <3>5. Md!Context.low = LowIs(msgLen) /\ Md!Context.high = HighIs(msgLen)
      BY <1>1, ContextIs, Zenon
    <3> QED
      BY <1>1, <2>3, <3>4, <3>5, LowMore, HighMore, Zenon
  <2>7. c.buffer \in [1..Block -> MdByte]
    BY <1>1, <1>2, <2>1, <2>5, ContextIs, UpdatedBuffer, Zenon
  <2>8. ASSUME ~spoiled
        PROVE  Holds(Md!Context', Md!Message(1, msgLen + n))
    <3>1. Holds(c, Md!Message(1, msgLen) \o bytes)
      BY <1>1, <2>1, <2>5, <2>8, HoldsMore, Zenon
    <3>2. Holds(c, Md!Message(1, msgLen + n))
      BY <1>1, <2>1, <2>3, <3>1, MessageGoesOn, Zenon
    <3> QED
      BY <2>2, <3>2, ContextNextIs, HoldsSame, Zenon
  <2>9. sure' => digest' = Md!Padded(of')
    BY <1>1, <2>2, Zenon
  <2>10. ~spoiled' => Holds(Md!Context', Md!Message(1, msgLen'))
    BY <2>2, <2>8, Zenon
  <2> QED
    BY <1>1, <2>2, <2>4, <2>6, <2>7, <2>9, <2>10, Zenon DEF DigestInv, LowIs, HighIs, MdByte, MdKind
<1>5. CASE Md!Digest
  <2>1. /\ digest' = Md!Finished(Md!Context).state
        /\ buffer' = Md!Finished(Md!Context).buffer
        /\ of' = msgLen /\ sure' = ~spoiled
        /\ spoiled' = (spoiled \/ Md!Index(Md!Context) >= Block - LenBytes)
        /\ UNCHANGED <<state, low, high, msgLen>>
    BY <1>5, Zenon DEF Md!Digest
  <2>2. buffer' \in [1..Block -> MdByte]
    <3>1. PICK p, pad, bytes, d : /\ p = Md!PadLen(Md!Context) /\ pad = Md!Padding(p)
                                  /\ bytes = Md!LengthBytes(low, high)
                                  /\ d = Md!Updated(Md!Context, pad)
      BY Zenon
    <3>2. buffer' = Md!Updated(d, bytes).buffer
      BY <2>1, <3>1, ContextIs, Zenon DEF Md!Finished
    <3>3. p \in Nat
      <4>1. PICK w, i : w = Md!Context.low \div 8 /\ i = w % Block
        BY Zenon
      <4>2. Block \in Nat \ {0} /\ LenBytes \in 1..(Block - 1)
        BY MdConstants, Zenon
      <4>3. w \in Nat
        <5>1. w = low \div 8
          BY <4>1, ContextIs, Zenon
        <5> QED
          BY ONLY <1>2, <5>1, SMT
      <4>4. i \in 0..(Block - 1)
        BY ONLY <4>1, <4>2, <4>3, Division, Zenon
      <4>5. Md!Index(Md!Context) = i
        BY <4>1, Zenon DEF Md!Index
      <4>6. 0 \in Nat
        BY SMT
      <4>7. p \in 1..Block
        BY <3>1, <4>4, <4>5, <4>6, PadLenIs, Zenon
      <4> QED
        BY ONLY <4>2, <4>7, SMT
    <3>4. pad \in Seq(MdByte) /\ bytes \in Seq(MdByte)
      BY <1>2, <3>1, <3>3, PaddingIs, LengthBytesIs, Zenon
    <3>5. d.buffer \in [1..Block -> MdByte]
      BY <1>1, <1>2, <3>1, <3>4, ContextIs, UpdatedBuffer, Zenon
    <3>6. d.low \in Nat
      <4>1. PICK n, r, q, taken :
              /\ n = Len(pad) /\ r = Md!Index(Md!Context) /\ q = Block - r
              /\ taken = q + Block * ((n - q) \div Block)
        BY Zenon
      <4>2. UpdateOf(Md!Context, pad, r, n, q, taken, d)
        BY <3>1, <4>1, Zenon DEF UpdateOf
      <4>3. UpdateLeaves(Md!Context, pad, r, n, q, taken, d)
        BY <4>2, UpdatedIs, Zenon
      <4>4. d.low = (low + 8 * n) % Word
        BY <4>3, ContextIs, Zenon DEF UpdateLeaves
      <4>5. n \in Nat /\ Word \in Nat \ {0}
        BY <3>4, <4>1, LenProperties, MdConstants
      <4> QED
        BY ONLY <1>2, <4>4, <4>5, SMT
    <3> QED
      BY <3>2, <3>4, <3>5, <3>6, UpdatedBuffer, Zenon
  <2>3. ASSUME ~spoiled
        PROVE  digest' = Md!Padded(of')
    <3>1. Holds(Md!Context, Md!Message(1, msgLen))
      BY <1>1, <2>3, Zenon
    <3>2. Md!Context.low = LowIs(msgLen) /\ Md!Context.high = HighIs(msgLen)
      BY <1>1, ContextIs, Zenon
    <3>3. Md!Finished(Md!Context).state = Md!Padded(msgLen)
      BY <1>1, <3>1, <3>2, DigestIs, Zenon
    <3> QED
      BY <2>1, <3>3, Zenon
  <2>4. ASSUME ~spoiled'
        PROVE  Holds(Md!Context', Md!Message(1, msgLen'))
    <3>1. ~spoiled /\ ~(Md!Index(Md!Context) >= Block - LenBytes)
      BY <2>1, <2>4, Zenon
    <3>2. PICK S, f, c, r : /\ S = Md!Message(1, msgLen) /\ f = Md!Context' /\ c = Md!Context
                            /\ r = Md!Index(c)
      BY Zenon
    <3>3. Holds(c, S) /\ c.low \in Nat /\ c.high \in Nat
      BY <1>1, <1>2, <3>1, <3>2, ContextIs, Zenon
    <3>4. PICK q, t : HoldsAt(c, S, q, t)
      BY <3>3, Zenon DEF Holds
    <3>5. r = t /\ t \in 0..(Block - 1)
      <4>1. r = t
        BY <3>2, <3>3, <3>4, IndexIs, Zenon
      <4> QED
        BY <3>4, <4>1, Zenon DEF HoldsAt
    <3>6. r < Block - LenBytes
      <4>1. ~(r >= Block - LenBytes) /\ Block \in Nat \ {0} /\ LenBytes \in 1..(Block - 1)
        BY <3>1, <3>2, MdConstants, Zenon
      <4> QED
        BY ONLY <3>5, <4>1, SMT
    <3>7. f.state = c.state /\ f.low = c.low /\ f.buffer = Md!Finished(c).buffer
      BY <2>1, <3>2, ContextIs, ContextNextIs, Zenon
    <3>8. Holds(f, S)
      BY <3>2, <3>3, <3>6, <3>7, DigestKeeps, Zenon
    <3> QED
      BY <2>1, <3>2, <3>8, Zenon
  <2>5. sure' => digest' = Md!Padded(of')
    BY <2>1, <2>3, Zenon
  <2> QED
    BY <1>1, <2>1, <2>2, <2>4, <2>5, Zenon DEF DigestInv, LowIs, HighIs, MdByte, MdKind
<1>6. CASE Md!Reset
  <2>1. /\ state' = <<>> /\ low' = 0 /\ high' = 0 /\ msgLen' = 0 /\ of' = 0 /\ ~sure'
        /\ buffer' = buffer
    BY <1>6, Zenon DEF Md!Reset
  <2>2. Holds(Md!Context', Md!Message(1, 0))
    BY <1>1, <2>1, ContextNextIs, NothingYet, Zenon
  <2>3. Holds(Md!Context', Md!Message(1, msgLen'))
    BY <2>1, <2>2, Zenon
  <2> QED
    BY <1>1, <2>1, <2>3, NoBits, Zenon DEF DigestInv, LowIs, HighIs, MdByte, MdKind
<1> QED
  BY <1>3, <1>4, <1>5, <1>6, Zenon DEF Md!Next

LEMMA DigestShows == DigestInv => Md!DigestOfMessage
BY Zenon DEF DigestInv, Md!DigestOfMessage
=============================================================================
