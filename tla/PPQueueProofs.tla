----------------------------- MODULE PPQueueProofs ---------------------------
(***************************************************************************)
(* Theorems about PPQueue, for any workers and priorities and any number   *)
(* of objects alive: the heap is a heap, its indices are right, the map is *)
(* in step with it, and the queue implements WorkerPool.                   *)
(*                                                                         *)
(* The loops of container/heap run on an argument each: up on a slice that *)
(* is a heap but for one position, which may be above its parent, down on  *)
(* one that is a heap but for the children of one position.  A call hands  *)
(* them a heap in which the priority of one Worker changed, and gets one   *)
(* back with the same Workers in it.                                       *)
(***************************************************************************)
EXTENDS PPQueue, WellFoundedInduction, TLAPS

(***************************************************************************)
(* Loops.  heap.up, heap.down and the two loops of the queue are recursive *)
(* functions of the number of turns, each written for as many turns as     *)
(* there can be.                                                           *)
(***************************************************************************)

\* A set of numbers that is not empty has a least one.
LEMMA NatMin ==
  ASSUME NEW T, T \subseteq Nat, T # {}
  PROVE  \E x \in T : \A y \in T : x <= y
<1> DEFINE R == OpToRel(<, Nat)
<1>1. R = {ss \in Nat \X Nat : ss[1] < ss[2]}
  BY DEF OpToRel
<1>2. IsWellFoundedOn(R, Nat)
  BY NatLessThanWellFounded
<1> HIDE DEF R
<1>3. PICK x \in T : \A y \in T : ~ (<<y, x>> \in R)
  BY <1>2, WFMin
<1>4. ASSUME NEW y \in T PROVE x <= y
  <2>1. x \in Nat /\ y \in Nat
    OBVIOUS
  <2>2. y < x => <<y, x>> \in R
    BY <1>1, <2>1
  <2> QED
    BY <1>3, <2>1, <2>2
<1> QED
  BY <1>4

\* Induction over the numbers up to n, with the numbers it holds for as a set.
LEMMA SetInduction ==
  ASSUME NEW T, NEW n \in Nat, 0 \in T,
         \A k \in 1..n : k - 1 \in T => k \in T
  PROVE  0..n \subseteq T
<1> SUFFICES ASSUME (0..n) \ T # {} PROVE FALSE
  OBVIOUS
<1> DEFINE D == (0..n) \ T
<1>1. PICK k \in D : \A m \in D : k <= m
  <2>1. D \subseteq Nat /\ D # {}
    OBVIOUS
  <2> HIDE DEF D
  <2> QED
    BY <2>1, NatMin
<1>2. k # 0 /\ k \in 1..n /\ k - 1 \in 0..n
  BY <1>1
<1>3. k - 1 \in T
  BY <1>1, <1>2
<1> QED
  BY <1>1, <1>2, <1>3

\* A loop whose k-th turn goes from S[k - 1] to S[k] stays there.
LEMMA LoopStays ==
  ASSUME NEW n \in Nat, NEW S, NEW run, run[0] \in S[0],
         \A k \in 1..n : run[k - 1] \in S[k - 1] => run[k] \in S[k]
  PROVE  \A k \in 0..n : run[k] \in S[k]
<1> DEFINE T == {k \in 0..n : run[k] \in S[k]}
<1>1. 0 \in T
  OBVIOUS
<1>2. \A k \in 1..n : k - 1 \in T => k \in T
  OBVIOUS
<1>3. 0..n \subseteq T
  <2> HIDE DEF T
  <2> QED
    BY <1>1, <1>2, SetInduction
<1> QED
  BY <1>3

\* The k-th turn, F[k], goes from S[k - 1] to S[k].
Turns(n, S, F) == \A k \in 1..n : \A x \in S[k - 1] : F[k][x] \in S[k]

\* The states of a loop that begins in s.
IsRun(run, n, S, F, s) ==
  /\ run = [k \in 0..n |-> run[k]]
  /\ run[0] = s
  /\ \A k \in 0..n : run[k] \in S[k]
  /\ \A k \in 1..n : run[k] = F[k][run[k - 1]]

\* And there is one: the recursive function that the loop is written as.
LEMMA LoopExists ==
  ASSUME NEW n \in Nat, NEW S, NEW F, NEW s \in S[0], Turns(n, S, F)
  PROVE  \E run : IsRun(run, n, S, F, s)
<1> USE DEF Turns
<1> DEFINE Runs(m) == {run \in [0..m -> UNION {S[k] : k \in 0..n}] :
                         /\ run[0] = s
                         /\ \A k \in 0..m : run[k] \in S[k]
                         /\ \A k \in 1..m : run[k] = F[k][run[k - 1]]}
           T == {m \in 0..n : Runs(m) # {}}
<1>1. 0 \in T
  <2>1. [k \in 0..0 |-> s] \in Runs(0)
    OBVIOUS
  <2> QED
    BY <2>1
<1>2. ASSUME NEW m \in 1..n, m - 1 \in T PROVE m \in T
  <2>1. PICK run : run \in Runs(m - 1)
    BY <1>2
  <2>2. F[m][run[m - 1]] \in S[m] /\ run[m - 1] \in S[m - 1]
    BY <2>1
  <2> DEFINE r == [k \in 0..m |-> IF k = m THEN F[m][run[m - 1]] ELSE run[k]]
  <2>3. \A k \in 0..m : r[k] \in S[k]
    BY <2>1, <2>2
  <2>4. \A k \in 1..m : r[k] = F[k][r[k - 1]]
    BY <2>1, <2>2
  <2>5. r[0] = s
    BY <2>1
  <2>6. r \in [0..m -> UNION {S[k] : k \in 0..n}]
    BY <2>3
  <2> HIDE DEF r
  <2>7. r \in Runs(m)
    BY <2>3, <2>4, <2>5, <2>6
  <2> HIDE DEF Runs
  <2> QED
    BY <2>7
<1>3. n \in T
  <2> HIDE DEF T
  <2> QED
    BY <1>1, <1>2, SetInduction
<1>4. PICK run : run \in Runs(n)
  BY <1>3
<1>5. run = [k \in 0..n |-> run[k]]
  BY <1>4
<1> QED
  BY <1>4, <1>5 DEF IsRun

-----------------------------------------------------------------------------
(***************************************************************************)
(* Slices.  A slice and the memory its Workers are in, and what a swap     *)
(* does to them.                                                           *)
(***************************************************************************)

\* Workers in memory with any numbers in their fields.
Objects == [Identity : Workers \cup {None}, priority : Int, index : Int, ttl : Int]

\* Slices of any Workers, with the memory they are in.
Heaps == [q : Seq(Refs), o : [Refs -> Objects]]

\* The indices of the slice.
Positions(h) == 0..(Len0(h) - 1)

\* Every Worker knows its own position.
Indexed(h) ==
  /\ h \in Heaps
  /\ \A i \in Positions(h) : h.o[At(h, i)].index = i
  /\ \A r \in Refs : \/ h.o[r].index = INVALID_INDEX
                     \/ h.o[r].index \in Positions(h) /\ At(h, h.o[r].index) = r

\* The priority at a position.
Prio(h, i) == h.o[At(h, i)].priority

\* The same Workers, wherever they are in the slice.
SameWorkers(g, h) ==
  \A r \in Refs : /\ g.o[r].Identity = h.o[r].Identity
                  /\ g.o[r].priority = h.o[r].priority
                  /\ g.o[r].ttl = h.o[r].ttl

\* What the code takes for being in the slice.
In(h, r) == h.o[r].index # INVALID_INDEX

\* g is h with the positions below n in another order.
Arranged(g, h, n) ==
  /\ Indexed(g)
  /\ SameWorkers(g, h)
  /\ Len0(g) = Len0(h)
  /\ \A r \in Refs : In(g, r) <=> In(h, r)
  /\ \A k \in n..(Len0(h) - 1) : At(g, k) = At(h, k)

\* What is at a position.
LEMMA AtType == ASSUME NEW h \in Heaps, NEW i \in Positions(h)
  PROVE At(h, i) \in Refs /\ Len0(h) \in Nat /\ i \in Nat /\ Prio(h, i) \in Int
  BY DEF Heaps, Positions, At, Len0, Prio, Objects

\* Two rearrangements are one.
LEMMA ArrangedTrans ==
  ASSUME NEW f, NEW g, NEW h, NEW n, Arranged(f, g, n), Arranged(g, h, n)
  PROVE Arranged(f, h, n)
  BY DEF Arranged, SameWorkers

\* An assignment to the index field.
LEMMA ObjectFields ==
  ASSUME NEW x \in Objects, NEW m \in Int
  PROVE  /\ [x EXCEPT !.index = m] \in Objects
         /\ [x EXCEPT !.index = m].index = m
         /\ [x EXCEPT !.index = m].Identity = x.Identity
         /\ [x EXCEPT !.index = m].priority = x.priority
         /\ [x EXCEPT !.index = m].ttl = x.ttl
  BY DEF Objects

\* WorkerQueue.Swap rearranges two Workers, and the indices with them.
LEMMA SwapOK ==
  ASSUME NEW h, Indexed(h), NEW i \in Positions(h), NEW j \in Positions(h), i # j,
         NEW n \in Nat, i < n, j < n, n <= Len0(h)
  PROVE  LET g == Swap(h, i, j) IN
         /\ Arranged(g, h, n)
         /\ \A k \in Positions(h) : Prio(g, k) = IF k = i THEN Prio(h, j)
              ELSE IF k = j THEN Prio(h, i) ELSE Prio(h, k)
<1> DEFINE g == Swap(h, i, j)
           a == At(h, i)
           b == At(h, j)
           N == Len0(h)
<1>0. a \in Refs /\ b \in Refs /\ N \in Nat /\ i \in Nat /\ j \in Nat /\ i < N /\ j < N
  BY AtType DEF Indexed, Positions
<1>01. h \in Heaps /\ h.q \in Seq(Refs) /\ Len(h.q) = N /\ h.o \in [Refs -> Objects]
  BY DEF Indexed, Heaps, Len0
<1>02. a # b
  BY DEF Indexed
<1>1. g.q = [h.q EXCEPT ![i + 1] = b, ![j + 1] = a]
  BY DEF Swap
<1>2. g.o = [h.o EXCEPT ![b].index = i, ![a].index = j]
  BY DEF Swap
<1>3. g.q \in Seq(Refs) /\ Len0(g) = N
  BY <1>0, <1>01, <1>1 DEF Len0
<1>4. \A k \in Positions(h) : At(g, k) = IF k = i THEN b ELSE IF k = j THEN a ELSE At(h, k)
  BY <1>0, <1>01, <1>1 DEF Positions, At
<1>21. DOMAIN g.o = Refs /\ g.o = [r \in Refs |-> g.o[r]]
  BY <1>01, <1>2
<1>22. ASSUME NEW r \in Refs
       PROVE g.o[r] = IF r = a THEN [h.o[r] EXCEPT !.index = j]
                     ELSE IF r = b THEN [h.o[r] EXCEPT !.index = i] ELSE h.o[r]
  BY <1>0, <1>01, <1>02, <1>2
<1>23. \A r \in Refs : h.o[r] \in Objects /\ i \in Int /\ j \in Int
  BY <1>0, <1>01
<1> HIDE DEF g, a, b
<1>24. ASSUME NEW r \in Refs
       PROVE  /\ g.o[r] \in Objects
              /\ g.o[r].index = IF r = a THEN j ELSE IF r = b THEN i ELSE h.o[r].index
              /\ g.o[r].Identity = h.o[r].Identity
              /\ g.o[r].priority = h.o[r].priority
              /\ g.o[r].ttl = h.o[r].ttl
  <2>1. CASE r = a
    <3>1. g.o[r] = [h.o[r] EXCEPT !.index = j]
      BY <2>1, <1>22
    <3> QED
      BY <2>1, <3>1, <1>23, ObjectFields
  <2>2. CASE r # a /\ r = b
    <3>1. g.o[r] = [h.o[r] EXCEPT !.index = i]
      BY <2>2, <1>22
    <3> QED
      BY <2>2, <3>1, <1>23, ObjectFields
  <2>3. CASE r # a /\ r # b
    BY <2>3, <1>22, <1>23
  <2> QED BY <2>1, <2>2, <2>3
<1>5. g.o \in [Refs -> Objects]
  BY <1>24, <1>21
<1>6. \A r \in Refs : g.o[r].index = IF r = a THEN j ELSE IF r = b THEN i ELSE h.o[r].index
  BY <1>24
<1>7. SameWorkers(g, h)
  BY <1>24 DEF SameWorkers
<1>8. g \in Heaps
  BY <1>3, <1>5 DEF Heaps, Swap, g
<1> HIDE DEF g, a, b, N
<1>9. Positions(g) = Positions(h)
  BY <1>3 DEF Positions, N
<1>10. ASSUME NEW k \in Positions(h) PROVE g.o[At(g, k)].index = k
  <2>1. At(h, k) \in Refs
    BY <1>01, AtType
  <2>2. CASE k = i
    BY <2>2, <1>4, <1>6, <1>0, <1>02
  <2>3. CASE k = j
    BY <2>3, <1>4, <1>6, <1>0, <1>02
  <2>4. CASE k # i /\ k # j
    <3>1. At(h, k) # a /\ At(h, k) # b
      BY <2>4 DEF Indexed, a, b
    <3> QED
      BY <2>1, <2>4, <3>1, <1>4, <1>6 DEF Indexed
  <2> QED BY <2>2, <2>3, <2>4
<1>11. ASSUME NEW r \in Refs
       PROVE g.o[r].index = INVALID_INDEX
         \/ (g.o[r].index \in Positions(h) /\ At(g, g.o[r].index) = r)
  <2>1. CASE r = a \/ r = b
    BY <2>1, <1>4, <1>6, <1>02
  <2>2. CASE r # a /\ r # b
    <3>1. g.o[r].index = h.o[r].index
      BY <2>2, <1>6
    <3>2. (h.o[r].index # i /\ h.o[r].index # j) \/ h.o[r].index = INVALID_INDEX
      BY <2>2 DEF Indexed, a, b
    <3> QED
      BY <3>1, <3>2, <1>4 DEF Indexed
  <2> QED BY <2>1, <2>2
<1>12. Indexed(g)
  BY <1>8, <1>9, <1>10, <1>11 DEF Indexed
<1>13. ASSUME NEW r \in Refs PROVE In(g, r) <=> In(h, r)
  BY <1>6, <1>0, <1>02 DEF In, Indexed, a, b, INVALID_INDEX
<1>14. \A k \in n..(Len0(h) - 1) : At(g, k) = At(h, k)
  BY <1>4, <1>0 DEF Positions, N
<1>15. Arranged(g, h, n)
  BY <1>12, <1>7, <1>3, <1>13, <1>14 DEF Arranged, N
<1>16. ASSUME NEW k \in Positions(h)
       PROVE Prio(g, k) = IF k = i THEN Prio(h, j) ELSE IF k = j THEN Prio(h, i) ELSE Prio(h, k)
  BY <1>4, <1>7, <1>0, AtType, <1>01 DEF Prio, SameWorkers, a, b
<1> QED
  BY <1>15, <1>16 DEF g

-----------------------------------------------------------------------------
(* heap.up. *)

\* Position c is one of the two below p.
Child(c, p) == c = 2 * p + 1 \/ c = 2 * p + 2

\* The positions below n are a heap.
Ordered(h, n) ==
  \A c, p \in 0..(n - 1) : Child(c, p) => Prio(h, p) >= Prio(h, c)

\* Ordered but for position j, which may be above its parent.
OrderedBut(h, n, j) ==
  /\ \A c, p \in 0..(n - 1) : Child(c, p) /\ c # j => Prio(h, p) >= Prio(h, c)
  /\ \A c, p \in 0..(n - 1) : Child(j, p) /\ Child(c, j) => Prio(h, p) >= Prio(h, c)

\* The parent of a position, as up computes it.
LEMMA Parent ==
  ASSUME NEW c \in Nat, c > 0
  PROVE  (c - 1) \div 2 \in Nat /\ (c - 1) \div 2 < c /\ Child(c, (c - 1) \div 2)
  BY DEF Child

\* No other position has it below.
LEMMA UniqueParent ==
  ASSUME NEW c \in Nat, NEW p \in Nat, Child(c, p)
  PROVE  p = (c - 1) \div 2 /\ c > 0 /\ p < c
  BY DEF Child

\* Where k turns of up may have got to, from position j.
UpStates(h, n, j, k) ==
  {x \in [h : Heaps, at : 0..(n - 1)] :
     /\ Arranged(x.h, h, n)
     /\ OrderedBut(x.h, n, x.at)
     /\ x.at + k <= j \/ UpTurn(x) = x}

\* A turn that moves swaps a Worker with its smaller parent.
LEMMA UpTurnMoves ==
  ASSUME NEW n \in Nat, NEW x \in [h : Heaps, at : 0..(n - 1)], UpTurn(x) # x
  PROVE  LET p == (x.at - 1) \div 2 IN
         /\ x.at > 0 /\ p \in 0..(n - 1) /\ p < x.at /\ Child(x.at, p)
         /\ Prio(x.h, x.at) > Prio(x.h, p)
         /\ UpTurn(x) = [h |-> Swap(x.h, p, x.at), at |-> p]
<1> DEFINE p == (x.at - 1) \div 2
<1>1. x.at > 0 /\ Less(x.h, x.at, p) /\ UpTurn(x) = [h |-> Swap(x.h, p, x.at), at |-> p]
  BY DEF UpTurn
<1>2. p \in 0..(n - 1) /\ p < x.at /\ Child(x.at, p)
  BY <1>1, Parent
<1> QED
  BY <1>1, <1>2 DEF Less, Prio

\* Where no turn moves any more, there is a heap.
LEMMA UpTurnEnds ==
  ASSUME NEW n \in Nat, NEW x \in [h : Heaps, at : 0..(n - 1)], n <= Len0(x.h),
         OrderedBut(x.h, n, x.at), UpTurn(x) = x
  PROVE  Ordered(x.h, n)
<1> DEFINE q == (x.at - 1) \div 2
<1>1. x.at = 0 \/ ~ Less(x.h, x.at, q)
  <2> SUFFICES ASSUME x.at > 0, Less(x.h, x.at, q) PROVE FALSE
    OBVIOUS
  <2>1. UpTurn(x).at = q
    BY DEF UpTurn
  <2>2. q # x.at
    BY Parent
  <2> QED
    BY <2>1, <2>2
<1> SUFFICES ASSUME NEW c \in 0..(n - 1), NEW p \in 0..(n - 1), Child(c, p)
             PROVE  Prio(x.h, p) >= Prio(x.h, c)
  BY DEF Ordered
<1>2. CASE c # x.at
  BY <1>2 DEF OrderedBut
<1>3. CASE c = x.at
  <2>1. p = q /\ c > 0
    BY <1>3, UniqueParent
  <2>2. ~ (Prio(x.h, c) > Prio(x.h, p))
    BY <1>1, <1>3, <2>1 DEF Less, Prio
  <2>3. Prio(x.h, c) \in Int /\ Prio(x.h, p) \in Int
    <3>1. Len0(x.h) \in Nat
      BY DEF Heaps, Len0
    <3>2. c \in Positions(x.h) /\ p \in Positions(x.h)
      BY <3>1 DEF Positions
    <3> QED
      BY <3>2, AtType
  <2> QED
    BY <2>2, <2>3
<1> QED
  BY <1>2, <1>3

\* A turn keeps what is ordered but for the Worker that goes up.
LEMMA UpTurnOrder ==
  ASSUME NEW n \in Nat, NEW x \in [h : Heaps, at : 0..(n - 1)], n <= Len0(x.h), Indexed(x.h),
         OrderedBut(x.h, n, x.at), UpTurn(x) # x
  PROVE  LET y == UpTurn(x) IN
         /\ y \in [h : Heaps, at : 0..(n - 1)] /\ y.at < x.at
         /\ Arranged(y.h, x.h, n)
         /\ OrderedBut(y.h, n, y.at)
<1> DEFINE p == (x.at - 1) \div 2
           g == Swap(x.h, p, x.at)
           j == x.at
<1>1. /\ j > 0 /\ p \in 0..(n - 1) /\ p < j /\ Child(j, p)
      /\ Prio(x.h, j) > Prio(x.h, p)
      /\ UpTurn(x) = [h |-> g, at |-> p]
  BY UpTurnMoves
<1>2. Len0(x.h) \in Nat
  BY DEF Heaps, Len0
<1>3. j \in 0..(n - 1) /\ x.h \in Heaps
  OBVIOUS
<1>4. \A k \in 0..(n - 1) : k \in Positions(x.h) /\ Prio(x.h, k) \in Int
  BY <1>2, <1>3, AtType DEF Positions
<1>5. Arranged(g, x.h, n)
  BY <1>1, <1>3, <1>4, SwapOK
<1>6. \A k \in 0..(n - 1) : Prio(g, k) = IF k = p THEN Prio(x.h, j)
        ELSE IF k = j THEN Prio(x.h, p) ELSE Prio(x.h, k)
  BY <1>1, <1>3, <1>4, SwapOK
<1>7. g \in Heaps
  BY <1>5 DEF Arranged, Indexed
<1> HIDE DEF g, p, j
<1>8. ASSUME NEW c \in 0..(n - 1), NEW d \in 0..(n - 1), Child(c, d), c # p
      PROVE  Prio(g, d) >= Prio(g, c)
  <2>1. CASE d = p
    <3>1. c = j \/ (c # j /\ Prio(x.h, p) >= Prio(x.h, c))
      BY <1>8, <2>1 DEF OrderedBut, j
    <3> QED
      BY <3>1, <2>1, <1>1, <1>3, <1>4, <1>6, <1>8
  <2>2. CASE d = j
    <3>1. c # j /\ c # p /\ Prio(x.h, p) >= Prio(x.h, c)
      BY <1>8, <2>2, <1>1, <1>3 DEF OrderedBut, Child, j
    <3> QED
      BY <3>1, <2>2, <1>1, <1>3, <1>4, <1>6, <1>8
  <2>3. CASE d # p /\ d # j
    <3>1. c # j
      BY <1>1, <1>3, <1>8, <2>3 DEF Child
    <3>2. Prio(x.h, d) >= Prio(x.h, c)
      BY <3>1, <1>8 DEF OrderedBut, j
    <3> QED
      BY <3>1, <3>2, <2>3, <1>6, <1>8
  <2> QED
    BY <2>1, <2>2, <2>3
<1>9. ASSUME NEW c \in 0..(n - 1), NEW d \in 0..(n - 1), Child(p, d), Child(c, p)
      PROVE  Prio(g, d) >= Prio(g, c)
  <2>1. d # p /\ d # j /\ c # p /\ p # j
    BY <1>1, <1>3, <1>9 DEF Child
  <2>2. Prio(x.h, d) >= Prio(x.h, p)
    BY <1>1, <2>1, <1>9 DEF OrderedBut, j
  <2>3. CASE c = j
    BY <2>1, <2>2, <2>3, <1>6, <1>3, <1>1, <1>9
  <2>4. CASE c # j
    <3>1. Prio(x.h, p) >= Prio(x.h, c)
      BY <2>4, <1>9, <1>1 DEF OrderedBut, j
    <3> QED
      BY <2>1, <2>2, <2>4, <3>1, <1>6, <1>4, <1>1, <1>9
  <2> QED
    BY <2>3, <2>4
<1>10. OrderedBut(g, n, p)
  BY <1>8, <1>9 DEF OrderedBut
<1> QED
  BY <1>1, <1>5, <1>7, <1>10 DEF p, g, j

\* No swap is a rearrangement.
LEMMA ArrangedRefl == ASSUME NEW h, Indexed(h), NEW n PROVE Arranged(h, h, n)
  BY DEF Arranged, SameWorkers

\* The loop of up, one turn on.
LEMMA UpTurnStates ==
  ASSUME NEW n \in Nat, NEW h, Indexed(h), n <= Len0(h), NEW j \in 0..(n - 1), NEW k \in 1..j,
         NEW x \in UpStates(h, n, j, k - 1)
  PROVE  UpTurn(x) \in UpStates(h, n, j, k)
<1>1. x \in [h : Heaps, at : 0..(n - 1)] /\ Arranged(x.h, h, n) /\ OrderedBut(x.h, n, x.at)
  BY DEF UpStates
<1>2. CASE UpTurn(x) = x
  BY <1>1, <1>2 DEF UpStates
<1>3. CASE UpTurn(x) # x
  <2>1. Indexed(x.h) /\ n <= Len0(x.h)
    BY <1>1 DEF Arranged
  <2>2. x.at + (k - 1) <= j
    BY <1>3 DEF UpStates
  <2> DEFINE y == UpTurn(x)
  <2>3. y \in [h : Heaps, at : 0..(n - 1)] /\ y.at < x.at /\ Arranged(y.h, x.h, n)
        /\ OrderedBut(y.h, n, y.at)
    BY <1>1, <1>3, <2>1, UpTurnOrder
  <2> HIDE DEF y
  <2>4. Arranged(y.h, h, n)
    BY <1>1, <2>3, ArrangedTrans
  <2>5. y.at + k <= j
    BY <1>1, <2>2, <2>3
  <2>6. y \in UpStates(h, n, j, k)
    BY <2>3, <2>4, <2>5 DEF UpStates
  <2> QED
    BY <2>6 DEF y
<1> QED
  BY <1>2, <1>3

\* heap.up makes a heap of what was ordered but for position j.
LEMMA UpOK ==
  ASSUME NEW n \in Nat, NEW h, Indexed(h), n <= Len0(h), NEW j \in 0..(n - 1),
         OrderedBut(h, n, j)
  PROVE  Arranged(Up(h, j), h, n) /\ Ordered(Up(h, j), n)
<1> DEFINE s == [h |-> h, at |-> j]
           S == [k \in 0..j |-> UpStates(h, n, j, k)]
           F == [k \in 1..j |-> [x \in S[k - 1] |-> UpTurn(x)]]
           turn == CHOOSE f : f = [k \in 0..j |-> IF k = 0 THEN s ELSE UpTurn(f[k - 1])]
<1>1. Up(h, j) = turn[j].h
  BY DEF Up
<1>2. s \in S[0]
  <2>1. h \in Heaps
    BY DEF Indexed
  <2> QED
    BY <2>1, ArrangedRefl DEF UpStates
<1>3. ASSUME NEW k \in 1..j, NEW x \in S[k - 1] PROVE UpTurn(x) \in S[k]
  BY <1>3, UpTurnStates
<1>4. Turns(j, S, F)
  <2>1. ASSUME NEW k \in 1..j, NEW x \in S[k - 1] PROVE F[k][x] \in S[k]
    <3> HIDE DEF S
    <3> QED
      BY <1>3
  <2> HIDE DEF S, F
  <2> QED
    BY <2>1 DEF Turns
<1>41. \E run : IsRun(run, j, S, F, s)
  <2>1. j \in Nat
    OBVIOUS
  <2> HIDE DEF s, S, F, turn
  <2> QED
    BY <1>2, <1>4, <2>1, LoopExists
<1>5. PICK run : /\ run = [k \in 0..j |-> run[k]]
                 /\ run[0] = s
                 /\ \A k \in 0..j : run[k] \in S[k]
                 /\ \A k \in 1..j : run[k] = F[k][run[k - 1]]
  BY <1>41 DEF IsRun
<1>6. run = [k \in 0..j |-> IF k = 0 THEN s ELSE UpTurn(run[k - 1])]
  <2>1. ASSUME NEW k \in 1..j PROVE run[k] = UpTurn(run[k - 1])
    <3>1. run[k - 1] \in S[k - 1]
      <4> HIDE DEF S, F
      <4> QED
        BY <1>5
    <3>2. F[k] = [x \in S[k - 1] |-> UpTurn(x)]
      <4> HIDE DEF S
      <4> QED
        OBVIOUS
    <3> HIDE DEF S, F
    <3> QED
      BY <1>5, <3>1, <3>2
  <2> HIDE DEF s, S, F, turn
  <2>2. \A k \in 0..j : run[k] = IF k = 0 THEN s ELSE UpTurn(run[k - 1])
    <3> SUFFICES ASSUME NEW k \in 0..j PROVE run[k] = IF k = 0 THEN s ELSE UpTurn(run[k - 1])
      OBVIOUS
    <3>1. k = 0 \/ k \in 1..j
      OBVIOUS
    <3> QED
      BY <1>5, <2>1, <3>1
  <2> QED
    BY <1>5, <2>2
<1>7. turn = [k \in 0..j |-> IF k = 0 THEN s ELSE UpTurn(turn[k - 1])]
  BY <1>6
<1> HIDE DEF turn, s, S
<1>8. turn[0] \in S[0]
  BY <1>2, <1>7
<1>9. ASSUME NEW k \in 1..j, turn[k - 1] \in S[k - 1] PROVE turn[k] \in S[k]
  BY <1>3, <1>7, <1>9
<1>10. turn[j] \in S[j]
  BY <1>8, <1>9, LoopStays
<1>11. turn[j] \in UpStates(h, n, j, j)
  BY <1>10 DEF S
<1> HIDE DEF F
<1> DEFINE x == turn[j]
<1>12. x \in [h : Heaps, at : 0..(n - 1)] /\ Arranged(x.h, h, n) /\ OrderedBut(x.h, n, x.at)
       /\ (x.at + j <= j \/ UpTurn(x) = x)
  BY <1>11 DEF UpStates
<1>13. UpTurn(x) = x
  <2>1. CASE x.at = 0
    BY <2>1 DEF UpTurn
  <2> QED
    BY <1>12, <2>1
<1>14. Ordered(x.h, n)
  BY <1>12, <1>13, UpTurnEnds DEF Arranged
<1> QED
  BY <1>1, <1>12, <1>14

-----------------------------------------------------------------------------
(* heap.down. *)

\* Ordered but for position i's children, and for i itself where the loop began.
SinkingAt(h, n, i, start) ==
  /\ \A c, p \in 0..(n - 1) :
       Child(c, p) /\ p # i /\ (c = i => i # start) => Prio(h, p) >= Prio(h, c)
  /\ \A c, p \in 0..(n - 1) : Child(i, p) /\ Child(c, i) => Prio(h, p) >= Prio(h, c)

\* The child down compares with, of position i.
Larger(h, i, n) ==
  LET left == 2 * i + 1
  IN IF left + 1 < n /\ ~Less(h, left, left + 1) THEN left + 1 ELSE left

\* It is a child, and no smaller than the other.
LEMMA LargerChild ==
  ASSUME NEW n \in Nat, NEW h \in Heaps, n <= Len0(h), NEW i \in 0..(n - 1), 2 * i + 1 < n
  PROVE  /\ Larger(h, i, n) \in 0..(n - 1) /\ Child(Larger(h, i, n), i)
         /\ Larger(h, i, n) > i
         /\ \A c \in 0..(n - 1) : Child(c, i) => Prio(h, Larger(h, i, n)) >= Prio(h, c)
<1> DEFINE l == 2 * i + 1
           r == l + 1
<1>1. l \in 0..(n - 1) /\ l > i
  OBVIOUS
<1>2. \A c \in 0..(n - 1) : Child(c, i) => c = l \/ c = r
  BY DEF Child
<1>3. \A k \in 0..(n - 1) : Prio(h, k) \in Int
  <2>1. Len0(h) \in Nat
    BY DEF Heaps, Len0
  <2> QED
    BY <2>1, AtType DEF Positions
<1>4. Larger(h, i, n) = IF r < n /\ ~(Prio(h, l) > Prio(h, r)) THEN r ELSE l
  BY DEF Larger, Less, Prio
<1>5. Child(l, i) /\ Child(r, i)
  BY DEF Child
<1>6. r \in Int /\ r > i /\ (r < n => r \in 0..(n - 1)) /\ l \in Int
  OBVIOUS
<1> HIDE DEF l, r
<1>7. CASE r < n /\ ~(Prio(h, l) > Prio(h, r))
  BY <1>1, <1>2, <1>3, <1>4, <1>5, <1>6, <1>7
<1>8. CASE ~(r < n /\ ~(Prio(h, l) > Prio(h, r)))
  <2>1. Larger(h, i, n) = l
    BY <1>4, <1>8
  <2>2. ASSUME NEW c \in 0..(n - 1), Child(c, i) PROVE Prio(h, l) >= Prio(h, c)
    <3>1. c = l \/ (c = r /\ r < n)
      BY <1>2, <1>6, <2>2
    <3>2. r < n => Prio(h, l) > Prio(h, r)
      BY <1>8
    <3> QED
      BY <1>1, <1>3, <3>1, <3>2, <1>6
  <2> QED
    BY <1>1, <1>5, <2>1, <2>2
<1> QED
  BY <1>7, <1>8

\* A turn of down, with that child.
LEMMA DownTurnIs ==
  ASSUME NEW n, NEW x
  PROVE  DownTurn(x, n) =
           IF 2 * x.at + 1 < n /\ Less(x.h, Larger(x.h, x.at, n), x.at)
           THEN [h |-> Swap(x.h, x.at, Larger(x.h, x.at, n)), at |-> Larger(x.h, x.at, n)]
           ELSE x
  BY DEF DownTurn, Larger

\* Where no turn moves any more, at most the place it began in is out of order.
LEMMA DownTurnEnds ==
  ASSUME NEW n \in Nat, NEW x \in [h : Heaps, at : 0..(n - 1)], n <= Len0(x.h),
         NEW start \in 0..(n - 1),
         SinkingAt(x.h, n, x.at, start), DownTurn(x, n) = x
  PROVE  OrderedBut(x.h, n, start)
<1> DEFINE i == x.at
           m == Larger(x.h, x.at, n)
<1>0. x.h \in Heaps /\ i \in 0..(n - 1)
  OBVIOUS
<1>1. 2 * i + 1 < n => ~ Less(x.h, m, i)
  <2> SUFFICES ASSUME 2 * i + 1 < n, Less(x.h, m, i) PROVE FALSE
    OBVIOUS
  <2>1. DownTurn(x, n).at = m
    BY DownTurnIs
  <2>2. m > i
    BY LargerChild
  <2> HIDE DEF m
  <2> QED
    BY <1>0, <2>1, <2>2
<1>2. \A k \in 0..(n - 1) : Prio(x.h, k) \in Int
  <2>1. Len0(x.h) \in Nat
    BY DEF Heaps, Len0
  <2> QED
    BY <2>1, AtType DEF Positions
<1>3. ASSUME NEW c \in 0..(n - 1), Child(c, i) PROVE Prio(x.h, i) >= Prio(x.h, c)
  <2>1. 2 * i + 1 < n
    BY <1>3 DEF Child
  <2>2. ~ (Prio(x.h, m) > Prio(x.h, i))
    BY <1>1, <2>1 DEF Less, Prio
  <2>3. m \in 0..(n - 1) /\ Prio(x.h, m) >= Prio(x.h, c)
    BY <1>3, <2>1, LargerChild
  <2> HIDE DEF i, m
  <2> QED
    BY <1>0, <1>2, <2>2, <2>3
<1> HIDE DEF m
<1>4. ASSUME NEW c \in 0..(n - 1), NEW p \in 0..(n - 1), Child(c, p), c # start
      PROVE  Prio(x.h, p) >= Prio(x.h, c)
  BY <1>3, <1>4 DEF SinkingAt
<1>5. ASSUME NEW c \in 0..(n - 1), NEW p \in 0..(n - 1), Child(start, p), Child(c, start)
      PROVE  Prio(x.h, p) >= Prio(x.h, c)
  <2>1. CASE i = start
    BY <1>5, <2>1 DEF SinkingAt
  <2>2. CASE i # start
    <3>1. Prio(x.h, p) >= Prio(x.h, start)
      BY <1>3, <1>5, <2>2 DEF SinkingAt
    <3>2. c # start
      BY <1>5 DEF Child
    <3>3. Prio(x.h, start) >= Prio(x.h, c)
      BY <1>4, <1>5, <3>2
    <3> QED
      BY <1>2, <3>1, <3>3
  <2> QED
    BY <2>1, <2>2
<1> QED
  BY <1>4, <1>5 DEF OrderedBut

\* A turn keeps what is ordered but for the Worker that goes down.
LEMMA DownTurnOrder ==
  ASSUME NEW n \in Nat, NEW x \in [h : Heaps, at : 0..(n - 1)], n <= Len0(x.h), Indexed(x.h),
         NEW start \in 0..(n - 1), start <= x.at,
         SinkingAt(x.h, n, x.at, start), DownTurn(x, n) # x
  PROVE  LET y == DownTurn(x, n) IN
         /\ y \in [h : Heaps, at : 0..(n - 1)] /\ y.at > x.at
         /\ Arranged(y.h, x.h, n)
         /\ SinkingAt(y.h, n, y.at, start)
<1> DEFINE i == x.at
           m == Larger(x.h, x.at, n)
           g == Swap(x.h, i, m)
<1>1. 2 * i + 1 < n /\ Less(x.h, m, i) /\ DownTurn(x, n) = [h |-> g, at |-> m]
  BY DownTurnIs
<1>2. x.h \in Heaps /\ i \in 0..(n - 1) /\ Len0(x.h) \in Nat
  BY DEF Heaps, Len0
<1>3. /\ m \in 0..(n - 1) /\ m > i /\ Child(m, i)
      /\ \A c \in 0..(n - 1) : Child(c, i) => Prio(x.h, m) >= Prio(x.h, c)
  BY <1>1, LargerChild
<1>4. \A k \in 0..(n - 1) : k \in Positions(x.h) /\ Prio(x.h, k) \in Int
  BY <1>2, AtType DEF Positions
<1>5. Prio(x.h, m) > Prio(x.h, i)
  BY <1>1 DEF Less, Prio
<1>6. Arranged(g, x.h, n)
  BY <1>2, <1>3, <1>4, SwapOK
<1>7. \A k \in 0..(n - 1) : Prio(g, k) = IF k = i THEN Prio(x.h, m)
        ELSE IF k = m THEN Prio(x.h, i) ELSE Prio(x.h, k)
  BY <1>2, <1>3, <1>4, SwapOK
<1>8. g \in Heaps
  BY <1>6 DEF Arranged, Indexed
<1>9. SinkingAt(x.h, n, i, start) /\ start <= i
  OBVIOUS
<1> HIDE DEF g, i, m
<1>10. ASSUME NEW c \in 0..(n - 1), NEW p \in 0..(n - 1), Child(c, p), p # m
       PROVE  Prio(g, p) >= Prio(g, c)
  <2>1. CASE p = i
    <3>1. c # i /\ Prio(x.h, m) >= Prio(x.h, c)
      BY <1>2, <1>3, <1>10, <2>1 DEF Child
    <3> QED
      BY <3>1, <2>1, <1>7, <1>5, <1>4, <1>3, <1>2
  <2>2. CASE p # i /\ c = i
    <3>1. Prio(x.h, p) >= Prio(x.h, m)
      BY <1>3, <1>9, <1>10, <2>2 DEF SinkingAt
    <3> QED
      BY <3>1, <2>2, <1>7, <1>10
  <2>3. CASE p # i /\ c # i
    <3>1. c # m
      BY <1>3, <1>10, <1>2, <2>3 DEF Child
    <3>2. Prio(x.h, p) >= Prio(x.h, c)
      BY <1>9, <1>10, <2>3 DEF SinkingAt
    <3> QED
      BY <3>1, <3>2, <2>3, <1>7, <1>10
  <2> QED
    BY <2>1, <2>2, <2>3
<1>11. ASSUME NEW c \in 0..(n - 1), NEW p \in 0..(n - 1), Child(m, p), Child(c, m)
       PROVE  Prio(g, p) >= Prio(g, c)
  <2>1. p = i /\ c # i /\ c # m
    BY <1>2, <1>3, <1>11 DEF Child
  <2>2. Prio(x.h, m) >= Prio(x.h, c)
    BY <1>2, <1>3, <1>9, <1>11, <2>1 DEF SinkingAt
  <2> QED
    BY <2>1, <2>2, <1>7, <1>3
<1>12. SinkingAt(g, n, m, start)
  BY <1>10, <1>11 DEF SinkingAt
<1> QED
  BY <1>1, <1>3, <1>6, <1>8, <1>12 DEF i

\* Where k turns of down may have got to, from position i.
DownStates(h, n, i, k) ==
  {x \in [h : Heaps, at : 0..(n - 1)] :
     /\ Arranged(x.h, h, n)
     /\ SinkingAt(x.h, n, x.at, i) /\ i <= x.at
     /\ i + k <= x.at \/ DownTurn(x, n) = x}

\* The loop of down, one turn on.
LEMMA DownTurnStates ==
  ASSUME NEW n \in Nat, NEW h, Indexed(h), n <= Len0(h), NEW i \in 0..(n - 1), NEW k \in 1..n,
         NEW x \in DownStates(h, n, i, k - 1)
  PROVE  DownTurn(x, n) \in DownStates(h, n, i, k)
<1>1. /\ x \in [h : Heaps, at : 0..(n - 1)] /\ Arranged(x.h, h, n)
      /\ SinkingAt(x.h, n, x.at, i) /\ i <= x.at
  BY DEF DownStates
<1>2. CASE DownTurn(x, n) = x
  BY <1>1, <1>2 DEF DownStates
<1>3. CASE DownTurn(x, n) # x
  <2>1. Indexed(x.h) /\ n <= Len0(x.h)
    BY <1>1 DEF Arranged
  <2>2. i + (k - 1) <= x.at
    BY <1>3 DEF DownStates
  <2> DEFINE y == DownTurn(x, n)
  <2>3. /\ y \in [h : Heaps, at : 0..(n - 1)] /\ y.at > x.at
        /\ Arranged(y.h, x.h, n) /\ SinkingAt(y.h, n, y.at, i)
    BY <1>1, <1>3, <2>1, DownTurnOrder
  <2> HIDE DEF y
  <2>4. Arranged(y.h, h, n)
    BY <1>1, <2>3, ArrangedTrans
  <2>5. i + k <= y.at /\ i <= y.at
    BY <1>1, <2>2, <2>3
  <2>6. y \in DownStates(h, n, i, k)
    BY <2>3, <2>4, <2>5 DEF DownStates
  <2> QED
    BY <2>6 DEF y
<1> QED
  BY <1>2, <1>3

\* heap.down leaves only the place it began in to be settled by heap.up.
LEMMA DownOK ==
  ASSUME NEW n \in Nat, NEW h, Indexed(h), n <= Len0(h), NEW i \in 0..(n - 1),
         SinkingAt(h, n, i, i)
  PROVE  Arranged(Down(h, i, n), h, n) /\ OrderedBut(Down(h, i, n), n, i)
<1> DEFINE s == [h |-> h, at |-> i]
           S == [k \in 0..n |-> DownStates(h, n, i, k)]
           F == [k \in 1..n |-> [x \in S[k - 1] |-> DownTurn(x, n)]]
           turn == CHOOSE f : f = [k \in 0..n |-> IF k = 0 THEN s ELSE DownTurn(f[k - 1], n)]
<1>1. Down(h, i, n) = turn[n].h
  BY DEF Down
<1>2. s \in S[0]
  <2>1. h \in Heaps
    BY DEF Indexed
  <2> QED
    BY <2>1, ArrangedRefl DEF DownStates
<1>3. ASSUME NEW k \in 1..n, NEW x \in S[k - 1] PROVE DownTurn(x, n) \in S[k]
  BY <1>3, DownTurnStates
<1>4. Turns(n, S, F)
  <2>1. ASSUME NEW k \in 1..n, NEW x \in S[k - 1] PROVE F[k][x] \in S[k]
    <3> HIDE DEF S
    <3> QED
      BY <1>3
  <2> HIDE DEF S, F
  <2> QED
    BY <2>1 DEF Turns
<1>5. PICK run : IsRun(run, n, S, F, s)
  <2> HIDE DEF s, S, F, turn
  <2> QED
    BY <1>2, <1>4, LoopExists
<1>51. /\ run = [k \in 0..n |-> run[k]] /\ run[0] = s
       /\ \A k \in 0..n : run[k] \in S[k]
       /\ \A k \in 1..n : run[k] = F[k][run[k - 1]]
  <2> HIDE DEF s, S, F, turn
  <2> QED
    BY <1>5 DEF IsRun
<1>6. run = [k \in 0..n |-> IF k = 0 THEN s ELSE DownTurn(run[k - 1], n)]
  <2>1. ASSUME NEW k \in 1..n PROVE run[k] = DownTurn(run[k - 1], n)
    <3>1. run[k - 1] \in S[k - 1]
      <4> HIDE DEF S, F
      <4> QED
        BY <1>51
    <3>2. F[k] = [x \in S[k - 1] |-> DownTurn(x, n)]
      <4> HIDE DEF S
      <4> QED
        OBVIOUS
    <3> HIDE DEF S, F
    <3> QED
      BY <1>51, <3>1, <3>2
  <2> HIDE DEF s, S, F, turn
  <2>2. ASSUME NEW k \in 0..n PROVE run[k] = IF k = 0 THEN s ELSE DownTurn(run[k - 1], n)
    <3>1. k = 0 \/ k \in 1..n
      OBVIOUS
    <3> QED
      BY <1>51, <2>1, <3>1
  <2> QED
    BY <1>51, <2>2
<1>7. turn = [k \in 0..n |-> IF k = 0 THEN s ELSE DownTurn(turn[k - 1], n)]
  BY <1>6
<1> HIDE DEF turn, s, S, F
<1>8. turn[0] \in S[0]
  BY <1>2, <1>7
<1>9. ASSUME NEW k \in 1..n, turn[k - 1] \in S[k - 1] PROVE turn[k] \in S[k]
  BY <1>3, <1>7, <1>9
<1>10. turn[n] \in DownStates(h, n, i, n)
  <2>1. turn[n] \in S[n]
    BY <1>8, <1>9, LoopStays
  <2> QED
    BY <2>1 DEF S
<1> DEFINE x == turn[n]
<1>11. /\ x \in [h : Heaps, at : 0..(n - 1)] /\ Arranged(x.h, h, n)
            /\ SinkingAt(x.h, n, x.at, i)
       /\ DownTurn(x, n) = x
  BY <1>10 DEF DownStates
<1>12. OrderedBut(x.h, n, i)
  BY <1>11, DownTurnEnds DEF Arranged
<1> QED
  BY <1>1, <1>11, <1>12

-----------------------------------------------------------------------------
(* heap.Push, heap.Pop, heap.Remove, heap.Fix. *)

\* g is h without the Worker r.
Removed(g, h, r) ==
  /\ Indexed(g) /\ SameWorkers(g, h)
  /\ Len0(g) = Len0(h) - 1
  /\ \A x \in Refs : In(g, x) <=> In(h, x) /\ x # r

\* Reordering the heap below n after one position changed.
LEMMA FixOK ==
  ASSUME NEW n \in Nat, NEW h, Indexed(h), n <= Len0(h), NEW i \in 0..(n - 1),
         SinkingAt(h, n, i, i)
  PROVE  Arranged(Up(Down(h, i, n), i), h, n) /\ Ordered(Up(Down(h, i, n), i), n)
<1> DEFINE d == Down(h, i, n)
<1>1. Arranged(d, h, n) /\ OrderedBut(d, n, i)
  BY DownOK
<1>2. Indexed(d) /\ n <= Len0(d)
  BY <1>1 DEF Arranged
<1> HIDE DEF d
<1>3. Arranged(Up(d, i), d, n) /\ Ordered(Up(d, i), n)
  BY <1>1, <1>2, UpOK
<1> QED
  BY <1>1, <1>3, ArrangedTrans DEF d

\* WorkerQueue.Pop takes out the last Worker, and marks it.
LEMMA PopLastOK ==
  ASSUME NEW h, Indexed(h), Len0(h) > 0, Ordered(h, Len0(h) - 1)
  PROVE  LET g == PopLast(h) IN
         Removed(g, h, At(h, Len0(h) - 1)) /\ Ordered(g, Len0(g))
<1> DEFINE n == Len0(h) - 1
           r == At(h, n)
           g == PopLast(h)
<1>1. /\ h \in Heaps /\ h.q \in Seq(Refs) /\ h.o \in [Refs -> Objects]
      /\ Len(h.q) = n + 1 /\ n \in Nat /\ n \in Positions(h)
  BY DEF Indexed, Heaps, Len0, Positions
<1>2. r \in Refs
  BY <1>1, AtType
<1>3. g.q = SubSeq(h.q, 1, n) /\ g.o = [h.o EXCEPT ![r].index = INVALID_INDEX]
      /\ g = [q |-> g.q, o |-> g.o]
  BY DEF PopLast
<1>4. g.q \in Seq(Refs) /\ Len(g.q) = n /\ \A k \in 1..n : g.q[k] = h.q[k]
  BY <1>1, <1>3
<1> HIDE DEF g
<1>5. Len0(g) = n /\ \A k \in 0..(n - 1) : At(g, k) = At(h, k)
  BY <1>1, <1>4 DEF Len0, At
<1>6. ASSUME NEW x \in Refs
      PROVE  /\ g.o[x] \in Objects
             /\ g.o[x].index = IF x = r THEN INVALID_INDEX ELSE h.o[x].index
             /\ g.o[x].Identity = h.o[x].Identity
             /\ g.o[x].priority = h.o[x].priority
             /\ g.o[x].ttl = h.o[x].ttl
  <2>1. h.o[x] \in Objects /\ INVALID_INDEX \in Int
    BY <1>1 DEF INVALID_INDEX
  <2> HIDE DEF r
  <2>2. CASE x = r
    <3>1. g.o[x] = [h.o[x] EXCEPT !.index = INVALID_INDEX]
      BY <1>1, <1>2, <1>3, <2>2
    <3> QED
      BY <2>1, <2>2, <3>1, ObjectFields
  <2>3. CASE x # r
    BY <1>1, <1>2, <1>3, <2>1, <2>3
  <2> QED
    BY <2>2, <2>3
<1>7. g.o \in [Refs -> Objects]
  <2>1. g.o = [x \in Refs |-> g.o[x]]
    BY <1>1, <1>3
  <2> QED
    BY <1>6, <2>1
<1>8. g \in Heaps
  BY <1>3, <1>4, <1>7 DEF Heaps
<1>9. SameWorkers(g, h)
  BY <1>6 DEF SameWorkers
<1>10. h.o[r].index = n
  BY <1>1 DEF Indexed
<1> HIDE DEF r, n
<1>11. ASSUME NEW k \in 0..(n - 1) PROVE g.o[At(g, k)].index = k
  <2>1. k \in Positions(h) /\ k # n
    BY <1>1 DEF Positions, Len0
  <2>2. At(h, k) \in Refs /\ h.o[At(h, k)].index = k /\ At(h, k) # r
    BY <1>1, <1>10, <2>1, AtType DEF Indexed
  <2> QED
    BY <1>5, <1>6, <2>2
<1>12. ASSUME NEW x \in Refs, x # r, h.o[x].index # INVALID_INDEX
       PROVE  h.o[x].index \in 0..(n - 1) /\ At(g, h.o[x].index) = x
  <2>1. h.o[x].index \in Positions(h) /\ At(h, h.o[x].index) = x
    BY <1>12 DEF Indexed
  <2>2. h.o[x].index # n
    BY <1>12, <2>1 DEF r
  <2>3. h.o[x].index \in 0..(n - 1)
    BY <1>1, <2>1, <2>2 DEF Positions, Len0
  <2> QED
    BY <1>5, <2>1, <2>3
<1>13. Indexed(g)
  <2>1. Positions(g) = 0..(n - 1)
    BY <1>5 DEF Positions
  <2>2. ASSUME NEW x \in Refs
        PROVE  g.o[x].index = INVALID_INDEX
                 \/ (g.o[x].index \in Positions(g) /\ At(g, g.o[x].index) = x)
    BY <1>6, <1>12, <2>1
  <2> QED
    BY <1>8, <1>11, <2>1, <2>2 DEF Indexed
<1>14. \A x \in Refs : In(g, x) <=> In(h, x) /\ x # r
  BY <1>6 DEF In
<1>15. Ordered(g, n)
  <2>1. ASSUME NEW k \in 0..(n - 1) PROVE Prio(g, k) = Prio(h, k)
    <3>1. At(h, k) \in Refs
      BY <1>1, AtType DEF Positions, Len0
    <3> QED
      BY <1>5, <1>6, <3>1 DEF Prio
  <2>2. Ordered(h, n)
    BY DEF n
  <2> QED
    BY <2>1, <2>2 DEF Ordered
<1>16. Len0(g) = Len0(h) - 1
  BY <1>5 DEF n
<1> QED
  BY <1>5, <1>9, <1>13, <1>14, <1>15, <1>16 DEF Removed, g, r, n

\* heap.Remove takes out the Worker at i, and leaves a heap.
LEMMA RemoveOK ==
  ASSUME NEW h, Indexed(h), Ordered(h, Len0(h)), NEW i \in Positions(h)
  PROVE  LET g == HeapRemove(h, i) IN Removed(g, h, At(h, i)) /\ Ordered(g, Len0(g))
<1> DEFINE n == Len0(h) - 1
<1>1. h \in Heaps /\ Len0(h) \in Nat /\ n \in Nat /\ i \in 0..n /\ n \in Positions(h)
  BY DEF Indexed, Heaps, Len0, Positions
<1>2. \A k \in Positions(h) : Prio(h, k) \in Int
  BY <1>1, AtType
<1>3. CASE i = n
  <2>1. HeapRemove(h, i) = PopLast(h)
    BY <1>3 DEF HeapRemove
  <2>2. Ordered(h, n)
    BY <1>1 DEF Ordered
  <2> QED
    BY <1>1, <1>3, <2>1, <2>2, PopLastOK
<1>4. CASE i # n
  <2> DEFINE s == Swap(h, i, n)
             f == Up(Down(s, i, n), i)
  <2>1. HeapRemove(h, i) = PopLast(f)
    BY <1>4 DEF HeapRemove
  <2>2. i \in 0..(n - 1)
    BY <1>1, <1>4
  <2>3. /\ Arranged(s, h, Len0(h))
        /\ \A k \in Positions(h) : Prio(s, k) = IF k = i THEN Prio(h, n)
             ELSE IF k = n THEN Prio(h, i) ELSE Prio(h, k)
    BY <1>1, <1>4, SwapOK
  <2>4. At(s, n) = At(h, i)
    BY <1>1 DEF Swap, At, Indexed, Heaps, Len0
  <2>5. SinkingAt(s, n, i, i)
    <3>1. \A k \in 0..(n - 1) : k # i => Prio(s, k) = Prio(h, k)
      BY <1>1, <2>3 DEF Positions
    <3>2. \A c, p \in 0..(n - 1) : Child(c, p) => Prio(h, p) >= Prio(h, c)
      BY <1>1 DEF Ordered
    <3> HIDE DEF n, s
    <3>3. ASSUME NEW c \in 0..(n - 1), NEW p \in 0..(n - 1), Child(c, p), p # i, c = i => i # i
          PROVE  Prio(s, p) >= Prio(s, c)
      BY <3>1, <3>2, <3>3
    <3>4. ASSUME NEW c \in 0..(n - 1), NEW p \in 0..(n - 1), Child(i, p), Child(c, i)
          PROVE  Prio(s, p) >= Prio(s, c)
      <4>1. p # i /\ c # i
        BY <1>1, <3>4 DEF Child
      <4>2. Prio(h, p) >= Prio(h, i) /\ Prio(h, i) >= Prio(h, c)
        BY <2>2, <3>2, <3>4
      <4>3. Prio(h, p) \in Int /\ Prio(h, i) \in Int /\ Prio(h, c) \in Int
        BY <1>1, <1>2, <2>2 DEF Positions, n
      <4> QED
        BY <3>1, <4>1, <4>2, <4>3
    <3> QED
      BY <3>3, <3>4 DEF SinkingAt
  <2>6. Indexed(s) /\ n <= Len0(s) /\ Len0(s) = n + 1
    BY <1>1, <2>3 DEF Arranged
  <2> HIDE DEF s
  <2>7. Arranged(f, s, n) /\ Ordered(f, n)
    <3> HIDE DEF n
    <3> QED
      BY <1>1, <2>2, <2>5, <2>6, FixOK
  <2> HIDE DEF f
  <2>8. Indexed(f) /\ Len0(f) = n + 1 /\ At(f, n) = At(h, i)
    BY <1>1, <2>4, <2>6, <2>7 DEF Arranged
  <2>9. Removed(PopLast(f), f, At(h, i)) /\ Ordered(PopLast(f), Len0(PopLast(f)))
    BY <1>1, <2>7, <2>8, PopLastOK
  <2>10. SameWorkers(PopLast(f), h) /\ \A x \in Refs : In(f, x) <=> In(h, x)
    BY <2>3, <2>7, <2>9 DEF Removed, Arranged, SameWorkers
  <2> DEFINE g == PopLast(f)
  <2>11. Indexed(g) /\ Len0(g) = n
    BY <1>1, <2>8, <2>9 DEF Removed
  <2>12. \A x \in Refs : In(g, x) <=> In(h, x) /\ x # At(h, i)
    BY <2>9, <2>10 DEF Removed
  <2> HIDE DEF g
  <2>13. Removed(g, h, At(h, i)) /\ Ordered(g, Len0(g))
    BY <2>9, <2>10, <2>11, <2>12 DEF Removed, g
  <2> QED
    BY <2>1, <2>13 DEF g
<1> QED
  BY <1>3, <1>4

\* heap.Push: r, whose priority is set, joins the heap.
LEMMA PushOK ==
  ASSUME NEW h, Indexed(h), Ordered(h, Len0(h)), NEW r \in Refs, ~In(h, r)
  PROVE  LET g == HeapPush(h, r) IN
         /\ Indexed(g) /\ SameWorkers(g, h) /\ Ordered(g, Len0(g))
         /\ \A x \in Refs : In(g, x) <=> In(h, x) \/ x = r
<1> DEFINE n == Len0(h)
           s == PushLast(h, r)
           f == Up(s, n)
<1>1. /\ h \in Heaps /\ h.q \in Seq(Refs) /\ h.o \in [Refs -> Objects]
      /\ Len(h.q) = n /\ n \in Nat
  BY DEF Indexed, Heaps, Len0
<1>2. s.q = Append(h.q, r) /\ s.o = [h.o EXCEPT ![r].index = n] /\ s = [q |-> s.q, o |-> s.o]
  BY DEF PushLast
<1>3. s.q \in Seq(Refs) /\ Len(s.q) = n + 1 /\ s.q[n + 1] = r /\ \A k \in 1..n : s.q[k] = h.q[k]
  BY <1>1, <1>2
<1> HIDE DEF s, n
<1>4. Len0(s) = n + 1 /\ At(s, n) = r /\ \A k \in 0..(n - 1) : At(s, k) = At(h, k)
  BY <1>1, <1>3 DEF Len0, At
<1>5. ASSUME NEW x \in Refs
      PROVE  /\ s.o[x] \in Objects
             /\ s.o[x].index = IF x = r THEN n ELSE h.o[x].index
             /\ s.o[x].Identity = h.o[x].Identity
             /\ s.o[x].priority = h.o[x].priority
             /\ s.o[x].ttl = h.o[x].ttl
  <2>1. h.o[x] \in Objects /\ n \in Int
    BY <1>1
  <2>2. CASE x = r
    <3>1. s.o[x] = [h.o[x] EXCEPT !.index = n]
      BY <1>1, <1>2, <2>2
    <3> QED
      BY <2>1, <2>2, <3>1, ObjectFields
  <2>3. CASE x # r
    BY <1>1, <1>2, <2>1, <2>3
  <2> QED
    BY <2>2, <2>3
<1>6. s \in Heaps
  <2>1. s.o = [x \in Refs |-> s.o[x]]
    BY <1>1, <1>2
  <2>2. s.o \in [Refs -> Objects]
    BY <1>5, <2>1
  <2> QED
    BY <1>2, <1>3, <2>2 DEF Heaps
<1>7. \A k \in 0..(n - 1) : k \in Positions(h) /\ At(h, k) \in Refs /\ h.o[At(h, k)].index = k
      /\ At(h, k) # r
  <2>1. Positions(h) = 0..(n - 1)
    BY DEF Positions, n
  <2> QED
    BY <1>1, <2>1, AtType DEF Indexed, In, INVALID_INDEX
<1>8. Positions(s) = 0..n
  BY <1>1, <1>4 DEF Positions
<1>9. ASSUME NEW k \in 0..n PROVE s.o[At(s, k)].index = k
  <2>1. k = n \/ k \in 0..(n - 1)
    BY <1>1
  <2> QED
    BY <1>4, <1>5, <1>7, <2>1
<1>10. ASSUME NEW x \in Refs
       PROVE  s.o[x].index = INVALID_INDEX \/ (s.o[x].index \in 0..n /\ At(s, s.o[x].index) = x)
  <2>1. CASE x = r
    BY <1>1, <1>4, <1>5, <2>1
  <2>2. CASE x # r
    <3>1. h.o[x].index = INVALID_INDEX
            \/ (h.o[x].index \in 0..(n - 1) /\ At(h, h.o[x].index) = x)
      BY DEF Indexed, Positions, n
    <3> QED
      BY <1>1, <1>4, <1>5, <2>2, <3>1
  <2> QED
    BY <2>1, <2>2
<1>11. Indexed(s)
  BY <1>6, <1>8, <1>9, <1>10 DEF Indexed
<1>12. SameWorkers(s, h)
  BY <1>5 DEF SameWorkers
<1>13. \A x \in Refs : In(s, x) <=> In(h, x) \/ x = r
  BY <1>1, <1>5 DEF In, INVALID_INDEX
<1>14. OrderedBut(s, n + 1, n)
  <2>1. \A k \in 0..(n - 1) : Prio(s, k) = Prio(h, k)
    BY <1>4, <1>5, <1>7 DEF Prio
  <2>2. \A c, p \in 0..(n - 1) : Child(c, p) => Prio(h, p) >= Prio(h, c)
    BY DEF Ordered, n
  <2>3. ASSUME NEW c \in 0..((n + 1) - 1), NEW p \in 0..((n + 1) - 1), Child(c, p), c # n
        PROVE  Prio(s, p) >= Prio(s, c)
    <3>1. c \in 0..(n - 1) /\ p \in 0..(n - 1)
      BY <1>1, <2>3 DEF Child
    <3> QED
      BY <2>1, <2>2, <2>3, <3>1
  <2>4. ASSUME NEW c \in 0..((n + 1) - 1), Child(c, n) PROVE FALSE
    BY <1>1, <2>4 DEF Child
  <2> QED
    BY <2>3, <2>4 DEF OrderedBut
<1>15. Arranged(f, s, n + 1) /\ Ordered(f, n + 1)
  <2>1. n + 1 \in Nat /\ n \in 0..((n + 1) - 1) /\ n + 1 <= Len0(s)
    BY <1>1, <1>4
  <2> QED
    BY <1>11, <1>14, <2>1, UpOK
<1>16. HeapPush(h, r) = f
  BY DEF HeapPush, s, n
<1> HIDE DEF f
<1>17. Len0(f) = n + 1 /\ Indexed(f) /\ SameWorkers(f, h)
  BY <1>4, <1>12, <1>15 DEF Arranged, SameWorkers
<1>18. \A x \in Refs : In(f, x) <=> In(h, x) \/ x = r
  BY <1>13, <1>15 DEF Arranged
<1> QED
  BY <1>15, <1>16, <1>17, <1>18

\* A heap in which the Worker at i was given any priority, and everyone any ttl.
Recharged(c, h, i) ==
  /\ Indexed(c) /\ c.q = h.q
  /\ \A r \in Refs : c.o[r].index = h.o[r].index
  /\ \A r \in Refs : r # At(h, i) => c.o[r].priority = h.o[r].priority

\* heap.Fix after a new priority.
LEMMA HeapFixOK ==
  ASSUME NEW h, Indexed(h), Ordered(h, Len0(h)), NEW i \in Positions(h), NEW c,
         Recharged(c, h, i)
  PROVE  LET g == HeapFix(c, i) IN Arranged(g, c, Len0(c)) /\ Ordered(g, Len0(g))
<1> DEFINE n == Len0(c)
<1>1. n = Len0(h) /\ n \in Nat /\ i \in 0..(n - 1) /\ h \in Heaps
  BY DEF Recharged, Indexed, Heaps, Len0, Positions
<1>2. \A k \in 0..(n - 1) : k # i => Prio(c, k) = Prio(h, k)
  <2>1. \A k \in 0..(n - 1) : k \in Positions(h) /\ At(c, k) = At(h, k) /\ At(h, k) \in Refs
    BY <1>1, AtType DEF Recharged, At, Positions
  <2>2. \A k \in 0..(n - 1) : k # i => At(h, k) # At(h, i)
    BY <2>1, <1>1 DEF Indexed
  <2> QED
    BY <2>1, <2>2 DEF Recharged, Prio
<1>3. \A k \in 0..(n - 1) : Prio(h, k) \in Int
  BY <1>1, AtType DEF Positions
<1>4. \A k, p \in 0..(n - 1) : Child(k, p) => Prio(h, p) >= Prio(h, k)
  BY <1>1 DEF Ordered
<1>5. Indexed(c)
  BY DEF Recharged
<1> HIDE DEF n
<1>6. SinkingAt(c, n, i, i)
  <2>1. ASSUME NEW k \in 0..(n - 1), NEW p \in 0..(n - 1), Child(k, p), p # i, k = i => i # i
        PROVE  Prio(c, p) >= Prio(c, k)
    BY <1>2, <1>4, <2>1
  <2>2. ASSUME NEW k \in 0..(n - 1), NEW p \in 0..(n - 1), Child(i, p), Child(k, i)
        PROVE  Prio(c, p) >= Prio(c, k)
    <3>1. p # i /\ k # i
      BY <1>1, <2>2 DEF Child
    <3>2. Prio(h, p) >= Prio(h, i) /\ Prio(h, i) >= Prio(h, k)
      BY <1>1, <1>4, <2>2
    <3> QED
      BY <1>1, <1>2, <1>3, <3>1, <3>2
  <2> QED
    BY <2>1, <2>2 DEF SinkingAt
<1>7. HeapFix(c, i) = Up(Down(c, i, n), i)
  BY DEF HeapFix, n
<1>8. n <= Len0(c)
  BY <1>1 DEF n
<1> DEFINE f == Up(Down(c, i, n), i)
<1>9. Arranged(f, c, n) /\ Ordered(f, n)
  BY <1>1, <1>5, <1>6, <1>8, FixOK
<1> HIDE DEF f
<1>10. Len0(f) = n
  BY <1>9 DEF Arranged, n
<1> QED
  BY <1>7, <1>9, <1>10 DEF n, f

-----------------------------------------------------------------------------
(* The loop of NextWorker and HasNextWorker. *)

\* What every call finds, and leaves.
Good(h) == Indexed(h) /\ Ordered(h, Len0(h))

\* No Worker in a heap is before its top.
LEMMA TopIsBest ==
  ASSUME NEW h, Good(h), NEW r \in Refs, In(h, r)
  PROVE  Len0(h) > 0 /\ At(h, 0) \in Refs /\ In(h, At(h, 0))
           /\ h.o[At(h, 0)].priority >= h.o[r].priority
<1> DEFINE n == Len0(h)
           T == {k \in 0..(n - 1) : ~ (Prio(h, 0) >= Prio(h, k))}
<1>1. h \in Heaps /\ n \in Nat /\ \A k \in 0..(n - 1) : k \in Positions(h) /\ Prio(h, k) \in Int
  <2>1. h \in Heaps /\ n \in Nat
    BY DEF Good, Indexed, Heaps, Len0
  <2> QED
    BY <2>1, AtType DEF Positions
<1>2. h.o[r].index \in 0..(n - 1) /\ At(h, h.o[r].index) = r
  BY DEF Good, Indexed, In, Positions
<1>3. \A c, p \in 0..(n - 1) : Child(c, p) => Prio(h, p) >= Prio(h, c)
  BY DEF Good, Ordered
<1> HIDE DEF n
<1>4. T = {}
  <2> SUFFICES ASSUME T # {} PROVE FALSE
    OBVIOUS
  <2>1. T \subseteq Nat
    BY <1>1
  <2>2. PICK k \in T : \A m \in T : k <= m
    <3> HIDE DEF T
    <3> QED
      BY <2>1, NatMin
  <2>3. k \in 0..(n - 1) /\ ~ (Prio(h, 0) >= Prio(h, k)) /\ k > 0
    BY <1>1, <2>2
  <2>4. PICK p \in Nat : p < k /\ Child(k, p)
    BY <2>3, Parent
  <2>5. p \in 0..(n - 1) /\ Prio(h, p) >= Prio(h, k)
    BY <1>1, <1>3, <2>3, <2>4
  <2>6. p \notin T
    BY <2>2, <2>3, <2>4
  <2> QED
    BY <1>1, <2>3, <2>5, <2>6
<1>5. 0 \in 0..(n - 1) /\ Prio(h, 0) >= Prio(h, h.o[r].index)
  BY <1>1, <1>2, <1>4
<1>6. At(h, 0) \in Refs /\ h.o[At(h, 0)].index = 0
  BY <1>1, <1>5, AtType DEF Good, Indexed
<1> QED
  BY <1>1, <1>2, <1>5, <1>6 DEF Prio, In, INVALID_INDEX, n

\* g is what is left of h when expired tops were dropped.
Dropped(g, h) ==
  /\ Good(g) /\ SameWorkers(g, h)
  /\ \A r \in Refs : In(g, r) => In(h, r)
  /\ \A r \in Refs : In(h, r) /\ ~In(g, r) =>
       /\ h.o[r].ttl <= 0
       /\ \A x \in Refs : In(g, x) => h.o[r].priority >= h.o[x].priority

\* Where k turns of that loop may have got to.
DropStates(h, k) == {g \in Heaps : Dropped(g, h) /\ (Len0(g) + k <= Len0(h) \/ DropTurn(g) = g)}

\* Where no turn removes any more, the top is live.
LEMMA DropTurnEnds ==
  ASSUME NEW g \in Heaps, Good(g), DropTurn(g) = g, Len0(g) # 0
  PROVE  After(g.o[At(g, 0)])
<1> SUFFICES ASSUME ~ After(g.o[At(g, 0)]) PROVE FALSE
  OBVIOUS
<1>1. Len0(g) \in Nat /\ 0 \in Positions(g)
  BY DEF Heaps, Len0, Positions
<1>2. g.o[At(g, 0)].index = 0
  BY <1>1 DEF Good, Indexed
<1>3. DropTurn(g) = HeapRemove(g, 0)
  BY <1>2 DEF DropTurn
<1>4. Len0(HeapRemove(g, 0)) = Len0(g) - 1
  BY <1>1, RemoveOK DEF Good, Removed
<1> QED
  BY <1>1, <1>3, <1>4

\* That loop, one turn on.
LEMMA DropTurnStates ==
  ASSUME NEW h \in Heaps, NEW k \in Nat, NEW g \in DropStates(h, k - 1)
  PROVE  DropTurn(g) \in DropStates(h, k)
<1>1. g \in Heaps /\ Dropped(g, h) /\ Good(g)
  BY DEF DropStates, Dropped
<1>2. CASE DropTurn(g) = g
  BY <1>1, <1>2 DEF DropStates
<1>3. CASE DropTurn(g) # g
  <2> DEFINE top == At(g, 0)
             f == HeapRemove(g, 0)
  <2>1. Len0(g) # 0 /\ (g.o[top].index = INVALID_INDEX \/ ~ After(g.o[top]))
    BY <1>3 DEF DropTurn
  <2>2. Len0(g) \in Nat /\ 0 \in Positions(g)
    BY <1>1, <2>1 DEF Heaps, Len0, Positions
  <2>3. g.o[top].index = 0 /\ top \in Refs /\ In(g, top)
    BY <1>1, <2>2, AtType DEF Good, Indexed, In, INVALID_INDEX
  <2>4. DropTurn(g) = f
    BY <1>3, <2>1, <2>3 DEF DropTurn
  <2>5. Removed(f, g, top) /\ Ordered(f, Len0(f))
    BY <1>1, <2>2, RemoveOK DEF Good
  <2>6. g.o[top].ttl <= 0
    <3>1. g.o[top].ttl \in Int /\ ~ (g.o[top].ttl > 0)
      BY <1>1, <2>1, <2>3 DEF After, INVALID_INDEX, Heaps, Objects
    <3> QED
      BY <3>1
  <2> HIDE DEF f
  <2>7. \A x \in Refs : In(f, x) => g.o[top].priority >= g.o[x].priority
    BY <1>1, <2>5, TopIsBest DEF Removed
  <2> HIDE DEF top
  <2>8. SameWorkers(f, h) /\ SameWorkers(g, h)
    BY <1>1, <2>5 DEF Dropped, Removed, SameWorkers
  <2>9. \A r \in Refs : In(f, r) <=> In(g, r) /\ r # top
    BY <2>5 DEF Removed
  <2>10. ASSUME NEW r \in Refs, In(h, r), ~In(f, r)
         PROVE  h.o[r].ttl <= 0 /\ \A x \in Refs :
                  In(f, x) => h.o[r].priority >= h.o[x].priority
    <3>1. CASE r = top
      BY <2>3, <2>6, <2>7, <2>8, <3>1 DEF SameWorkers
    <3>2. CASE r # top
      BY <1>1, <2>9, <2>10, <3>2 DEF Dropped
    <3> QED
      BY <3>1, <3>2
  <2>11. Dropped(f, h)
    BY <1>1, <2>5, <2>8, <2>9, <2>10 DEF Dropped, Good, Removed
  <2>12. f \in Heaps /\ Len0(f) + k <= Len0(h)
    <3>1. Len0(f) = Len0(g) - 1 /\ f \in Heaps
      BY <2>5 DEF Removed, Indexed
    <3>2. Len0(g) + (k - 1) <= Len0(h)
      BY <1>3 DEF DropStates
    <3>3. Len0(h) \in Nat
      BY DEF Heaps, Len0
    <3> QED
      BY <2>2, <3>1, <3>2, <3>3
  <2> QED
    BY <2>4, <2>11, <2>12 DEF DropStates
<1> QED
  BY <1>2, <1>3

\* The loop ends with a live top, or with nothing.
LEMMA DropOK ==
  ASSUME NEW h, Good(h)
  PROVE  LET g == DropExpiredTop(h) IN
         Dropped(g, h) /\ (Len0(g) = 0 \/ After(g.o[At(g, 0)]))
<1> DEFINE n == Len0(h)
           S == [k \in 0..n |-> DropStates(h, k)]
           F == [k \in 1..n |-> [x \in S[k - 1] |-> DropTurn(x)]]
           turn == CHOOSE f : f = [k \in 0..n |-> IF k = 0 THEN h ELSE DropTurn(f[k - 1])]
<1>0. h \in Heaps /\ n \in Nat
  BY DEF Good, Indexed, Heaps, Len0
<1>1. DropExpiredTop(h) = turn[n]
  BY DEF DropExpiredTop
<1> HIDE DEF n
<1>2. h \in S[0]
  <2>1. Dropped(h, h)
    BY DEF Dropped, SameWorkers
  <2>2. Len0(h) + 0 <= Len0(h)
    BY <1>0 DEF n
  <2>3. h \in DropStates(h, 0)
    BY <1>0, <2>1, <2>2 DEF DropStates
  <2> QED
    BY <1>0, <2>3
<1>3. ASSUME NEW k \in 1..n, NEW x \in S[k - 1] PROVE DropTurn(x) \in S[k]
  BY <1>0, <1>3, DropTurnStates
<1>4. Turns(n, S, F)
  <2>1. ASSUME NEW k \in 1..n, NEW x \in S[k - 1] PROVE F[k][x] \in S[k]
    <3> HIDE DEF S
    <3> QED
      BY <1>3
  <2> HIDE DEF S, F
  <2> QED
    BY <2>1 DEF Turns
<1>5. PICK run : IsRun(run, n, S, F, h)
  <2> HIDE DEF S, F, turn
  <2> QED
    BY <1>0, <1>2, <1>4, LoopExists
<1>51. /\ run = [k \in 0..n |-> run[k]] /\ run[0] = h
       /\ \A k \in 0..n : run[k] \in S[k]
       /\ \A k \in 1..n : run[k] = F[k][run[k - 1]]
  <2> HIDE DEF S, F, turn
  <2> QED
    BY <1>5 DEF IsRun
<1>6. run = [k \in 0..n |-> IF k = 0 THEN h ELSE DropTurn(run[k - 1])]
  <2>1. ASSUME NEW k \in 1..n PROVE run[k] = DropTurn(run[k - 1])
    <3>1. run[k - 1] \in S[k - 1]
      <4> HIDE DEF S, F
      <4> QED
        BY <1>0, <1>51
    <3>2. F[k] = [x \in S[k - 1] |-> DropTurn(x)]
      <4> HIDE DEF S
      <4> QED
        OBVIOUS
    <3> HIDE DEF S, F
    <3> QED
      BY <1>51, <3>1, <3>2
  <2> HIDE DEF S, F, turn
  <2>2. ASSUME NEW k \in 0..n PROVE run[k] = IF k = 0 THEN h ELSE DropTurn(run[k - 1])
    <3>1. k = 0 \/ k \in 1..n
      BY <1>0
    <3> QED
      BY <1>51, <2>1, <3>1
  <2> QED
    BY <1>51, <2>2
<1>7. turn = [k \in 0..n |-> IF k = 0 THEN h ELSE DropTurn(turn[k - 1])]
  BY <1>6
<1> HIDE DEF turn, S, F
<1>8. turn[0] \in S[0]
  BY <1>0, <1>2, <1>7
<1>9. ASSUME NEW k \in 1..n, turn[k - 1] \in S[k - 1] PROVE turn[k] \in S[k]
  BY <1>0, <1>3, <1>7, <1>9
<1>10. turn[n] \in DropStates(h, n)
  <2>1. turn[n] \in S[n]
    BY <1>0, <1>8, <1>9, LoopStays
  <2> QED
    BY <1>0, <2>1 DEF S
<1> DEFINE g == turn[n]
<1>11. g \in Heaps /\ Dropped(g, h) /\ (Len0(g) + n <= n \/ DropTurn(g) = g)
  BY <1>10 DEF DropStates, n
<1>12. Len0(g) = 0 \/ After(g.o[At(g, 0)])
  <2>1. Len0(g) \in Nat
    BY <1>11 DEF Heaps, Len0
  <2>2. CASE Len0(g) + n <= n
    BY <1>0, <2>1, <2>2
  <2>3. CASE DropTurn(g) = g
    BY <1>11, <2>3, DropTurnEnds DEF Dropped
  <2> QED
    BY <1>11, <2>2, <2>3
<1> QED
  BY <1>1, <1>11, <1>12

-----------------------------------------------------------------------------
(* The loop of PurgeExpired. *)

\* g after the first k Workers of the slice were looked at.
Purged(g, k) ==
  /\ Good(g) /\ SameWorkers(g, heap)
  /\ \A r \in Refs : In(g, r) <=> In(heap, r) /\ ~ (Before(obj[r]) /\ obj[r].index < k)

\* The loop of PurgeExpired, one turn on.
LEMMA PurgeTurnOK ==
  ASSUME Good(heap), NEW k \in 1..Len(WorkerQueue), NEW g, Purged(g, k - 1)
  PROVE  Purged(PurgeTurn(g, WorkerQueue[k]), k)
<1> DEFINE r == WorkerQueue[k]
<1>1. /\ k - 1 \in Positions(heap) /\ At(heap, k - 1) = r /\ heap.o = obj /\ k \in Nat
           /\ heap.q = WorkerQueue
      /\ WorkerQueue \in Seq(Refs) /\ k \in DOMAIN WorkerQueue
  BY DEF Good, Indexed, Heaps, heap, Positions, At, Len0
<1>2. r \in Refs /\ obj[r].index = k - 1
  BY <1>1, AtType DEF Good, Indexed
<1>3. ASSUME NEW x \in Refs, obj[x].index = k - 1 PROVE x = r
  BY <1>1, <1>3 DEF Good, Indexed, INVALID_INDEX
<1>5. \A x \in Refs : obj[x].index \in Int
  BY <1>1 DEF Good, Indexed, Heaps, Objects
<1> HIDE DEF r
<1>6. \A x \in Refs : obj[x].index < k <=> obj[x].index < k - 1 \/ x = r
  BY <1>1, <1>2, <1>3, <1>5
<1>7. CASE ~ Before(obj[r])
  <2>1. PurgeTurn(g, WorkerQueue[k]) = g
    BY <1>7 DEF PurgeTurn, r
  <2> QED
    BY <1>6, <1>7, <2>1 DEF Purged
<1>8. CASE Before(obj[r])
  <2>1. PurgeTurn(g, WorkerQueue[k]) = HeapRemove(g, g.o[r].index)
    BY <1>8 DEF PurgeTurn, r
  <2>2. In(g, r)
    BY <1>1, <1>2 DEF Purged, In, INVALID_INDEX
  <2>3. g.o[r].index \in Positions(g) /\ At(g, g.o[r].index) = r
    BY <1>2, <2>2 DEF Purged, Good, Indexed, In
  <2> DEFINE f == HeapRemove(g, g.o[r].index)
  <2>4. Removed(f, g, r) /\ Ordered(f, Len0(f))
    BY <2>3, RemoveOK DEF Purged, Good
  <2> HIDE DEF f
  <2>5. Good(f) /\ SameWorkers(f, heap)
    BY <2>4 DEF Good, Removed, Purged, SameWorkers
  <2>6. \A x \in Refs : In(f, x) <=> In(heap, x) /\ ~ (Before(obj[x]) /\ obj[x].index < k)
    BY <1>6, <1>8, <2>4 DEF Removed, Purged
  <2> QED
    BY <2>1, <2>5, <2>6 DEF Purged, f
<1> QED
  BY <1>7, <1>8

\* It removes the expired Workers of the slice, and no other.
LEMMA PurgeOK ==
  ASSUME Good(heap)
  PROVE  /\ Good(RemoveExpired) /\ SameWorkers(RemoveExpired, heap)
         /\ \A r \in Refs : In(RemoveExpired, r) <=> In(heap, r) /\ ~ Before(obj[r])
<1> DEFINE n == Len(WorkerQueue)
           S == [k \in 0..n |-> {g \in Heaps : Purged(g, k)}]
           F == [k \in 1..n |-> [g \in S[k - 1] |-> PurgeTurn(g, WorkerQueue[k])]]
           turn == CHOOSE f : f = [k \in 0..n |-> IF k = 0 THEN heap
                     ELSE PurgeTurn(f[k - 1], WorkerQueue[k])]
<1>0. heap \in Heaps /\ n \in Nat /\ n = Len0(heap) /\ heap.o = obj
  BY DEF Good, Indexed, Heaps, Len0, heap
<1>1. RemoveExpired = turn[n]
  BY DEF RemoveExpired
<1> HIDE DEF n
<1>2. heap \in S[0]
  <2>1. \A r \in Refs : ~ (In(heap, r) /\ obj[r].index < 0)
    BY <1>0 DEF Good, Indexed, In, Positions
  <2>2. Purged(heap, 0)
    BY <2>1 DEF Purged, SameWorkers
  <2> QED
    BY <1>0, <2>2
<1>3. ASSUME NEW k \in 1..n, NEW x \in S[k - 1] PROVE PurgeTurn(x, WorkerQueue[k]) \in S[k]
  <2>1. Purged(x, k - 1) /\ k \in 1..Len(WorkerQueue)
    BY <1>0, <1>3 DEF n
  <2>2. Purged(PurgeTurn(x, WorkerQueue[k]), k)
    BY <2>1, PurgeTurnOK
  <2> HIDE DEF PurgeTurn
  <2> QED
    BY <1>0, <2>2 DEF Purged, Good, Indexed
<1>4. Turns(n, S, F)
  <2>1. ASSUME NEW k \in 1..n, NEW x \in S[k - 1] PROVE F[k][x] \in S[k]
    <3> HIDE DEF S
    <3> QED
      BY <1>3
  <2> HIDE DEF S, F, turn
  <2> QED
    BY <2>1 DEF Turns
<1>5. PICK run : IsRun(run, n, S, F, heap)
  <2> HIDE DEF S, F, turn
  <2> QED
    BY <1>0, <1>2, <1>4, LoopExists
<1>51. /\ run = [k \in 0..n |-> run[k]] /\ run[0] = heap
       /\ \A k \in 0..n : run[k] \in S[k]
       /\ \A k \in 1..n : run[k] = F[k][run[k - 1]]
  <2> HIDE DEF S, F, turn
  <2> QED
    BY <1>5 DEF IsRun
<1>6. run = [k \in 0..n |-> IF k = 0 THEN heap ELSE PurgeTurn(run[k - 1], WorkerQueue[k])]
  <2>1. ASSUME NEW k \in 1..n PROVE run[k] = PurgeTurn(run[k - 1], WorkerQueue[k])
    <3>1. run[k - 1] \in S[k - 1]
      <4> HIDE DEF S, F
      <4> QED
        BY <1>0, <1>51
    <3>2. F[k] = [x \in S[k - 1] |-> PurgeTurn(x, WorkerQueue[k])]
      <4> HIDE DEF S
      <4> QED
        OBVIOUS
    <3> HIDE DEF S, F
    <3> QED
      BY <1>51, <3>1, <3>2
  <2> HIDE DEF S, F, turn
  <2>2. ASSUME NEW k \in 0..n
        PROVE  run[k] = IF k = 0 THEN heap ELSE PurgeTurn(run[k - 1], WorkerQueue[k])
    <3>1. k = 0 \/ k \in 1..n
      BY <1>0
    <3> QED
      BY <1>51, <2>1, <3>1
  <2> QED
    BY <1>51, <2>2
<1>7. turn = [k \in 0..n |-> IF k = 0 THEN heap ELSE PurgeTurn(turn[k - 1], WorkerQueue[k])]
  BY <1>6
<1> HIDE DEF S, F, turn
<1>8. turn[0] \in S[0]
  BY <1>0, <1>2, <1>7
<1>9. ASSUME NEW k \in 1..n, turn[k - 1] \in S[k - 1] PROVE turn[k] \in S[k]
  BY <1>0, <1>3, <1>7, <1>9
<1>10. Purged(turn[n], n)
  <2>1. turn[n] \in S[n]
    BY <1>0, <1>8, <1>9, LoopStays
  <2> QED
    BY <1>0, <2>1 DEF S
<1>12. \A r \in Refs : In(heap, r) => obj[r].index < n
  BY <1>0 DEF Good, Indexed, In, Positions
<1> QED
  BY <1>0, <1>1, <1>10, <1>12 DEF Purged

-----------------------------------------------------------------------------
(* The invariant, and the calls that install a heap. *)

\* The inductive invariant.
IInv ==
  /\ TypeOK
  /\ Good(heap)
  /\ OneObjectPerWorker
  /\ \A r \in Refs \ Range(id2item) : obj[r] = Blank
  /\ \A w \in Workers \ Registered : silence[w] = 0

\* The parts of heap.
LEMMA HeapIs == heap.q = WorkerQueue /\ heap.o = obj /\ Len0(heap) = Len(WorkerQueue)
  BY DEF heap, Len0

\* Membership of the slice, and the index.
LEMMA InQueue ==
  ASSUME NEW h, Indexed(h), NEW r \in Refs
  PROVE  r \in ToSet(h.q) <=> In(h, r)
<1>1. h \in Heaps /\ h.q \in Seq(Refs) /\ Len0(h) \in Nat /\ DOMAIN h.q = 1..Len0(h)
  BY DEF Indexed, Heaps, Len0
<1>2. ASSUME r \in ToSet(h.q) PROVE In(h, r)
  <2>1. PICK k \in 1..Len0(h) : h.q[k] = r
    BY <1>1, <1>2 DEF ToSet
  <2>2. At(h, k - 1) = r /\ k - 1 \in Positions(h)
    BY <1>1, <2>1 DEF At, Positions
  <2> QED
    BY <2>2 DEF Indexed, In, Positions, INVALID_INDEX
<1>3. ASSUME In(h, r) PROVE r \in ToSet(h.q)
  <2>1. h.o[r].index \in Positions(h) /\ h.q[h.o[r].index + 1] = r
    BY <1>3 DEF Indexed, In, At
  <2>2. h.o[r].index + 1 \in 1..Len0(h)
    BY <1>1, <2>1 DEF Positions
  <2> QED
    BY <1>1, <2>1, <2>2 DEF ToSet
<1> QED
  BY <1>2, <1>3

\* It has in it the three invariants of the runs.
LEMMA IInvImplies == IInv => IndexTracksPosition /\ OneObjectPerWorker /\ HeapOrdered
<1> SUFFICES ASSUME IInv PROVE IndexTracksPosition /\ OneObjectPerWorker /\ HeapOrdered
  OBVIOUS
<1>1. Indexed(heap) /\ Ordered(heap, Len0(heap)) /\ OneObjectPerWorker
  BY DEF IInv, Good
<1>2. heap \in Heaps /\ WorkerQueue \in Seq(Refs) /\ Len(WorkerQueue) \in Nat
      /\ DOMAIN WorkerQueue = 1..Len(WorkerQueue)
  BY <1>1, HeapIs DEF Indexed, Heaps
<1>3. IndexTracksPosition
  <2> SUFFICES ASSUME NEW r \in Refs
               PROVE IF r \in ToSet(WorkerQueue)
                     THEN obj[r].index + 1 \in DOMAIN WorkerQueue
                     /\ WorkerQueue[obj[r].index + 1] = r
                     ELSE obj[r].index = INVALID_INDEX
    BY DEF IndexTracksPosition
  <2>1. r \in ToSet(WorkerQueue) <=> In(heap, r)
    BY <1>1, HeapIs, InQueue
  <2>2. In(heap, r) => obj[r].index \in 0..(Len(WorkerQueue) - 1)
        /\ WorkerQueue[obj[r].index + 1] = r
    BY <1>1, HeapIs DEF Indexed, In, Positions, At
  <2> QED
    BY <1>2, <2>1, <2>2, HeapIs DEF In
<1>4. HeapOrdered
  <2> SUFFICES ASSUME NEW i \in 1..(Len(WorkerQueue) - 1) PROVE ~ Less(heap, i, (i - 1) \div 2)
    BY DEF HeapOrdered
  <2>1. PICK p : p = (i - 1) \div 2
    OBVIOUS
  <2>2. p \in Nat /\ p < i /\ Child(i, p)
    BY <2>1, Parent
  <2>3. i \in 0..(Len0(heap) - 1) /\ p \in 0..(Len0(heap) - 1)
    BY <1>2, <2>2, HeapIs
  <2>4. Prio(heap, p) >= Prio(heap, i) /\ Prio(heap, p) \in Int /\ Prio(heap, i) \in Int
    BY <1>1, <1>2, <2>2, <2>3, AtType DEF Ordered, Positions
  <2> QED
    BY <2>1, <2>4 DEF Less, Prio
<1> QED
  BY <1>1, <1>3, <1>4

\* The objects of h that items reaches are one per worker.
OnePerWorker(items, h) ==
  /\ DOMAIN items \subseteq Workers
  /\ \A w \in DOMAIN items : items[w] \in Refs /\ h.o[items[w]].Identity = w
  /\ \A r \in Refs : In(h, r) => h.o[r].Identity \in DOMAIN items /\ items[h.o[r].Identity] = r

\* A heap and a map that a call may install.
InstallHyp(items, h, heard) ==
  /\ Good(h) /\ OnePerWorker(items, h)
  /\ \A r \in Range(items) : h.o[r].ttl \in (-1)..Expiry

\* What is reachable is what the map reaches.
LEMMA InstallReaches ==
  ASSUME NEW items, NEW h, NEW heard, InstallHyp(items, h, heard), Install(items, h, heard)
  PROVE  /\ id2item' = items /\ WorkerQueue' = h.q
         /\ Range(items) \subseteq Refs
         /\ obj' = [r \in Refs |-> IF r \in Range(items) THEN h.o[r] ELSE Blank]
         /\ \A r \in Range(items) : h.o[r].priority \in Powers
         /\ silence' = [w \in Workers |-> IF w \in DOMAIN items \ heard THEN silence[w] ELSE 0]
<1>1. Range(items) \subseteq Refs
  BY DEF InstallHyp, OnePerWorker, Range
<1>2. ToSet(h.q) \subseteq Refs
  BY DEF InstallHyp, Good, Indexed, Heaps, ToSet
<1>3. ToSet(h.q) \subseteq Range(items)
  <2> SUFFICES ASSUME NEW r \in ToSet(h.q) PROVE r \in Range(items)
    OBVIOUS
  <2>1. r \in Refs /\ In(h, r)
    BY <1>2, InQueue DEF InstallHyp, Good
  <2> QED
    BY <2>1 DEF InstallHyp, OnePerWorker, Range
<1> QED
  BY <1>1, <1>3 DEF Install

\* The heap is then in the queue, and the garbage out of it.
LEMMA InstallGood ==
  ASSUME NEW items, NEW h, NEW heard, InstallHyp(items, h, heard), Install(items, h, heard)
  PROVE  /\ Good(heap')
         /\ \A r \in Refs : In(heap', r) <=> In(h, r)
         /\ \A r \in Range(items) : obj'[r] = h.o[r]
<1>1. /\ Range(items) \subseteq Refs
      /\ obj' = [r \in Refs |-> IF r \in Range(items) THEN h.o[r] ELSE Blank]
      /\ WorkerQueue' = h.q
  BY InstallReaches
<1> PICK g : g = heap'
  OBVIOUS
<1>2. g.q = h.q /\ g.o = obj' /\ g = [q |-> g.q, o |-> g.o]
  BY <1>1 DEF heap
<1>3. h \in Heaps /\ h.q \in Seq(Refs) /\ h.o \in [Refs -> Objects] /\ Indexed(h)
  BY DEF InstallHyp, Good, Indexed, Heaps
<1>4. \A r \in Refs : ~In(h, r) \/ r \in Range(items)
  BY DEF InstallHyp, OnePerWorker, Range
<1>5. Blank \in Objects /\ Blank.index = INVALID_INDEX
  BY DEF Blank, Objects, INVALID_INDEX
<1>6. \A r \in Refs : g.o[r] \in Objects /\ (r \in Range(items) => g.o[r] = h.o[r])
      /\ (r \notin Range(items) => g.o[r] = Blank)
  BY <1>1, <1>2, <1>3, <1>5
<1>7. \A r \in Refs : g.o[r].index = h.o[r].index
  BY <1>4, <1>5, <1>6 DEF In
<1>8. g \in Heaps
  <2>1. g.o \in [Refs -> Objects]
    BY <1>1, <1>2, <1>6
  <2> QED
    BY <1>2, <1>3, <2>1 DEF Heaps
<1>9. Len0(g) = Len0(h) /\ Positions(g) = Positions(h)
      /\ \A k \in Positions(h) : At(g, k) = At(h, k)
  BY <1>2 DEF Len0, Positions, At
<1>10. \A k \in Positions(h) : At(h, k) \in Refs /\ At(h, k) \in Range(items)
  <2>1. ASSUME NEW k \in Positions(h) PROVE At(h, k) \in Refs /\ In(h, At(h, k))
    BY <1>3, AtType DEF Indexed, In, Positions, INVALID_INDEX
  <2> QED
    BY <2>1, <1>4
<1>11. Indexed(g)
  BY <1>3, <1>7, <1>8, <1>9, <1>10 DEF Indexed
<1>12. Ordered(g, Len0(g))
  <2>1. Ordered(h, Len0(h))
    BY DEF InstallHyp, Good
  <2>2. \A k \in Positions(h) : Prio(g, k) = Prio(h, k)
    BY <1>6, <1>9, <1>10 DEF Prio
  <2> QED
    BY <1>9, <2>1, <2>2 DEF Ordered, Positions
<1>13. \A r \in Refs : In(g, r) <=> In(h, r)
  BY <1>7 DEF In
<1>14. \A r \in Range(items) : obj'[r] = h.o[r]
  BY <1>1
<1> QED
  BY <1>11, <1>12, <1>13, <1>14 DEF Good

\* Every call but Tick keeps the invariant this way.
LEMMA InstallIInv ==
  ASSUME IInv, NEW items, NEW h, NEW heard, InstallHyp(items, h, heard),
         Install(items, h, heard),
         handed' \in Workers \cup {None}, stopped' \subseteq Workers
  PROVE  IInv'
<1>1. /\ id2item' = items /\ WorkerQueue' = h.q
      /\ Range(items) \subseteq Refs
      /\ obj' = [r \in Refs |-> IF r \in Range(items) THEN h.o[r] ELSE Blank]
      /\ \A r \in Range(items) : h.o[r].priority \in Powers
      /\ silence' = [w \in Workers |-> IF w \in DOMAIN items \ heard THEN silence[w] ELSE 0]
  BY InstallReaches
<1>2. Good(heap')
  BY InstallGood
<1>3. /\ h.q \in Seq(Refs) /\ h.o \in [Refs -> Objects] /\ Indexed(h) /\ Len(h.q) \in Nat
      /\ Len0(h) = Len(h.q)
  BY DEF InstallHyp, Good, Indexed, Heaps, Len0
<1>5. TypeOK'
  <2>1. Registered' \subseteq Workers /\ Range(id2item') \subseteq Refs
    BY <1>1 DEF Registered, InstallHyp, OnePerWorker
  <2>2. silence' \in [Workers -> 0..(Expiry + 1)]
    BY <1>1, QueueAssumption DEF IInv, TypeOK
  <2> DEFINE Obj == [Identity : Workers \cup {None}, priority : Powers,
                     index : (-1)..Len(h.q), ttl : (-1)..Expiry]
  <2>3. Blank \in Obj
    BY <1>3, QueueAssumption DEF Blank, INVALID_INDEX, Powers
  <2>4. ASSUME NEW r \in Range(items) PROVE h.o[r] \in Obj
    <3>1. h.o[r] \in Objects /\ h.o[r].priority \in Powers /\ h.o[r].ttl \in (-1)..Expiry
      BY <1>1, <1>3 DEF InstallHyp
    <3>2. h.o[r].index \in (-1)..Len(h.q)
      BY <1>1, <1>3 DEF Indexed, Positions, INVALID_INDEX
    <3> QED
      BY <3>1, <3>2 DEF Objects
  <2>5. obj' \in [Refs -> Obj]
    <3> HIDE DEF Obj
    <3> QED
      BY <1>1, <2>3, <2>4
  <2> QED
    BY <1>1, <1>3, <2>1, <2>2, <2>5 DEF TypeOK
<1>6. OneObjectPerWorker'
  <2>1. \A w \in DOMAIN items : items[w] \in Range(items)
    BY DEF Range
  <2>2. \A w \in DOMAIN items : obj'[items[w]].Identity = w
    BY <1>1, <2>1 DEF InstallHyp, OnePerWorker
  <2>3. ASSUME NEW r \in ToSet(h.q)
        PROVE  obj'[r].Identity \in DOMAIN items /\ items[obj'[r].Identity] = r
    <3>1. r \in Refs
      BY <1>3 DEF ToSet
    <3>2. In(h, r)
      BY <1>3, <3>1, InQueue
    <3>3. h.o[r].Identity \in DOMAIN items /\ items[h.o[r].Identity] = r
      BY <3>1, <3>2 DEF InstallHyp, OnePerWorker
    <3> QED
      BY <1>1, <2>1, <3>1, <3>3
  <2> QED
    BY <1>1, <2>2, <2>3 DEF OneObjectPerWorker, Registered
<1>7. \A r \in Refs \ Range(items) : obj'[r] = Blank
  BY <1>1
<1>8. \A w \in Workers \ DOMAIN items : silence'[w] = 0
  BY <1>1
<1> QED
  BY <1>1, <1>2, <1>5, <1>6, <1>7, <1>8 DEF IInv, Registered

\* What the invariant says of a state, for the calls.
LEMMA StateFacts ==
  ASSUME IInv
  PROVE  /\ Good(heap) /\ OnePerWorker(id2item, heap)
         /\ heap.o = obj /\ heap.q = WorkerQueue /\ heap = [q |-> WorkerQueue, o |-> obj]
         /\ obj \in [Refs -> Objects]
         /\ \A r \in Refs : obj[r].ttl \in (-1)..Expiry
         /\ Registered = DOMAIN id2item
<1>1. Good(heap) /\ Indexed(heap) /\ heap.o = obj /\ heap.q = WorkerQueue
      /\ heap = [q |-> WorkerQueue, o |-> obj]
  BY DEF IInv, Good, heap
<1>2. obj \in [Refs -> Objects]
  BY <1>1 DEF Indexed, Heaps
<1>3. \A r \in Refs : obj[r].ttl \in (-1)..Expiry
  BY DEF IInv, TypeOK
<1>4. Range(id2item) \subseteq Refs /\ DOMAIN id2item \subseteq Workers
  BY DEF IInv, TypeOK, Registered
<1>5. \A w \in DOMAIN id2item : id2item[w] \in Refs /\ obj[id2item[w]].Identity = w
  BY <1>4 DEF IInv, OneObjectPerWorker, Registered, Range
<1>6. ASSUME NEW r \in Refs, In(heap, r)
      PROVE  obj[r].Identity \in DOMAIN id2item /\ id2item[obj[r].Identity] = r
  <2>1. r \in ToSet(WorkerQueue)
    BY <1>1, <1>6, InQueue
  <2> QED
    BY <2>1 DEF IInv, OneObjectPerWorker, Registered
<1> QED
  BY <1>1, <1>2, <1>3, <1>4, <1>5, <1>6 DEF OnePerWorker, Registered

\* Installing a heap of the same Workers, with fewer in the map or in the slice.
LEMMA SubInstallHyp ==
  ASSUME IInv, NEW items, NEW h, NEW heard, Good(h),
         DOMAIN items \subseteq Registered, \A w \in DOMAIN items : items[w] = id2item[w],
         \A r \in Refs : h.o[r].Identity = obj[r].Identity /\ h.o[r].ttl \in (-1)..Expiry,
         \A r \in Refs : In(h, r) => In(heap, r) /\ obj[r].Identity \in DOMAIN items
  PROVE  InstallHyp(items, h, heard)
<1>1. OnePerWorker(items, h)
  BY StateFacts DEF OnePerWorker
<1>2. Range(items) \subseteq Refs
  BY <1>1 DEF OnePerWorker, Range
<1> QED
  BY <1>1, <1>2 DEF InstallHyp

\* The workers that are in the map and the slice after the step.
LEMMA WithoutFacts ==
  ASSUME NEW W
  PROVE  /\ DOMAIN Without(id2item, W) = Registered \ W
         /\ \A w \in Registered \ W : Without(id2item, W)[w] = id2item[w]
  BY DEF Without, Restrict, Registered

\* STOP takes a Worker out of the map and of the slice.
LEMMA TakeOfflineFacts ==
  ASSUME IInv, NEW w \in Registered, TakeOffline(w)
  PROVE  \E h : /\ Install(Without(id2item, {w}), h, {})
                /\ InstallHyp(Without(id2item, {w}), h, {})
                /\ SameWorkers(h, heap)
                /\ \A r \in Refs : In(h, r) <=> In(heap, r) /\ r # id2item[w]
<1> DEFINE r == id2item[w]
           h == IF obj[r].index = INVALID_INDEX THEN heap ELSE HeapRemove(heap, obj[r].index)
<1>1. Install(Without(id2item, {w}), h, {})
  BY DEF TakeOffline
<1>2. r \in Refs /\ obj[r].Identity = w
  BY StateFacts DEF OnePerWorker
<1>3. Good(h) /\ SameWorkers(h, heap) /\ \A x \in Refs : In(h, x) <=> In(heap, x) /\ x # r
  <2>1. CASE obj[r].index = INVALID_INDEX
    BY <2>1, StateFacts DEF SameWorkers, In
  <2>2. CASE obj[r].index # INVALID_INDEX
    <3>1. obj[r].index \in Positions(heap) /\ At(heap, obj[r].index) = r
      BY <1>2, <2>2, StateFacts DEF Good, Indexed
    <3>2. Removed(h, heap, r) /\ Ordered(h, Len0(h))
      BY <2>2, <3>1, StateFacts, RemoveOK DEF Good
    <3> QED
      BY <3>2 DEF Removed, Good
  <2> QED
    BY <2>1, <2>2
<1> HIDE DEF h
<1>4. ASSUME NEW x \in Refs, In(h, x) PROVE In(heap, x) /\ obj[x].Identity \in Registered \ {w}
  <2>1. In(heap, x) /\ x # r
    BY <1>3, <1>4
  <2> QED
    BY <2>1, StateFacts DEF OnePerWorker
<1>5. \A x \in Refs : h.o[x].Identity = obj[x].Identity /\ h.o[x].ttl \in (-1)..Expiry
  BY <1>3, StateFacts DEF SameWorkers
<1>6. InstallHyp(Without(id2item, {w}), h, {})
  BY <1>3, <1>4, <1>5, WithoutFacts, SubInstallHyp
<1> QED
  BY <1>1, <1>3, <1>6

\* An assignment to Expire.
LEMMA ObjectTtl ==
  ASSUME NEW x \in Objects, NEW m \in Int
  PROVE  /\ [x EXCEPT !.ttl = m] \in Objects
         /\ [x EXCEPT !.ttl = m].ttl = m
         /\ [x EXCEPT !.ttl = m].Identity = x.Identity
         /\ [x EXCEPT !.ttl = m].priority = x.priority
         /\ [x EXCEPT !.ttl = m].index = x.index
  BY DEF Objects

\* An assignment to the priority.
LEMMA ObjectPriority ==
  ASSUME NEW x \in Objects, NEW m \in Int
  PROVE  /\ [x EXCEPT !.priority = m] \in Objects
         /\ [x EXCEPT !.priority = m].priority = m
         /\ [x EXCEPT !.priority = m].Identity = x.Identity
         /\ [x EXCEPT !.priority = m].ttl = x.ttl
         /\ [x EXCEPT !.priority = m].index = x.index
  BY DEF Objects

\* The same slice over objects with the same indices.
LEMMA SameSlice ==
  ASSUME NEW h, Indexed(h), NEW g, g.q = h.q, g = [q |-> g.q, o |-> g.o], DOMAIN g.o = Refs,
         g.o = [r \in Refs |-> g.o[r]],
         \A r \in Refs : g.o[r] \in Objects /\ g.o[r].index = h.o[r].index
  PROVE  /\ Indexed(g)
         /\ Len0(g) = Len0(h)
         /\ \A k \in Positions(h) : At(g, k) = At(h, k) /\ At(h, k) \in Refs
         /\ \A r \in Refs : In(g, r) <=> In(h, r)
<1>1. g.o \in [Refs -> Objects]
  OBVIOUS
<1>2. h \in Heaps /\ h.q \in Seq(Refs)
  BY DEF Indexed, Heaps
<1>3. g \in Heaps
  BY <1>1, <1>2 DEF Heaps
<1>4. Len0(g) = Len0(h) /\ Positions(g) = Positions(h)
  BY DEF Len0, Positions
<1>5. \A k \in Int : At(g, k) = At(h, k)
  BY DEF At
<1>6. \A k \in Positions(h) : At(h, k) \in Refs /\ k \in Int
  BY <1>2, AtType DEF Positions
<1>7. ASSUME NEW k \in Positions(h) PROVE g.o[At(g, k)].index = k
  BY <1>5, <1>6 DEF Indexed
<1>8. ASSUME NEW r \in Refs
      PROVE  g.o[r].index = INVALID_INDEX
               \/ (g.o[r].index \in Positions(h) /\ At(g, g.o[r].index) = r)
  BY <1>5, <1>6 DEF Indexed
<1>9. Indexed(g)
  BY <1>3, <1>4, <1>7, <1>8 DEF Indexed
<1> QED
  BY <1>4, <1>5, <1>6, <1>9 DEF In

\* What UpdateWorkerExpire makes of the heap.
Refreshed(w) == [heap EXCEPT !.o[id2item[w]].ttl = Expiry]

\* It moves the timer of one Worker, and nothing else.
LEMMA ExpireFacts ==
  ASSUME IInv, NEW w \in Registered,
         NEW h, h = Refreshed(w)
  PROVE  /\ InstallHyp(id2item, h, {w})
         /\ \A r \in Refs : /\ In(h, r) <=> In(heap, r)
                            /\ h.o[r].priority = obj[r].priority
                            /\ h.o[r].ttl = IF r = id2item[w] THEN Expiry ELSE obj[r].ttl
<1> DEFINE v == id2item[w]
<1>0. PICK o2 : o2 = [obj EXCEPT ![v].ttl = Expiry]
  OBVIOUS
<1>1. v \in Refs /\ h = [q |-> WorkerQueue, o |-> o2]
  BY <1>0, StateFacts DEF OnePerWorker, Refreshed
<1>2. h.q = WorkerQueue /\ h.o = o2
  BY <1>1
<1>3. Expiry \in Int /\ Expiry \in Nat
  BY QueueAssumption
<1>4. ASSUME NEW r \in Refs
      PROVE  /\ h.o[r] \in Objects
             /\ h.o[r].Identity = obj[r].Identity /\ h.o[r].index = obj[r].index
             /\ h.o[r].priority = obj[r].priority
             /\ h.o[r].ttl = IF r = v THEN Expiry ELSE obj[r].ttl
  <2>1. obj[r] \in Objects /\ DOMAIN obj = Refs
    BY StateFacts
  <2> HIDE DEF v
  <2>2. CASE r = v
    <3>1. h.o[r] = [obj[r] EXCEPT !.ttl = Expiry]
      BY <1>0, <1>1, <1>2, <2>1, <2>2
    <3>2. PICK x \in Objects : x = obj[r]
      BY <2>1
    <3>3. PICK y : y = [x EXCEPT !.ttl = Expiry]
      OBVIOUS
    <3>4. y \in Objects /\ y.ttl = Expiry /\ y.Identity = x.Identity
          /\ y.priority = x.priority /\ y.index = x.index
      BY <1>3, <3>3, ObjectTtl
    <3> QED
      BY <2>2, <3>1, <3>2, <3>3, <3>4
  <2>3. CASE r # v
    <3>1. h.o[r] = obj[r]
      BY <1>0, <1>2, <2>1, <2>3
    <3> QED
      BY <2>1, <2>3, <3>1
  <2> QED
    BY <2>2, <2>3
<1>5. Good(h)
  <2>1. DOMAIN h.o = Refs /\ h.o = [r \in Refs |-> h.o[r]] /\ h = [q |-> h.q, o |-> h.o]
    BY <1>0, <1>1, <1>2, StateFacts
  <2>2. Indexed(heap) /\ Ordered(heap, Len0(heap)) /\ h.q = heap.q
         /\ \A r \in Refs : h.o[r] \in Objects /\ h.o[r].index = heap.o[r].index
    BY <1>2, <1>4, StateFacts DEF Good
  <2>4. Indexed(h) /\ Len0(h) = Len0(heap)
        /\ \A k \in Positions(heap) : At(h, k) = At(heap, k) /\ At(heap, k) \in Refs
    BY <2>1, <2>2, SameSlice
  <2>6. Ordered(h, Len0(h))
    <3>1. \A k \in Positions(heap) : Prio(h, k) = Prio(heap, k)
      BY <1>4, <2>4, StateFacts DEF Prio
    <3> QED
      BY <2>2, <2>4, <3>1 DEF Ordered, Positions
  <2> QED
    BY <2>4, <2>6 DEF Good
<1>6. \A r \in Refs : In(h, r) <=> In(heap, r)
  BY <1>4, StateFacts DEF In
<1>7. InstallHyp(id2item, h, {w})
  <2>1. \A r \in Refs : h.o[r].Identity = obj[r].Identity /\ h.o[r].ttl \in (-1)..Expiry
    BY <1>3, <1>4, StateFacts
  <2>2. \A r \in Refs : In(h, r) => In(heap, r) /\ obj[r].Identity \in Registered
    BY <1>6, StateFacts DEF OnePerWorker
  <2> QED
    BY <1>5, <2>1, <2>2, SubInstallHyp, StateFacts
<1> QED
  BY <1>4, <1>6, <1>7

\* The heap h with y for the object r.
Given(h, r, y) == [q |-> h.q, o |-> [x \in Refs |-> IF x = r THEN y ELSE h.o[x]]]

\* Only the order at the place of r may be lost.
LEMMA GivenFacts ==
  ASSUME NEW h, Good(h), NEW r \in Refs, NEW y \in Objects, y.index = h.o[r].index,
         NEW c, c = Given(h, r, y)
  PROVE  /\ Indexed(c) /\ c.q = h.q /\ Len0(c) = Len0(h)
         /\ \A x \in Refs : c.o[x] = IF x = r THEN y ELSE h.o[x]
         /\ \A x \in Refs : In(c, x) <=> In(h, x)
         /\ ~In(h, r) => Ordered(c, Len0(c))
         /\ In(h, r) => h.o[r].index \in Positions(h) /\ Recharged(c, h, h.o[r].index)
<1>1. Indexed(h) /\ Ordered(h, Len0(h)) /\ h.o \in [Refs -> Objects]
  BY DEF Good, Indexed, Heaps
<1>2. c.q = h.q /\ c = [q |-> c.q, o |-> c.o]
      /\ c.o = [x \in Refs |-> IF x = r THEN y ELSE h.o[x]]
  BY DEF Given
<1>3. \A x \in Refs : c.o[x] = IF x = r THEN y ELSE h.o[x]
  BY <1>2
<1>4. DOMAIN c.o = Refs /\ c.o = [x \in Refs |-> c.o[x]]
  BY <1>2, <1>3
<1>5. \A x \in Refs : c.o[x] \in Objects /\ c.o[x].index = h.o[x].index
  BY <1>1, <1>3
<1>6. /\ Indexed(c) /\ Len0(c) = Len0(h)
      /\ \A k \in Positions(h) : At(c, k) = At(h, k) /\ At(h, k) \in Refs
      /\ \A x \in Refs : In(c, x) <=> In(h, x)
  BY <1>1, <1>2, <1>4, <1>5, SameSlice
<1>7. ASSUME ~In(h, r) PROVE Ordered(c, Len0(c))
  <2>1. ASSUME NEW k \in Positions(h) PROVE Prio(c, k) = Prio(h, k)
    <3>1. At(h, k) # r
      BY <1>1, <1>7 DEF Indexed, In, Positions, INVALID_INDEX
    <3> QED
      BY <1>3, <1>6, <3>1 DEF Prio
  <2> QED
    BY <1>1, <1>6, <2>1 DEF Ordered, Positions
<1>8. ASSUME In(h, r) PROVE h.o[r].index \in Positions(h) /\ Recharged(c, h, h.o[r].index)
  <2>1. h.o[r].index \in Positions(h) /\ At(h, h.o[r].index) = r
    BY <1>1, <1>8 DEF Indexed, In
  <2> QED
    BY <1>2, <1>3, <1>5, <1>6, <2>1 DEF Recharged
<1> QED
  BY <1>2, <1>3, <1>6, <1>7, <1>8

\* A Worker that was given a new priority is pushed, or moved to its place.
LEMMA RequeuedOK ==
  ASSUME NEW h, Good(h), NEW r \in Refs, NEW y \in Objects, y.index = h.o[r].index,
         NEW c, c = Given(h, r, y), NEW g, g = Requeued(c, r)
  PROVE  /\ Good(g) /\ SameWorkers(g, c)
         /\ \A x \in Refs : In(g, x) <=> In(h, x) \/ x = r
<1>1. /\ Indexed(c) /\ c.q = h.q /\ Len0(c) = Len0(h)
      /\ \A x \in Refs : In(c, x) <=> In(h, x)
      /\ ~In(h, r) => Ordered(c, Len0(c))
      /\ In(h, r) => h.o[r].index \in Positions(h) /\ Recharged(c, h, h.o[r].index)
      /\ c.o[r].index = h.o[r].index
  BY GivenFacts
<1>2. CASE ~In(h, r)
  <2>1. g = HeapPush(c, r)
    BY <1>1, <1>2 DEF Requeued, In
  <2> QED
    BY <1>1, <1>2, <2>1, PushOK DEF Good
<1>3. CASE In(h, r)
  <2>1. g = HeapFix(c, h.o[r].index)
    BY <1>1, <1>3 DEF Requeued, In
  <2>2. Arranged(g, c, Len0(c)) /\ Ordered(g, Len0(g))
    BY <1>1, <1>3, <2>1, HeapFixOK DEF Good
  <2> QED
    BY <1>1, <1>3, <2>2 DEF Arranged, Good
<1> QED
  BY <1>2, <1>3

\* The item UpdateWorkerStatus goes on with: one in the map, or a new one.
LEMMA ChargedFacts ==
  ASSUME IInv, NEW w \in Workers, NEW power \in Nat, w \notin Registered => Free # {},
         NEW r, r = Item(w), NEW y, y = Charged(w, power)
  PROVE  /\ r \in Refs /\ y \in Objects /\ y.index = obj[r].index
         /\ y.Identity = w /\ y.ttl = Expiry
         /\ y.priority = IF power = 0 THEN Object(w).priority + 1 ELSE power
         /\ w \in Registered => r = id2item[w]
         /\ w \notin Registered => r \notin Range(id2item) /\ ~In(heap, r)
<1>0. Expiry \in Int
  BY QueueAssumption
<1>1. CASE w \in Registered
  <2>1. r = id2item[w] /\ r \in Refs /\ obj[r] \in Objects /\ obj[r].Identity = w
    BY <1>1, StateFacts DEF Item, OnePerWorker
  <2>2. PICK x \in Objects : x = obj[r]
    BY <2>1
  <2>3. PICK z : z = [x EXCEPT !.ttl = Expiry]
    OBVIOUS
  <2>4. z \in Objects /\ z.ttl = Expiry /\ z.Identity = w /\ z.priority = x.priority
        /\ z.index = x.index
    BY <1>0, <2>1, <2>2, <2>3, ObjectTtl
  <2>5. PICK m : m = IF power = 0 THEN z.priority + 1 ELSE power
    OBVIOUS
  <2>6. m \in Int
    BY <2>4, <2>5 DEF Objects
  <2>7. y = [z EXCEPT !.priority = m]
    BY <1>1, <2>1, <2>2, <2>3, <2>5 DEF Charged
  <2>8. y \in Objects /\ y.priority = m /\ y.Identity = z.Identity /\ y.ttl = z.ttl
        /\ y.index = z.index
    BY <2>4, <2>6, <2>7, ObjectPriority
  <2>9. Object(w) = x
    BY <1>1, <2>1, <2>2 DEF Object
  <2> QED
    BY <1>1, <2>1, <2>2, <2>4, <2>5, <2>8, <2>9
<1>2. CASE w \notin Registered
  <2>1. r \in Free
    BY <1>2 DEF Item
  <2>2. r \in Refs /\ obj[r] = Blank
    BY <2>1 DEF Free
  <2>3. r \notin Range(id2item)
    <3> SUFFICES ASSUME r \in Range(id2item) PROVE FALSE
      OBVIOUS
    <3>1. PICK v \in DOMAIN id2item : id2item[v] = r
      BY DEF Range
    <3>2. Blank.Identity = v /\ v \in Workers
      BY <2>2, <3>1, StateFacts DEF OnePerWorker
    <3> QED
      BY <3>2, QueueAssumption DEF Blank
  <2>4. ~In(heap, r)
    BY <2>2, StateFacts DEF In, Blank
  <2>5. PICK z : z = NewWorker(w)
    OBVIOUS
  <2>6. z \in Objects /\ z.ttl = Expiry /\ z.Identity = w /\ z.priority = 0
        /\ z.index = INVALID_INDEX
    <3>1. z = [Identity |-> w, priority |-> 0, index |-> INVALID_INDEX, ttl |-> Expiry]
      BY <2>5 DEF NewWorker, Blank
    <3> QED
      BY <1>0, <3>1 DEF Objects, INVALID_INDEX
  <2>7. PICK m : m = IF power = 0 THEN z.priority + 1 ELSE power
    OBVIOUS
  <2>8. m \in Int
    BY <2>6, <2>7
  <2>9. y = [z EXCEPT !.priority = m]
    BY <1>2, <2>5, <2>7 DEF Charged
  <2>10. y \in Objects /\ y.priority = m /\ y.Identity = z.Identity /\ y.ttl = z.ttl
         /\ y.index = z.index
    BY <2>6, <2>8, <2>9, ObjectPriority
  <2>11. Object(w).priority = 0 /\ obj[r].index = INVALID_INDEX
    BY <1>2, <2>2 DEF Object, Blank
  <2> QED
    BY <1>2, <2>2, <2>3, <2>4, <2>6, <2>7, <2>10, <2>11
<1> QED
  BY <1>1, <1>2

\* What SetPower installs: w with its new priority, the others as they were.
PowerSet(items, h, w, power) ==
  /\ Install(items, h, {w})
  /\ InstallHyp(items, h, {w})
  /\ DOMAIN items = Registered \cup {w}
  /\ \A v \in Registered : items[v] = id2item[v]
  /\ h.o[items[w]].priority = IF power = 0 THEN Object(w).priority + 1 ELSE power
  /\ h.o[items[w]].ttl = Expiry
  /\ In(h, items[w])
  /\ \A v \in Registered \ {w} :
       /\ h.o[id2item[v]].priority = obj[id2item[v]].priority
       /\ h.o[id2item[v]].ttl = obj[id2item[v]].ttl
       /\ In(h, id2item[v]) <=> In(heap, id2item[v])

\* An update installs that.
LEMMA SetPowerFacts ==
  ASSUME IInv, NEW w \in Workers, NEW power \in Nat, SetPower(w, power)
  PROVE  \E items, h : PowerSet(items, h, w, power)
<1> PICK r : r = Item(w)
  OBVIOUS
<1> PICK y : y = Charged(w, power)
  OBVIOUS
<1> DEFINE items == [v \in Registered \cup {w} |-> IF v = w THEN r ELSE id2item[v]]
<1> PICK c : c = Given(heap, r, y)
  OBVIOUS
<1> PICK h : h = Requeued(c, r)
  OBVIOUS
<1>1. w \notin Registered => Free # {}
  BY DEF SetPower
<1>2. /\ r \in Refs /\ y \in Objects /\ y.index = obj[r].index
      /\ y.Identity = w /\ y.ttl = Expiry
      /\ y.priority = IF power = 0 THEN Object(w).priority + 1 ELSE power
      /\ w \in Registered => r = id2item[w]
      /\ w \notin Registered => r \notin Range(id2item) /\ ~In(heap, r)
  BY <1>1, ChargedFacts
<1>3. c = [heap EXCEPT !.o[r] = y]
  <2>1. heap = [q |-> WorkerQueue, o |-> obj] /\ heap.o = obj /\ heap.q = WorkerQueue
        /\ DOMAIN obj = Refs
    BY StateFacts
  <2>2. [heap EXCEPT !.o[r] = y] = [q |-> WorkerQueue, o |-> [obj EXCEPT ![r] = y]]
    BY <2>1
  <2>3. [obj EXCEPT ![r] = y] = [x \in Refs |-> IF x = r THEN y ELSE obj[x]]
    BY <2>1
  <2> QED
    BY <2>1, <2>2, <2>3 DEF Given
<1>4. Install(items, h, {w})
  BY <1>3 DEF SetPower
<1>5. Good(heap) /\ y.index = heap.o[r].index
  BY <1>2, StateFacts
<1>6. \A x \in Refs : c.o[x] = IF x = r THEN y ELSE obj[x]
  BY <1>2, <1>5, StateFacts, GivenFacts
<1>7. Good(h) /\ SameWorkers(h, c) /\ \A x \in Refs : In(h, x) <=> In(heap, x) \/ x = r
  BY <1>2, <1>5, RequeuedOK
<1>8. \A x \in Refs : /\ h.o[x].Identity = IF x = r THEN w ELSE obj[x].Identity
                      /\ h.o[x].priority = IF x = r THEN y.priority ELSE obj[x].priority
                      /\ h.o[x].ttl = IF x = r THEN Expiry ELSE obj[x].ttl
  BY <1>2, <1>6, <1>7 DEF SameWorkers
<1>9. DOMAIN items = Registered \cup {w} /\ items[w] = r
      /\ \A v \in Registered : items[v] = id2item[v]
  BY <1>2
<1> HIDE DEF items
<1>10. \A v \in Registered \ {w} : id2item[v] \in Refs /\ id2item[v] # r
       /\ obj[id2item[v]].Identity = v /\ v \in Workers
  BY <1>2, StateFacts DEF OnePerWorker, Range
<1>11. OnePerWorker(items, h)
  <2>1. DOMAIN items \subseteq Workers
    BY <1>9, StateFacts DEF OnePerWorker
  <2>2. ASSUME NEW v \in DOMAIN items PROVE items[v] \in Refs /\ h.o[items[v]].Identity = v
    BY <1>2, <1>8, <1>9, <1>10
  <2>3. ASSUME NEW x \in Refs, In(h, x)
        PROVE  h.o[x].Identity \in DOMAIN items /\ items[h.o[x].Identity] = x
    <3>1. CASE x = r
      BY <1>8, <1>9, <3>1
    <3>2. CASE x # r
      <4>1. In(heap, x)
        BY <1>7, <2>3, <3>2
      <4>2. obj[x].Identity \in Registered /\ id2item[obj[x].Identity] = x
        BY <4>1, StateFacts DEF OnePerWorker
      <4> QED
        BY <1>2, <1>8, <1>9, <3>2, <4>2
    <3> QED
      BY <3>1, <3>2
  <2> QED
    BY <2>1, <2>2, <2>3 DEF OnePerWorker
<1>12. \A x \in Range(items) : h.o[x].ttl \in (-1)..Expiry
  <2>1. Range(items) \subseteq Refs /\ Expiry \in (-1)..Expiry
    BY <1>11, QueueAssumption DEF OnePerWorker, Range
  <2> QED
    BY <1>8, <2>1, StateFacts
<1>13. InstallHyp(items, h, {w})
  BY <1>7, <1>11, <1>12 DEF InstallHyp
<1>14. \A v \in Registered \ {w} :
         /\ h.o[id2item[v]].priority = obj[id2item[v]].priority
         /\ h.o[id2item[v]].ttl = obj[id2item[v]].ttl
         /\ In(h, id2item[v]) <=> In(heap, id2item[v])
  BY <1>7, <1>8, <1>10
<1>15. /\ h.o[items[w]].priority = IF power = 0 THEN Object(w).priority + 1 ELSE power
       /\ h.o[items[w]].ttl = Expiry
       /\ In(h, items[w])
  BY <1>2, <1>7, <1>8, <1>9
<1> QED
  BY <1>4, <1>9, <1>13, <1>14, <1>15 DEF PowerSet

\* NextWorker drops, then charges the best that is left.
LEMMA NextWorkerFacts ==
  ASSUME IInv, NextWorker
  PROVE  \E g, h :
           /\ Dropped(g, heap)
           /\ Install(id2item, h, {})
           /\ InstallHyp(id2item, h, {})
           /\ \A x \in Refs : h.o[x].ttl = obj[x].ttl /\ (In(h, x) <=> In(g, x))
           /\ \/ /\ \A x \in Refs : ~In(g, x) /\ h.o[x].priority = obj[x].priority
                 /\ handed' = None
              \/ \E r \in Refs :
                   /\ In(g, r) /\ After(obj[r])
                   /\ \A x \in Refs : In(g, x) => obj[r].priority >= obj[x].priority
                   /\ \A x \in Refs : h.o[x].priority = IF x = r THEN obj[x].priority - 1
                        ELSE obj[x].priority
                   /\ handed' = obj[r].Identity
<1> PICK g : g = DropExpiredTop(heap)
  OBVIOUS
<1>1. Good(heap) /\ heap.o = obj /\ \A r \in Refs : obj[r] \in Objects
  BY StateFacts
<1>2. Dropped(g, heap) /\ (Len0(g) = 0 \/ After(g.o[At(g, 0)])) /\ Good(g)
      /\ SameWorkers(g, heap)
  BY <1>1, DropOK DEF Dropped
<1>3. Indexed(g) /\ g \in Heaps /\ Len0(g) \in Nat /\ g.o \in [Refs -> Objects]
      /\ g = [q |-> g.q, o |-> g.o]
  BY <1>2 DEF Good, Indexed, Heaps, Len0
<1>4. \A x \in Refs : In(g, x) => In(heap, x) /\ obj[x].Identity \in Registered
  BY <1>1, <1>2, StateFacts DEF Dropped, OnePerWorker
<1>5. CASE Len0(g) = 0 /\ Install(id2item, g, {}) /\ handed' = None
  <2>1. \A x \in Refs : ~In(g, x)
    BY <1>2, <1>5, TopIsBest
  <2>2. InstallHyp(id2item, g, {})
    <3>1. \A x \in Refs : g.o[x].Identity = obj[x].Identity /\ g.o[x].ttl \in (-1)..Expiry
      BY <1>1, <1>2, StateFacts DEF SameWorkers
    <3> QED
      BY <1>2, <1>4, <3>1, SubInstallHyp, StateFacts
  <2> QED
    BY <1>1, <1>2, <1>5, <2>1, <2>2 DEF SameWorkers
<1>6. CASE /\ Len0(g) > 0
           /\ Install(id2item, HeapFix([g EXCEPT !.o[At(g, 0)].priority = @ - 1],
                                       g.o[At(g, 0)].index), {})
           /\ handed' = obj[At(g, 0)].Identity
  <2> PICK r : r = At(g, 0)
    OBVIOUS
  <2>1. r \in Refs /\ g.o[r].index = 0 /\ In(g, r)
    BY <1>3, <1>6, AtType DEF Indexed, Positions, In, INVALID_INDEX
  <2>13. PICK x \in Objects : x = g.o[r]
    BY <1>3, <2>1
  <2>14. PICK y : y = [x EXCEPT !.priority = @ - 1]
    OBVIOUS
  <2>2. y \in Objects /\ y.priority = x.priority - 1 /\ y.Identity = x.Identity
        /\ y.ttl = x.ttl /\ y.index = x.index
    <3>1. x.priority - 1 \in Int
      BY DEF Objects
    <3>2. y = [x EXCEPT !.priority = x.priority - 1]
      BY <2>14 DEF Objects
    <3> QED
      BY <3>1, <3>2, ObjectPriority
  <2>15. y \in Objects /\ y.index = g.o[r].index
    BY <2>2, <2>13
  <2> PICK c : c = Given(g, r, y)
    OBVIOUS
  <2>3. c = [g EXCEPT !.o[r].priority = @ - 1]
    <3>1. [g EXCEPT !.o[r].priority = @ - 1] =
            [q |-> g.q, o |-> [g.o EXCEPT ![r].priority = @ - 1]]
      BY <1>3
    <3>2. [g.o EXCEPT ![r].priority = @ - 1] = [z \in Refs |-> IF z = r THEN y ELSE g.o[z]]
      BY <1>3, <2>1, <2>13, <2>14
    <3> QED
      BY <3>1, <3>2 DEF Given
  <2> PICK h : h = Requeued(c, r)
    OBVIOUS
  <2>4. /\ c.o[r].index = g.o[r].index
        /\ \A z \in Refs : c.o[z] = IF z = r THEN y ELSE g.o[z]
    BY <1>2, <2>1, <2>15, GivenFacts
  <2>5. h = HeapFix(c, g.o[r].index)
    BY <2>1, <2>4 DEF Requeued, INVALID_INDEX
  <2>6. Install(id2item, h, {})
    BY <1>6, <2>3, <2>5
  <2>7. Good(h) /\ SameWorkers(h, c) /\ \A z \in Refs : In(h, z) <=> In(g, z)
    BY <1>2, <2>1, <2>15, RequeuedOK
  <2>8. \A z \in Refs : /\ h.o[z].Identity = obj[z].Identity
                        /\ h.o[z].priority = IF z = r THEN obj[z].priority - 1
                             ELSE obj[z].priority
                        /\ h.o[z].ttl = obj[z].ttl
    BY <1>1, <1>2, <2>2, <2>4, <2>7, <2>13 DEF SameWorkers
  <2>9. InstallHyp(id2item, h, {})
    <3>1. \A z \in Refs : h.o[z].Identity = obj[z].Identity /\ h.o[z].ttl \in (-1)..Expiry
      BY <2>8, StateFacts
    <3>2. \A z \in Refs : In(h, z) => In(heap, z) /\ obj[z].Identity \in Registered
      BY <1>4, <2>7
    <3> QED
      BY <2>7, <3>1, <3>2, SubInstallHyp, StateFacts
  <2>10. After(obj[r])
    BY <1>1, <1>2, <1>6, <2>1 DEF SameWorkers, After
  <2>11. \A z \in Refs : In(g, z) => obj[r].priority >= obj[z].priority
    <3>1. \A z \in Refs : In(g, z) => g.o[r].priority >= g.o[z].priority
      BY <1>2, TopIsBest
    <3> QED
      BY <1>1, <1>2, <2>1, <3>1 DEF SameWorkers
  <2>12. handed' = obj[r].Identity
    BY <1>6
  <2> QED
    BY <1>2, <2>1, <2>6, <2>7, <2>8, <2>9, <2>10, <2>11, <2>12
<1> QED
  BY <1>5, <1>6 DEF NextWorker

\* HasNextWorker only drops.
LEMMA HasNextWorkerFacts ==
  ASSUME IInv, HasNextWorker
  PROVE  \E g :
           /\ Dropped(g, heap)
           /\ Install(id2item, g, {})
           /\ InstallHyp(id2item, g, {})
           /\ \/ \A x \in Refs : ~In(g, x)
              \/ \E r \in Refs :
                   /\ In(g, r) /\ After(obj[r])
                   /\ \A x \in Refs : In(g, x) => obj[r].priority >= obj[x].priority
<1> PICK g : g = DropExpiredTop(heap)
  OBVIOUS
<1>1. Good(heap) /\ heap.o = obj
  BY StateFacts
<1>2. Dropped(g, heap) /\ (Len0(g) = 0 \/ After(g.o[At(g, 0)])) /\ Good(g)
      /\ SameWorkers(g, heap)
  BY <1>1, DropOK DEF Dropped
<1>3. \A x \in Refs : In(g, x) => In(heap, x) /\ obj[x].Identity \in Registered
  BY <1>1, <1>2, StateFacts DEF Dropped, OnePerWorker
<1>4. Install(id2item, g, {})
  BY DEF HasNextWorker
<1>5. InstallHyp(id2item, g, {})
  <2>1. \A x \in Refs : g.o[x].Identity = obj[x].Identity /\ g.o[x].ttl \in (-1)..Expiry
    BY <1>1, <1>2, StateFacts DEF SameWorkers
  <2> QED
    BY <1>2, <1>3, <2>1, SubInstallHyp, StateFacts
<1>6. ASSUME NEW x \in Refs, In(g, x)
      PROVE  \E r \in Refs :
               /\ In(g, r) /\ After(obj[r])
               /\ \A z \in Refs : In(g, z) => obj[r].priority >= obj[z].priority
  <2> PICK r : r = At(g, 0)
    OBVIOUS
  <2>1. Len0(g) > 0 /\ r \in Refs /\ In(g, r)
    BY <1>2, <1>6, TopIsBest
  <2>2. \A z \in Refs : In(g, z) => g.o[r].priority >= g.o[z].priority
    BY <1>2, TopIsBest
  <2>3. After(obj[r])
    BY <1>1, <1>2, <2>1 DEF SameWorkers, After
  <2>4. \A z \in Refs : In(g, z) => obj[r].priority >= obj[z].priority
    BY <1>1, <1>2, <2>1, <2>2 DEF SameWorkers
  <2> QED
    BY <2>1, <2>3, <2>4
<1> QED
  BY <1>2, <1>4, <1>5, <1>6

\* PurgeExpired takes the same Workers out of the map as out of the slice.
LEMMA PurgeFacts ==
  ASSUME IInv, PurgeExpired, NEW W,
         W = {w \in Registered : In(heap, id2item[w]) /\ Before(obj[id2item[w]])}
  PROVE  \E h :
           /\ Install(Without(id2item, W), h, {})
           /\ InstallHyp(Without(id2item, W), h, {})
           /\ SameWorkers(h, heap)
           /\ \A r \in Refs : In(h, r) <=> In(heap, r) /\ ~Before(obj[r])
<1>1. Good(heap) /\ heap.o = obj /\ heap.q = WorkerQueue /\ Indexed(heap)
      /\ WorkerQueue \in Seq(Refs)
  BY StateFacts DEF Good, Indexed, Heaps
<1> PICK h : h = RemoveExpired
  OBVIOUS
<1>2. Good(h) /\ SameWorkers(h, heap) /\ \A r \in Refs : In(h, r) <=> In(heap, r)
      /\ ~Before(obj[r])
  BY <1>1, PurgeOK
<1>3. {obj[r].Identity : r \in {x \in ToSet(WorkerQueue) : Before(obj[x])}} = W
  <2>1. ASSUME NEW r \in ToSet(WorkerQueue), Before(obj[r]) PROVE obj[r].Identity \in W
    <3>1. r \in Refs
      BY <1>1 DEF ToSet
    <3>2. In(heap, r)
      BY <1>1, <3>1, InQueue
    <3>3. obj[r].Identity \in Registered /\ id2item[obj[r].Identity] = r
      BY <1>1, <3>1, <3>2, StateFacts DEF OnePerWorker
    <3> QED
      BY <2>1, <3>2, <3>3
  <2>2. ASSUME NEW w \in W
        PROVE  \E r \in ToSet(WorkerQueue) : Before(obj[r]) /\ obj[r].Identity = w
    <3>1. id2item[w] \in Refs /\ obj[id2item[w]].Identity = w
      BY <1>1, StateFacts DEF OnePerWorker
    <3>2. id2item[w] \in ToSet(WorkerQueue)
      BY <1>1, <3>1, InQueue
    <3> QED
      BY <3>1, <3>2
  <2> QED
    BY <2>1, <2>2
<1>4. Install(Without(id2item, W), h, {})
  BY <1>3 DEF PurgeExpired
<1>5. \A x \in Refs : h.o[x].Identity = obj[x].Identity /\ h.o[x].ttl \in (-1)..Expiry
  BY <1>1, <1>2, StateFacts DEF SameWorkers
<1>6. ASSUME NEW x \in Refs, In(h, x) PROVE In(heap, x) /\ obj[x].Identity \in Registered \ W
  BY <1>1, <1>2, <1>6, StateFacts DEF OnePerWorker
<1>7. InstallHyp(Without(id2item, W), h, {})
  BY <1>2, <1>5, <1>6, WithoutFacts, SubInstallHyp
<1> QED
  BY <1>2, <1>4, <1>7

-----------------------------------------------------------------------------
(* The invariant is inductive. *)

\* The empty queue.
LEMMA InitIInv == Init => IInv
<1> SUFFICES ASSUME Init PROVE IInv
  OBVIOUS
<1>1. Registered = {} /\ Range(id2item) = {} /\ WorkerQueue = <<>>
      /\ obj = [r \in Refs |-> Blank]
  BY DEF Init, Registered, Range
<1>2. Blank \in [Identity : Workers \cup {None}, priority : Powers,
                 index : (-1)..0, ttl : (-1)..Expiry] /\ Blank \in Objects
  BY QueueAssumption DEF Blank, INVALID_INDEX, Powers, Objects
<1>3. TypeOK
  <2>1. Len(WorkerQueue) = 0 /\ WorkerQueue \in Seq(Refs)
    BY <1>1
  <2>2. obj \in [Refs -> [Identity : Workers \cup {None}, priority : Powers,
                          index : (-1)..0, ttl : (-1)..Expiry]]
    BY <1>1, <1>2
  <2>3. handed = None /\ silence = [w \in Workers |-> 0] /\ stopped = {}
    BY DEF Init
  <2>4. silence \in [Workers -> 0..(Expiry + 1)]
    BY <2>3, QueueAssumption
  <2> QED
    BY <1>1, <2>1, <2>2, <2>3, <2>4 DEF TypeOK
<1>4. Good(heap)
  <2>1. heap \in Heaps /\ heap.o = obj /\ Len0(heap) = 0
    <3>1. obj \in [Refs -> Objects] /\ WorkerQueue \in Seq(Refs)
      BY <1>1, <1>2
    <3> QED
      BY <1>1, <3>1 DEF Heaps, heap, Len0
  <2>2. \A r \in Refs : obj[r].index = INVALID_INDEX
    BY <1>1 DEF Blank
  <2>3. Indexed(heap)
    BY <2>1, <2>2 DEF Indexed, Positions
  <2>4. Ordered(heap, Len0(heap))
    BY <2>1 DEF Ordered
  <2> QED
    BY <2>3, <2>4 DEF Good
<1>5. OneObjectPerWorker
  BY <1>1 DEF OneObjectPerWorker, ToSet
<1>6. \A w \in Workers \ Registered : silence[w] = 0
  BY DEF Init
<1> QED
  BY <1>1, <1>3, <1>4, <1>5, <1>6 DEF IInv

\* What a tick leaves alone.
LEMMA TickFacts ==
  ASSUME IInv, Tick
  PROVE  /\ Good(heap') /\ id2item' = id2item /\ WorkerQueue' = WorkerQueue
         /\ \A r \in Refs : /\ obj'[r] \in Objects
                            /\ obj'[r].Identity = obj[r].Identity
                            /\ obj'[r].priority = obj[r].priority
                            /\ obj'[r].index = obj[r].index
                            /\ obj'[r].ttl = IF obj[r].ttl >= 0 THEN obj[r].ttl - 1
                                 ELSE obj[r].ttl
                            /\ obj[r].ttl < 0 => obj'[r] = obj[r]
         /\ DOMAIN obj' = Refs /\ obj' = [r \in Refs |-> obj'[r]]
<1>1. /\ id2item' = id2item /\ WorkerQueue' = WorkerQueue
      /\ obj' = [r \in Refs |-> IF obj[r].ttl >= 0 THEN [obj[r] EXCEPT !.ttl = @ - 1]
           ELSE obj[r]]
  BY DEF Tick
<1>2. ASSUME NEW r \in Refs
      PROVE  /\ obj'[r] \in Objects
             /\ obj'[r].Identity = obj[r].Identity
             /\ obj'[r].priority = obj[r].priority
             /\ obj'[r].index = obj[r].index
             /\ obj'[r].ttl = IF obj[r].ttl >= 0 THEN obj[r].ttl - 1 ELSE obj[r].ttl
             /\ obj[r].ttl < 0 => obj'[r] = obj[r]
  <2>1. PICK x \in Objects : x = obj[r]
    BY StateFacts
  <2>2. x.ttl \in Int /\ x.ttl - 1 \in Int
    BY DEF Objects
  <2>3. PICK y : y = [x EXCEPT !.ttl = x.ttl - 1]
    OBVIOUS
  <2>4. y \in Objects /\ y.ttl = x.ttl - 1 /\ y.Identity = x.Identity
        /\ y.priority = x.priority /\ y.index = x.index
    BY <2>2, <2>3, ObjectTtl
  <2>5. y = [x EXCEPT !.ttl = @ - 1]
    BY <2>3 DEF Objects
  <2>6. obj'[r] = IF x.ttl >= 0 THEN y ELSE x
    BY <1>1, <2>1, <2>5
  <2> QED
    BY <2>1, <2>2, <2>4, <2>6
<1>3. DOMAIN obj' = Refs /\ obj' = [r \in Refs |-> obj'[r]]
  BY <1>1
<1>4. Good(heap')
  <2> PICK g : g = heap'
    OBVIOUS
  <2>1. g.q = heap.q /\ g.o = obj' /\ g = [q |-> g.q, o |-> g.o]
    BY <1>1 DEF heap
  <2>2. Indexed(heap) /\ Ordered(heap, Len0(heap)) /\ heap.o = obj
    BY StateFacts DEF Good
  <2>3. \A r \in Refs : g.o[r] \in Objects /\ g.o[r].index = heap.o[r].index
    BY <1>2, <2>1, <2>2
  <2>4. DOMAIN g.o = Refs /\ g.o = [r \in Refs |-> g.o[r]]
    BY <1>3, <2>1
  <2>5. Indexed(g) /\ Len0(g) = Len0(heap)
        /\ \A k \in Positions(heap) : At(g, k) = At(heap, k) /\ At(heap, k) \in Refs
    BY <2>1, <2>2, <2>3, <2>4, SameSlice
  <2>6. \A k \in Positions(heap) : Prio(g, k) = Prio(heap, k)
    BY <1>2, <2>1, <2>2, <2>5 DEF Prio
  <2> QED
    BY <2>2, <2>5, <2>6 DEF Good, Ordered, Positions
<1> QED
  BY <1>1, <1>2, <1>3, <1>4

\* Time moves timers only.
LEMMA TickIInv == ASSUME IInv, Tick PROVE IInv'
<1>1. /\ Good(heap') /\ id2item' = id2item /\ WorkerQueue' = WorkerQueue
      /\ \A r \in Refs : /\ obj'[r] \in Objects
                         /\ obj'[r].Identity = obj[r].Identity
                         /\ obj'[r].priority = obj[r].priority
                         /\ obj'[r].index = obj[r].index
                         /\ obj'[r].ttl = IF obj[r].ttl >= 0 THEN obj[r].ttl - 1 ELSE obj[r].ttl
                         /\ obj[r].ttl < 0 => obj'[r] = obj[r]
      /\ DOMAIN obj' = Refs /\ obj' = [r \in Refs |-> obj'[r]]
  BY TickFacts
<1>2. TypeOK'
  <2> DEFINE Obj == [Identity : Workers \cup {None}, priority : Powers,
                     index : (-1)..Len(WorkerQueue), ttl : (-1)..Expiry]
  <2>1. ASSUME NEW r \in Refs PROVE obj'[r] \in Obj
    <3>1. obj[r] \in Obj
      BY DEF IInv, TypeOK
    <3>2. obj'[r].ttl \in (-1)..Expiry
      BY <1>1, <3>1, QueueAssumption
    <3>3. obj'[r] \in Objects /\ obj'[r].Identity \in Workers \cup {None}
          /\ obj'[r].priority \in Powers
          /\ obj'[r].index \in (-1)..Len(WorkerQueue)
      BY <1>1, <3>1
    <3> QED
      BY <3>2, <3>3 DEF Objects
  <2>2. obj' \in [Refs -> Obj]
    <3> HIDE DEF Obj
    <3> QED
      BY <1>1, <2>1
  <2>3. silence' \in [Workers -> 0..(Expiry + 1)]
    BY QueueAssumption DEF Tick, IInv, TypeOK
  <2>4. handed' = None /\ stopped' = stopped
    BY DEF Tick
  <2>5. Registered' \subseteq Workers /\ Range(id2item)' \subseteq Refs
        /\ WorkerQueue' \in Seq(Refs) /\ stopped' \subseteq Workers
    BY <1>1, <2>4 DEF IInv, TypeOK, Registered
  <2> QED
    BY <1>1, <2>2, <2>3, <2>4, <2>5 DEF TypeOK
<1>3. OneObjectPerWorker'
  <2>1. \A w \in DOMAIN id2item : id2item[w] \in Refs
    BY StateFacts DEF OnePerWorker
  <2>2. \A r \in ToSet(WorkerQueue) : r \in Refs
    BY DEF IInv, TypeOK, ToSet
  <2>3. OneObjectPerWorker
    BY DEF IInv
  <2> QED
    BY <1>1, <2>1, <2>2, <2>3 DEF OneObjectPerWorker, Registered
<1>4. \A r \in Refs \ Range(id2item) : obj'[r] = Blank
  <2>1. \A r \in Refs \ Range(id2item) : obj[r] = Blank
    BY DEF IInv
  <2>2. Blank.ttl < 0
    BY DEF Blank
  <2> QED
    BY <1>1, <2>1, <2>2
<1>5. \A w \in Workers \ Registered : silence'[w] = 0
  BY DEF Tick, IInv
<1>6. Registered' = Registered
  BY <1>1 DEF Registered
<1> QED
  BY <1>1, <1>2, <1>3, <1>4, <1>5, <1>6 DEF IInv

\* The three ways UpdateWorkerStatus ends.
LEMMA UpdateWorkerStatusIInv ==
  ASSUME IInv, NEW w \in Workers, NEW power \in Int, NEW force \in BOOLEAN,
         UpdateWorkerStatus(w, power, force)
  PROVE  IInv'
<1>1. handed' \in Workers \cup {None} /\ stopped' \subseteq Workers
  BY DEF UpdateWorkerStatus, IInv, TypeOK
<1>2. CASE Ignored(w, power, force) /\ UNCHANGED <<id2item, WorkerQueue, obj, silence>>
  BY <1>1, <1>2 DEF IInv, TypeOK, OneObjectPerWorker, Registered, heap
<1>3. CASE ~Ignored(w, power, force) /\ power < 0 /\ TakeOffline(w)
  <2>1. w \in Registered
    BY <1>3 DEF Ignored
  <2> QED
    BY <1>1, <1>3, <2>1, TakeOfflineFacts, InstallIInv
<1>4. CASE ~Ignored(w, power, force) /\ power >= 0 /\ SetPower(w, power)
  <2>1. power \in Nat
    BY <1>4
  <2>2. PICK items, h : PowerSet(items, h, w, power)
    BY <1>4, <2>1, SetPowerFacts
  <2>3. Install(items, h, {w}) /\ InstallHyp(items, h, {w})
    BY <2>2 DEF PowerSet
  <2> QED
    BY <1>1, <2>3, InstallIInv
<1> QED
  BY <1>2, <1>3, <1>4 DEF UpdateWorkerStatus

\* Every step keeps the invariant.
LEMMA StepIInv == IInv /\ [Next]_vars => IInv'
<1> SUFFICES ASSUME IInv, [Next]_vars PROVE IInv'
  OBVIOUS
<1>1. stopped \subseteq Workers /\ handed \in Workers \cup {None}
  BY DEF IInv, TypeOK
<1>2. ASSUME NEW w \in Workers, NEW power \in 0..MaxConcurrency, NEW force \in BOOLEAN,
             UpdateWorkerStatus(w, power, force)
      PROVE  IInv'
  BY <1>2, UpdateWorkerStatusIInv
<1>3. ASSUME NEW w \in Workers, UpdateWorkerStatus(w, SERVICE_STOP, TRUE) PROVE IInv'
  <2>1. PICK power \in Int : power = SERVICE_STOP
    BY DEF SERVICE_STOP
  <2>2. PICK force \in BOOLEAN : force = TRUE
    OBVIOUS
  <2>3. UpdateWorkerStatus(w, power, force)
    BY <1>3, <2>1, <2>2, Zenon
  <2> QED
    BY <2>3, UpdateWorkerStatusIInv
<1>4. ASSUME NEW w \in Workers, UpdateWorkerExpire(w) PROVE IInv'
  <2>1. w \in Registered /\ Install(id2item, Refreshed(w), {w}) /\ handed' = None
        /\ stopped' = stopped
    BY <1>4 DEF UpdateWorkerExpire, Refreshed
  <2>2. InstallHyp(id2item, Refreshed(w), {w})
    BY <2>1, ExpireFacts
  <2> QED
    BY <1>1, <2>1, <2>2, InstallIInv
<1>5. CASE NextWorker
  <2>1. PICK h : Install(id2item, h, {}) /\ InstallHyp(id2item, h, {})
    BY <1>5, NextWorkerFacts
  <2>2. handed' \in Workers \cup {None} /\ stopped' = stopped
    <3>1. PICK g : Dropped(g, heap)
          /\ (handed' = None \/ \E r \in Refs : In(g, r) /\ handed' = obj[r].Identity)
      BY <1>5, NextWorkerFacts
    <3>2. \A r \in Refs : obj[r].Identity \in Workers \cup {None}
      BY StateFacts DEF Objects
    <3> QED
      BY <1>5, <3>1, <3>2 DEF NextWorker
  <2> QED
    BY <1>1, <2>1, <2>2, InstallIInv
<1>6. CASE HasNextWorker
  <2>1. PICK h : Install(id2item, h, {}) /\ InstallHyp(id2item, h, {})
    BY <1>6, HasNextWorkerFacts
  <2>2. handed' = None /\ stopped' = stopped
    BY <1>6 DEF HasNextWorker
  <2> QED
    BY <1>1, <2>1, <2>2, InstallIInv
<1>7. CASE PurgeExpired
  <2>1. PICK W, h : Install(Without(id2item, W), h, {})
        /\ InstallHyp(Without(id2item, W), h, {})
    BY <1>7, PurgeFacts
  <2>2. handed' = None /\ stopped' = stopped
    BY <1>7 DEF PurgeExpired
  <2> QED
    BY <1>1, <2>1, <2>2, InstallIInv
<1>8. CASE Tick
  BY <1>8, TickIInv
<1>9. CASE UNCHANGED vars
  BY <1>9 DEF vars, IInv, TypeOK, OneObjectPerWorker, Registered, heap
<1> QED
  BY <1>2, <1>3, <1>4, <1>5, <1>6, <1>7, <1>8, <1>9 DEF Next

(***************************************************************************)
(* The inductive invariant holds in every reachable state.                 *)
(***************************************************************************)
THEOREM QueueInvariant == Spec => []IInv
  BY InitIInv, StepIInv, PTL DEF Spec

(***************************************************************************)
(* heap.Fix and heap.Remove are always given the position of the Worker    *)
(* they are called for, and INVALID_INDEX marks the Workers out of the     *)
(* slice, after any number of swaps, pushes and removals.                  *)
(***************************************************************************)
THEOREM IndicesAreRight == Spec => []IndexTracksPosition
<1>1. IInv => IndexTracksPosition
  BY IInvImplies
<1> QED
  BY <1>1, QueueInvariant, PTL

(***************************************************************************)
(* The Worker at any position of the slice is the one id2item gives for its *)
(* identity: no worker is queued twice, or out of reach of an update.      *)
(***************************************************************************)
THEOREM MapAndSliceInStep == Spec => []OneObjectPerWorker
<1>1. IInv => OneObjectPerWorker
  BY IInvImplies
<1> QED
  BY <1>1, QueueInvariant, PTL

(***************************************************************************)
(* No Worker has a smaller priority than one of its children, whatever the *)
(* calls did: in the middle of the slice too, where heap.Fix and           *)
(* heap.Remove work.                                                       *)
(***************************************************************************)
THEOREM HeapStaysOrdered == Spec => []HeapOrdered
<1>1. IInv => HeapOrdered
  BY IInvImplies
<1> QED
  BY <1>1, QueueInvariant, PTL

-----------------------------------------------------------------------------
(* The pool. *)

\* How the pool's variables read off the queue.
LEMMA PoolState ==
  ASSUME IInv
  PROVE  /\ Registered \subseteq Workers
         /\ \A w \in Registered : id2item[w] \in Refs /\ obj[id2item[w]].Identity = w
         /\ Queued = {w \in Registered : In(heap, id2item[w])}
         /\ Power = [w \in Workers |-> IF w \in Registered THEN obj[id2item[w]].priority ELSE 0]
         /\ Ttl = [w \in Workers |-> IF w \in Registered THEN obj[id2item[w]].ttl ELSE -1]
         /\ \A w \in Workers \ Registered : silence[w] = 0
         /\ silence = [w \in Workers |-> silence[w]]
         /\ Power \in [Workers -> Powers]
<1>1. Registered \subseteq Workers /\ \A w \in Registered : id2item[w] \in Refs
      /\ obj[id2item[w]].Identity = w
  BY StateFacts DEF OnePerWorker
<1>2. Queued = {w \in Registered : In(heap, id2item[w])}
  BY StateFacts DEF Queued, Object, In
<1>3. \A w \in Workers :
        /\ Object(w).priority = IF w \in Registered THEN obj[id2item[w]].priority ELSE 0
        /\ Object(w).ttl = IF w \in Registered THEN obj[id2item[w]].ttl ELSE -1
  BY DEF Object, Blank
<1>4. Power = [w \in Workers |-> IF w \in Registered THEN obj[id2item[w]].priority ELSE 0]
  BY <1>3 DEF Power
<1>5. Ttl = [w \in Workers |-> IF w \in Registered THEN obj[id2item[w]].ttl ELSE -1]
  BY <1>3 DEF Ttl
<1>6. \A w \in Workers \ Registered : silence[w] = 0
  BY DEF IInv
<1>7. silence = [w \in Workers |-> silence[w]]
  BY DEF IInv, TypeOK
<1>8. Power \in [Workers -> Powers]
  <2>1. \A w \in Registered : obj[id2item[w]].priority \in Powers
    BY <1>1 DEF IInv, TypeOK
  <2>2. 0 \in Powers
    BY QueueAssumption DEF Powers
  <2> QED
    BY <1>4, <2>1, <2>2
<1> QED
  BY <1>1, <1>2, <1>4, <1>5, <1>6, <1>7, <1>8

\* How they read off what a step installs.
LEMMA PoolInstalled ==
  ASSUME IInv', NEW items, NEW h, NEW heard, InstallHyp(items, h, heard),
         Install(items, h, heard)
  PROVE  /\ Registered' = DOMAIN items
         /\ Queued' = {w \in DOMAIN items : In(h, items[w])}
         /\ Power' = [w \in Workers |-> IF w \in DOMAIN items THEN h.o[items[w]].priority
              ELSE 0]
         /\ Ttl' = [w \in Workers |-> IF w \in DOMAIN items THEN h.o[items[w]].ttl ELSE -1]
         /\ silence' = [w \in Workers |-> IF w \in DOMAIN items \ heard THEN silence[w] ELSE 0]
         /\ \A w \in Workers : Power'[w] \in Powers
<1>1. /\ id2item' = items
      /\ silence' = [w \in Workers |-> IF w \in DOMAIN items \ heard THEN silence[w] ELSE 0]
  BY InstallReaches
<1>2. \A r \in Range(items) : r \in Refs /\ obj'[r] = h.o[r] /\ (In(heap', r) <=> In(h, r))
  BY InstallGood, InstallReaches
<1>3. \A w \in DOMAIN items : items[w] \in Range(items)
  BY DEF Range
<1>4. Registered' = DOMAIN items
  BY <1>1 DEF Registered
<1>5. /\ Queued' = {w \in Registered' : In(heap', id2item'[w])}
      /\ Power' = [w \in Workers |-> IF w \in Registered' THEN obj'[id2item'[w]].priority
           ELSE 0]
      /\ Ttl' = [w \in Workers |-> IF w \in Registered' THEN obj'[id2item'[w]].ttl ELSE -1]
      /\ Power' \in [Workers -> Powers]
  <2>1. (/\ Queued = {w \in Registered : In(heap, id2item[w])}
         /\ Power = [w \in Workers |-> IF w \in Registered THEN obj[id2item[w]].priority ELSE 0]
         /\ Ttl = [w \in Workers |-> IF w \in Registered THEN obj[id2item[w]].ttl ELSE -1]
         /\ Power \in [Workers -> Powers])'
    BY PoolState, PTL
  <2> QED
    BY <2>1
<1> QED
  BY <1>1, <1>2, <1>3, <1>4, <1>5

\* Workers taken out of the map and of the slice are forgotten by the pool.
LEMMA ForgetMaps ==
  ASSUME IInv, IInv', NEW W, NEW h,
         Install(Without(id2item, W), h, {}), InstallHyp(Without(id2item, W), h, {}),
         SameWorkers(h, heap),
         \A w \in Registered \ W : In(h, id2item[w]) <=> In(heap, id2item[w])
  PROVE  Pool!Forget(W)
<1> PICK items : items = Without(id2item, W)
  OBVIOUS
<1>1. DOMAIN items = Registered \ W /\ \A w \in Registered \ W : items[w] = id2item[w]
  BY WithoutFacts
<1>2. /\ \A w \in Registered : id2item[w] \in Refs
      /\ Queued = {w \in Registered : In(heap, id2item[w])}
      /\ Power = [w \in Workers |-> IF w \in Registered THEN obj[id2item[w]].priority ELSE 0]
      /\ Ttl = [w \in Workers |-> IF w \in Registered THEN obj[id2item[w]].ttl ELSE -1]
      /\ \A w \in Workers \ Registered : silence[w] = 0
      /\ silence = [w \in Workers |-> silence[w]]
  BY PoolState
<1>3. Install(items, h, {}) /\ InstallHyp(items, h, {})
  OBVIOUS
<1>4. /\ Registered' = DOMAIN items
      /\ Queued' = {w \in DOMAIN items : In(h, items[w])}
      /\ Power' = [w \in Workers |-> IF w \in DOMAIN items THEN h.o[items[w]].priority ELSE 0]
      /\ Ttl' = [w \in Workers |-> IF w \in DOMAIN items THEN h.o[items[w]].ttl ELSE -1]
      /\ silence' = [w \in Workers |-> IF w \in DOMAIN items \ {} THEN silence[w] ELSE 0]
  BY <1>3, PoolInstalled
<1>5. \A r \in Refs : h.o[r].priority = obj[r].priority /\ h.o[r].ttl = obj[r].ttl
  BY StateFacts DEF SameWorkers
<1>6. Registered' = Registered \ W
  BY <1>1, <1>4
<1>7. Queued' = Queued \ W
  BY <1>1, <1>2, <1>4
<1>8. Power' = [w \in Workers |-> IF w \in W THEN 0 ELSE Power[w]]
  BY <1>1, <1>2, <1>4, <1>5
<1>9. Ttl' = [w \in Workers |-> IF w \in W THEN -1 ELSE Ttl[w]]
  BY <1>1, <1>2, <1>4, <1>5
<1>10. silence' = [w \in Workers |-> IF w \in W THEN 0 ELSE silence[w]]
  BY <1>1, <1>2, <1>4
<1> QED
  BY <1>6, <1>7, <1>8, <1>9, <1>10 DEF Pool!Forget

\* STOP of a registered worker.
LEMMA TakeOfflineMaps ==
  ASSUME IInv, IInv', NEW w \in Registered, TakeOffline(w)
  PROVE  Pool!Forget({w})
<1>1. PICK h : /\ Install(Without(id2item, {w}), h, {})
               /\ InstallHyp(Without(id2item, {w}), h, {})
               /\ SameWorkers(h, heap)
               /\ \A r \in Refs : In(h, r) <=> In(heap, r) /\ r # id2item[w]
  BY TakeOfflineFacts
<1>2. \A v \in Registered \ {w} : id2item[v] \in Refs /\ id2item[v] # id2item[w]
  BY PoolState
<1> QED
  BY <1>1, <1>2, ForgetMaps

\* A worker not registered has nothing to forget.
LEMMA NothingToForget ==
  ASSUME IInv, NEW w \in Workers \ Registered, UNCHANGED <<id2item, WorkerQueue, obj, silence>>
  PROVE  Pool!Forget({w})
<1>1. Registered' = Registered /\ Queued' = Queued /\ Power' = Power /\ Ttl' = Ttl
      /\ silence' = silence
  BY DEF Registered, Queued, Power, Ttl, Object
<1>2. /\ Queued \subseteq Registered
      /\ Power = [v \in Workers |-> Power[v]] /\ Power[w] = 0
      /\ Ttl = [v \in Workers |-> Ttl[v]] /\ Ttl[w] = -1
      /\ silence = [v \in Workers |-> silence[v]] /\ silence[w] = 0
  BY PoolState
<1> QED
  BY <1>1, <1>2 DEF Pool!Forget

\* An update of a worker that is registered, or forced.
LEMMA SetPowerMaps ==
  ASSUME IInv, IInv', NEW w \in Workers, NEW p \in Nat, NEW force \in BOOLEAN,
         w \in Registered \/ force, SetPower(w, p),
         handed' = None, stopped' = IF force THEN stopped \ {w} ELSE stopped
  PROVE  Pool!UpdatePower(w, p, force)
<1>0. PICK items, h : PowerSet(items, h, w, p)
  BY SetPowerFacts
<1>1. /\ Install(items, h, {w})
      /\ InstallHyp(items, h, {w})
      /\ DOMAIN items = Registered \cup {w}
      /\ \A v \in Registered : items[v] = id2item[v]
      /\ h.o[items[w]].priority = IF p = 0 THEN Object(w).priority + 1 ELSE p
      /\ h.o[items[w]].ttl = Expiry
      /\ In(h, items[w])
      /\ \A v \in Registered \ {w} :
           /\ h.o[id2item[v]].priority = obj[id2item[v]].priority
           /\ h.o[id2item[v]].ttl = obj[id2item[v]].ttl
           /\ In(h, id2item[v]) <=> In(heap, id2item[v])
  BY <1>0 DEF PowerSet
<1>2. /\ Registered \subseteq Workers
      /\ Queued = {v \in Registered : In(heap, id2item[v])}
      /\ Power = [v \in Workers |-> IF v \in Registered THEN obj[id2item[v]].priority ELSE 0]
      /\ Ttl = [v \in Workers |-> IF v \in Registered THEN obj[id2item[v]].ttl ELSE -1]
      /\ \A v \in Workers \ Registered : silence[v] = 0
      /\ silence = [v \in Workers |-> silence[v]]
  BY PoolState
<1>3. /\ Registered' = DOMAIN items
      /\ Queued' = {v \in DOMAIN items : In(h, items[v])}
      /\ Power' = [v \in Workers |-> IF v \in DOMAIN items THEN h.o[items[v]].priority ELSE 0]
      /\ Ttl' = [v \in Workers |-> IF v \in DOMAIN items THEN h.o[items[v]].ttl ELSE -1]
      /\ silence' = [v \in Workers |-> IF v \in DOMAIN items \ {w} THEN silence[v] ELSE 0]
      /\ \A v \in Workers : Power'[v] \in Powers
  BY <1>1, PoolInstalled
<1>4. Registered' = Registered \cup {w}
  BY <1>1, <1>3
<1>5. Queued' = Queued \cup {w}
  BY <1>1, <1>2, <1>3
<1>6. Object(w).priority = Power[w]
  BY DEF Power
<1>7. Power' = [Power EXCEPT ![w] = IF p = 0 THEN @ + 1 ELSE p]
  <2>1. Power'[w] = IF p = 0 THEN Power[w] + 1 ELSE p
    BY <1>1, <1>3, <1>6
  <2>2. \A v \in Workers \ {w} : Power'[v] = Power[v]
    BY <1>1, <1>2, <1>3
  <2> QED
    BY <1>2, <1>3, <2>1, <2>2
<1>8. Ttl' = [Ttl EXCEPT ![w] = Expiry]
  <2>1. Ttl'[w] = Expiry
    BY <1>1, <1>3
  <2>2. \A v \in Workers \ {w} : Ttl'[v] = Ttl[v]
    BY <1>1, <1>2, <1>3
  <2> QED
    BY <1>2, <1>3, <2>1, <2>2
<1>9. silence' = [silence EXCEPT ![w] = 0]
  BY <1>1, <1>2, <1>3
<1>10. Power'[w] \in Powers
  BY <1>3
<1> QED
  BY <1>4, <1>5, <1>7, <1>8, <1>9, <1>10 DEF Pool!UpdatePower, Pool!Refresh, Powers, Pool!Powers

\* UpdateWorkerStatus is a step of the pool of that name.
LEMMA UpdateWorkerStatusMaps ==
  ASSUME IInv, IInv', NEW w \in Workers, NEW p \in Int, NEW force \in BOOLEAN,
         UpdateWorkerStatus(w, p, force), p >= 0 \/ p = SERVICE_STOP
  PROVE  Pool!UpdateWorkerStatus(w, p, force)
<1>1. handed' = None /\ stopped' = IF p < 0 THEN stopped \cup {w}
                                   ELSE IF force THEN stopped \ {w} ELSE stopped
  BY DEF UpdateWorkerStatus
<1>2. CASE Ignored(w, p, force) /\ UNCHANGED <<id2item, WorkerQueue, obj, silence>>
  <2>1. w \in Workers \ Registered /\ (p < 0 \/ ~force)
    BY <1>2 DEF Ignored
  <2>2. CASE p < 0
    <3>1. p = SERVICE_STOP /\ p = Pool!SERVICE_STOP
      BY <2>2 DEF SERVICE_STOP, Pool!SERVICE_STOP
    <3>2. Pool!StopWorker(w)
      BY <1>1, <1>2, <2>1, <2>2, NothingToForget DEF Pool!StopWorker
    <3> QED
      BY <3>1, <3>2 DEF Pool!UpdateWorkerStatus
  <2>3. CASE p >= 0
    <3>1. Registered' = Registered /\ Queued' = Queued /\ Power' = Power /\ Ttl' = Ttl
          /\ silence' = silence
      BY <1>2 DEF Registered, Queued, Power, Ttl, Object
    <3>2. ~(p < 0) /\ ~force
      BY <2>1, <2>3
    <3>3. Pool!IgnoreUpdate(w, p, force)
      BY <1>1, <2>1, <2>3, <3>1, <3>2 DEF Pool!IgnoreUpdate
    <3> QED
      BY <3>3 DEF Pool!UpdateWorkerStatus
  <2> QED
    BY <2>2, <2>3
<1>3. CASE ~Ignored(w, p, force) /\ p < 0 /\ TakeOffline(w)
  <2>1. w \in Registered /\ p = SERVICE_STOP /\ p = Pool!SERVICE_STOP
    BY <1>3 DEF Ignored, SERVICE_STOP, Pool!SERVICE_STOP
  <2>2. Pool!StopWorker(w)
    BY <1>1, <1>3, <2>1, TakeOfflineMaps DEF Pool!StopWorker
  <2> QED
    BY <2>1, <2>2 DEF Pool!UpdateWorkerStatus
<1>4. CASE ~Ignored(w, p, force) /\ p >= 0 /\ SetPower(w, p)
  <2>1. p \in Nat /\ ~(p < 0) /\ (w \in Registered \/ force)
    BY <1>4 DEF Ignored
  <2>2. Pool!UpdatePower(w, p, force)
    BY <1>1, <1>4, <2>1, SetPowerMaps
  <2> QED
    BY <2>2 DEF Pool!UpdateWorkerStatus
<1> QED
  BY <1>2, <1>3, <1>4 DEF UpdateWorkerStatus

\* UpdateWorkerExpire is.
LEMMA ExpireMaps ==
  ASSUME IInv, IInv', NEW w \in Workers, UpdateWorkerExpire(w)
  PROVE  Pool!UpdateWorkerExpire(w)
<1> PICK h : h = Refreshed(w)
  OBVIOUS
<1>1. w \in Registered /\ Install(id2item, h, {w}) /\ handed' = None /\ stopped' = stopped
  BY DEF UpdateWorkerExpire, Refreshed
<1>2. /\ InstallHyp(id2item, h, {w})
      /\ \A r \in Refs : /\ In(h, r) <=> In(heap, r)
                         /\ h.o[r].priority = obj[r].priority
                         /\ h.o[r].ttl = IF r = id2item[w] THEN Expiry ELSE obj[r].ttl
  BY <1>1, ExpireFacts
<1>3. /\ Registered \subseteq Workers
      /\ \A v \in Registered : id2item[v] \in Refs /\ obj[id2item[v]].Identity = v
      /\ Queued = {v \in Registered : In(heap, id2item[v])}
      /\ Power = [v \in Workers |-> IF v \in Registered THEN obj[id2item[v]].priority ELSE 0]
      /\ Ttl = [v \in Workers |-> IF v \in Registered THEN obj[id2item[v]].ttl ELSE -1]
      /\ \A v \in Workers \ Registered : silence[v] = 0
      /\ silence = [v \in Workers |-> silence[v]]
  BY PoolState
<1>4. /\ Registered' = DOMAIN id2item
      /\ Queued' = {v \in DOMAIN id2item : In(h, id2item[v])}
      /\ Power' = [v \in Workers |-> IF v \in DOMAIN id2item THEN h.o[id2item[v]].priority
           ELSE 0]
      /\ Ttl' = [v \in Workers |-> IF v \in DOMAIN id2item THEN h.o[id2item[v]].ttl ELSE -1]
      /\ silence' = [v \in Workers |-> IF v \in DOMAIN id2item \ {w} THEN silence[v] ELSE 0]
  BY <1>1, <1>2, PoolInstalled
<1>5. DOMAIN id2item = Registered
  BY DEF Registered
<1>6. Registered' = Registered /\ Queued' = Queued
  BY <1>2, <1>3, <1>4, <1>5
<1>7. Power' = Power
  BY <1>2, <1>3, <1>4, <1>5
<1>8. Ttl' = [Ttl EXCEPT ![w] = Expiry]
  <2>1. \A v \in Workers : Ttl'[v] = IF v = w THEN Expiry ELSE Ttl[v]
    BY <1>1, <1>2, <1>3, <1>4, <1>5
  <2> QED
    BY <1>3, <1>4, <2>1
<1>9. silence' = [silence EXCEPT ![w] = 0]
  BY <1>3, <1>4, <1>5
<1> QED
  BY <1>1, <1>6, <1>7, <1>8, <1>9 DEF Pool!UpdateWorkerExpire, Pool!Refresh

\* The queue after the expired tops were dropped, and the pool's view of them.
LEMMA DroppedMaps ==
  ASSUME IInv, NEW g, Dropped(g, heap)
  PROVE  LET left == {w \in Registered : In(g, id2item[w])} IN
         /\ left \subseteq Queued
         /\ \A w \in Queued \ left : Ttl[w] <= 0 /\ \A v \in left : Power[w] >= Power[v]
<1>1. /\ Registered \subseteq Workers
      /\ \A w \in Registered : id2item[w] \in Refs
      /\ Queued = {w \in Registered : In(heap, id2item[w])}
      /\ \A w \in Registered : Power[w] = obj[id2item[w]].priority
           /\ Ttl[w] = obj[id2item[w]].ttl
  BY PoolState
<1>2. heap.o = obj
  BY StateFacts
<1> QED
  BY <1>1, <1>2 DEF Dropped

\* A search that found nothing, and one that found w, with the workers left over.
LEMMA SearchFails ==
  ASSUME IInv, NEW g, Dropped(g, heap), \A x \in Refs : ~In(g, x)
  PROVE  Pool!Live = {} /\ {w \in Registered : In(g, id2item[w])} = {}
<1>1. \A w \in Registered : id2item[w] \in Refs
  BY PoolState
<1>2. {w \in Registered : In(g, id2item[w])} = {}
  BY <1>1
<1>3. \A w \in Queued : Ttl[w] <= 0 /\ Ttl[w] \in Int
  <2>1. \A w \in Queued : Ttl[w] <= 0
    BY <1>2, DroppedMaps
  <2>2. \A w \in Queued : Ttl[w] \in Int
    BY PoolState, StateFacts
  <2> QED
    BY <2>1, <2>2
<1> QED
  BY <1>2, <1>3 DEF Pool!Live

\* One that found w.
LEMMA SearchFinds ==
  ASSUME IInv, NEW g, Dropped(g, heap), NEW r \in Refs, In(g, r), After(obj[r]),
         \A x \in Refs : In(g, x) => obj[r].priority >= obj[x].priority,
         NEW left, left = {v \in Registered : In(g, id2item[v])},
         NEW w, w = obj[r].Identity
  PROVE  /\ w \in Registered /\ id2item[w] = r
         /\ w \in Pool!Live /\ Pool!Best(w)
         /\ \E dropped \in SUBSET Pool!Stale : Pool!DroppedBefore(w, dropped)
              /\ left = Queued \ dropped
<1>1. w \in Registered /\ id2item[w] = r
  BY StateFacts DEF OnePerWorker, Dropped
<1>2. /\ Registered \subseteq Workers
      /\ \A v \in Registered : id2item[v] \in Refs
      /\ Queued = {v \in Registered : In(heap, id2item[v])}
      /\ \A v \in Registered : Power[v] = obj[id2item[v]].priority
           /\ Ttl[v] = obj[id2item[v]].ttl
  BY PoolState
<1>3. \A v \in Registered : Power[v] \in Int /\ Ttl[v] \in Int
  BY <1>2, StateFacts DEF Objects
<1>4. left \subseteq Queued /\ \A v \in Queued \ left : Ttl[v] <= 0
      /\ \A u \in left : Power[v] >= Power[u]
  BY DroppedMaps
<1>5. w \in left /\ Ttl[w] > 0 /\ \A v \in left : Power[w] >= Power[v]
  BY <1>1, <1>2 DEF After
<1>6. left \subseteq Registered /\ Queued \subseteq Registered
  BY <1>2
<1>7. w \in Pool!Live /\ \A v \in Pool!Live : v \in left
  BY <1>3, <1>4, <1>5, <1>6 DEF Pool!Live
<1>8. Pool!Best(w)
  BY <1>3, <1>5, <1>6, <1>7 DEF Pool!Best
<1> DEFINE dropped == Queued \ left
<1>9. dropped \subseteq Pool!Stale
  BY <1>7 DEF Pool!Stale
<1>10. dropped \subseteq {v \in Pool!Stale : Power[v] >= Power[w]}
  BY <1>4, <1>5, <1>9
<1>11. {v \in Pool!Stale : Power[v] > Power[w]} \subseteq dropped
  BY <1>3, <1>5, <1>6 DEF Pool!Stale
<1>12. Pool!DroppedBefore(w, dropped) /\ left = Queued \ dropped
  BY <1>4, <1>10, <1>11 DEF Pool!DroppedBefore
<1> QED
  BY <1>1, <1>7, <1>8, <1>9, <1>12

\* What a call that keeps the map installs, for the pool.
LEMMA SearchInstalls ==
  ASSUME IInv, IInv', NEW h, Install(id2item, h, {}), InstallHyp(id2item, h, {}),
         \A x \in Refs : h.o[x].ttl = obj[x].ttl
  PROVE  /\ Registered' = Registered /\ Ttl' = Ttl /\ silence' = silence
         /\ Queued' = {w \in Registered : In(h, id2item[w])}
         /\ Power' = [w \in Workers |-> IF w \in Registered THEN h.o[id2item[w]].priority
              ELSE 0]
         /\ \A w \in Workers : Power'[w] \in Powers
<1>1. /\ Registered' = DOMAIN id2item
      /\ Queued' = {v \in DOMAIN id2item : In(h, id2item[v])}
      /\ Power' = [v \in Workers |-> IF v \in DOMAIN id2item THEN h.o[id2item[v]].priority
           ELSE 0]
      /\ Ttl' = [v \in Workers |-> IF v \in DOMAIN id2item THEN h.o[id2item[v]].ttl ELSE -1]
      /\ silence' = [v \in Workers |-> IF v \in DOMAIN id2item \ {} THEN silence[v] ELSE 0]
      /\ \A w \in Workers : Power'[w] \in Powers
  BY PoolInstalled
<1>2. DOMAIN id2item = Registered
  BY DEF Registered
<1>3. /\ \A v \in Registered : id2item[v] \in Refs
      /\ Ttl = [v \in Workers |-> IF v \in Registered THEN obj[id2item[v]].ttl ELSE -1]
      /\ \A v \in Workers \ Registered : silence[v] = 0
      /\ silence = [v \in Workers |-> silence[v]]
  BY PoolState
<1>4. Ttl' = Ttl
  BY <1>1, <1>2, <1>3
<1>5. silence' = silence
  BY <1>1, <1>2, <1>3
<1> QED
  BY <1>1, <1>2, <1>4, <1>5

\* NextWorker is a step of the pool.
LEMMA NextWorkerMaps == ASSUME IInv, IInv', NextWorker PROVE Pool!NextWorker
<1>1. PICK g, h :
        /\ Dropped(g, heap)
        /\ Install(id2item, h, {})
        /\ InstallHyp(id2item, h, {})
        /\ \A x \in Refs : h.o[x].ttl = obj[x].ttl /\ (In(h, x) <=> In(g, x))
        /\ \/ /\ \A x \in Refs : ~In(g, x) /\ h.o[x].priority = obj[x].priority
              /\ handed' = None
           \/ \E r \in Refs :
                /\ In(g, r) /\ After(obj[r])
                /\ \A x \in Refs : In(g, x) => obj[r].priority >= obj[x].priority
                /\ \A x \in Refs : h.o[x].priority = IF x = r THEN obj[x].priority - 1
                     ELSE obj[x].priority
                /\ handed' = obj[r].Identity
  BY NextWorkerFacts
<1> PICK left : left = {w \in Registered : In(g, id2item[w])}
  OBVIOUS
<1>2. /\ Registered' = Registered /\ Ttl' = Ttl /\ silence' = silence
      /\ Queued' = {w \in Registered : In(h, id2item[w])}
      /\ Power' = [w \in Workers |-> IF w \in Registered THEN h.o[id2item[w]].priority ELSE 0]
      /\ \A w \in Workers : Power'[w] \in Powers
  BY <1>1, SearchInstalls
<1>3. /\ Registered \subseteq Workers
      /\ \A w \in Registered : id2item[w] \in Refs /\ obj[id2item[w]].Identity = w
      /\ Power = [w \in Workers |-> IF w \in Registered THEN obj[id2item[w]].priority ELSE 0]
  BY PoolState
<1>4. Queued' = left /\ stopped' = stopped
  BY <1>1, <1>2, <1>3 DEF NextWorker
<1>5. CASE (\A x \in Refs : ~In(g, x) /\ h.o[x].priority = obj[x].priority) /\ handed' = None
  <2>1. Pool!Live = {} /\ left = {}
    BY <1>1, <1>5, SearchFails
  <2>2. Power' = Power
    BY <1>2, <1>3, <1>5
  <2> QED
    BY <1>2, <1>4, <1>5, <2>1, <2>2 DEF Pool!NextWorker
<1>6. ASSUME NEW r \in Refs, In(g, r), After(obj[r]),
             \A x \in Refs : In(g, x) => obj[r].priority >= obj[x].priority,
             \A x \in Refs : h.o[x].priority = IF x = r THEN obj[x].priority - 1
               ELSE obj[x].priority,
             handed' = obj[r].Identity
      PROVE  Pool!NextWorker
  <2> PICK w : w = obj[r].Identity
    OBVIOUS
  <2>1. /\ w \in Registered /\ id2item[w] = r
        /\ w \in Pool!Live /\ Pool!Best(w)
        /\ \E dropped \in SUBSET Pool!Stale : Pool!DroppedBefore(w, dropped)
             /\ left = Queued \ dropped
    BY <1>1, <1>6, SearchFinds
  <2>2. Power' = [Power EXCEPT ![w] = @ - 1]
    <3>1. \A v \in Workers : Power'[v] = IF v = w THEN Power[v] - 1 ELSE Power[v]
      BY <1>2, <1>3, <1>6, <2>1
    <3> QED
      BY <1>2, <1>3, <3>1
  <2>3. Power'[w] \in Powers
    BY <1>2, <1>3, <2>1
  <2>4. Powers = Pool!Powers
    BY DEF Powers, Pool!Powers
  <2> QED
    BY <1>2, <1>4, <1>6, <2>1, <2>2, <2>3, <2>4 DEF Pool!NextWorker
<1> QED
  BY <1>1, <1>5, <1>6

\* HasNextWorker is.
LEMMA HasNextWorkerMaps == ASSUME IInv, IInv', HasNextWorker PROVE Pool!HasNextWorker
<1>1. PICK g :
        /\ Dropped(g, heap)
        /\ Install(id2item, g, {})
        /\ InstallHyp(id2item, g, {})
        /\ \/ \A x \in Refs : ~In(g, x)
           \/ \E r \in Refs :
                /\ In(g, r) /\ After(obj[r])
                /\ \A x \in Refs : In(g, x) => obj[r].priority >= obj[x].priority
  BY HasNextWorkerFacts
<1> PICK left : left = {w \in Registered : In(g, id2item[w])}
  OBVIOUS
<1>2. \A x \in Refs : g.o[x].ttl = obj[x].ttl /\ g.o[x].priority = obj[x].priority
  BY <1>1, StateFacts DEF Dropped, SameWorkers
<1>3. /\ Registered' = Registered /\ Ttl' = Ttl /\ silence' = silence
      /\ Queued' = left
      /\ Power' = [w \in Workers |-> IF w \in Registered THEN g.o[id2item[w]].priority ELSE 0]
  BY <1>1, <1>2, SearchInstalls
<1>4. /\ \A w \in Registered : id2item[w] \in Refs
      /\ Power = [w \in Workers |-> IF w \in Registered THEN obj[id2item[w]].priority ELSE 0]
  BY PoolState
<1>5. Power' = Power /\ handed' = None /\ stopped' = stopped
  BY <1>2, <1>3, <1>4 DEF HasNextWorker
<1>6. CASE \A x \in Refs : ~In(g, x)
  <2>1. Pool!Live = {} /\ left = {}
    BY <1>1, <1>6, SearchFails
  <2> QED
    BY <1>3, <1>5, <2>1 DEF Pool!HasNextWorker
<1>7. ASSUME NEW r \in Refs, In(g, r), After(obj[r]),
             \A x \in Refs : In(g, x) => obj[r].priority >= obj[x].priority
      PROVE  Pool!HasNextWorker
  <2> PICK w : w = obj[r].Identity
    OBVIOUS
  <2>1. /\ w \in Pool!Live /\ Pool!Best(w)
        /\ \E dropped \in SUBSET Pool!Stale : Pool!DroppedBefore(w, dropped)
             /\ left = Queued \ dropped
    BY <1>1, <1>7, SearchFinds
  <2> QED
    BY <1>3, <1>5, <2>1 DEF Pool!HasNextWorker
<1> QED
  BY <1>1, <1>6, <1>7

\* PurgeExpired is.
LEMMA PurgeMaps == ASSUME IInv, IInv', PurgeExpired PROVE Pool!PurgeExpired
<1> PICK W : W = {w \in Registered : In(heap, id2item[w]) /\ Before(obj[id2item[w]])}
  OBVIOUS
<1>1. PICK h : /\ Install(Without(id2item, W), h, {})
               /\ InstallHyp(Without(id2item, W), h, {})
               /\ SameWorkers(h, heap)
               /\ \A r \in Refs : In(h, r) <=> In(heap, r) /\ ~Before(obj[r])
  BY PurgeFacts
<1>2. /\ Registered \subseteq Workers
      /\ \A w \in Registered : id2item[w] \in Refs
      /\ Queued = {w \in Registered : In(heap, id2item[w])}
      /\ \A w \in Registered : Ttl[w] = obj[id2item[w]].ttl
  BY PoolState
<1>3. \A w \in Registered \ W : In(h, id2item[w]) <=> In(heap, id2item[w])
  BY <1>1, <1>2
<1>4. Pool!Forget(W)
  BY <1>1, <1>3, ForgetMaps
<1>5. W = {w \in Queued : Ttl[w] < 0}
  BY <1>2 DEF Before
<1>6. handed' = None /\ stopped' = stopped
  BY DEF PurgeExpired
<1> QED
  BY <1>4, <1>5, <1>6 DEF Pool!PurgeExpired

\* Tick is.
LEMMA TickMaps == ASSUME IInv, IInv', Tick PROVE Pool!Tick
<1>1. /\ id2item' = id2item
      /\ \A r \in Refs : /\ obj'[r].priority = obj[r].priority
                         /\ obj'[r].index = obj[r].index
                         /\ obj'[r].ttl = IF obj[r].ttl >= 0 THEN obj[r].ttl - 1 ELSE obj[r].ttl
  BY TickFacts
<1>2. /\ \A w \in Registered : id2item[w] \in Refs
      /\ Power = [w \in Workers |-> IF w \in Registered THEN obj[id2item[w]].priority ELSE 0]
      /\ Ttl = [w \in Workers |-> IF w \in Registered THEN obj[id2item[w]].ttl ELSE -1]
      /\ silence = [w \in Workers |-> silence[w]]
  BY PoolState
<1>3. Registered' = Registered
  BY <1>1 DEF Registered
<1>4. (/\ Power = [w \in Workers |-> IF w \in Registered THEN obj[id2item[w]].priority ELSE 0]
       /\ Ttl = [w \in Workers |-> IF w \in Registered THEN obj[id2item[w]].ttl ELSE -1])'
  BY PoolState, PTL
<1>5. Power' = Power
  BY <1>1, <1>2, <1>3, <1>4
<1>6. Queued' = Queued
  <2>1. \A w \in Registered : Object(w).index = obj[id2item[w]].index
        /\ (Object(w).index)' = obj'[id2item[w]].index
    BY <1>1, <1>3 DEF Object
  <2> QED
    BY <1>1, <1>2, <1>3, <2>1 DEF Queued
<1>7. Ttl' = [w \in Workers |-> IF Ttl[w] >= 0 THEN Ttl[w] - 1 ELSE -1]
  <2>1. \A r \in Refs : obj[r].ttl \in (-1)..Expiry
    BY StateFacts
  <2>2. \A w \in Workers : Ttl[w] \in Int /\ Ttl[w] >= -1
    BY <1>2, <2>1, QueueAssumption
  <2>3. \A w \in Workers : Ttl'[w] = IF Ttl[w] >= 0 THEN Ttl[w] - 1 ELSE -1
    BY <1>1, <1>2, <1>3, <1>4, <2>1, <2>2, QueueAssumption
  <2> QED
    BY <1>4, <2>3
<1>8. /\ silence' = [w \in Workers |-> IF w \in Registered /\ silence[w] <= Expiry
                                       THEN silence[w] + 1 ELSE silence[w]]
      /\ handed' = None /\ stopped' = stopped
  BY DEF Tick
<1> QED
  BY <1>3, <1>5, <1>6, <1>7, <1>8 DEF Pool!Tick

\* The empty queue is the empty pool.
LEMMA InitMaps == Init => Pool!Init
<1> SUFFICES ASSUME Init PROVE Pool!Init
  OBVIOUS
<1>1. Registered = {} /\ handed = None /\ silence = [w \in Workers |-> 0] /\ stopped = {}
  BY DEF Init, Registered
<1>2. Queued = {}
  BY <1>1 DEF Queued
<1>3. Power = [w \in Workers |-> 0] /\ Ttl = [w \in Workers |-> -1]
  <2>1. \A w \in Workers : Object(w).priority = 0 /\ Object(w).ttl = -1
    BY <1>1 DEF Object, Blank
  <2> QED
    BY <2>1 DEF Power, Ttl
<1> QED
  BY <1>1, <1>2, <1>3 DEF Pool!Init

\* Every step of the queue is one of the pool, or none.
LEMMA StepMaps == IInv /\ IInv' /\ [Next]_vars => [Pool!Next]_Pool!poolVars
<1> SUFFICES ASSUME IInv, IInv', [Next]_vars PROVE [Pool!Next]_Pool!poolVars
  OBVIOUS
<1>1. ASSUME NEW w \in Workers, NEW power \in 0..MaxConcurrency, NEW force \in BOOLEAN,
             UpdateWorkerStatus(w, power, force)
      PROVE  Pool!Next
  <2>1. power \in Int /\ power >= 0
    BY QueueAssumption
  <2>2. Pool!UpdateWorkerStatus(w, power, force)
    BY <1>1, <2>1, UpdateWorkerStatusMaps
  <2> QED
    BY <2>2 DEF Pool!Next
<1>2. ASSUME NEW w \in Workers, UpdateWorkerStatus(w, SERVICE_STOP, TRUE) PROVE Pool!Next
  <2>1. PICK power \in Int : power = SERVICE_STOP /\ power = Pool!SERVICE_STOP
    BY DEF SERVICE_STOP, Pool!SERVICE_STOP
  <2>2. PICK force \in BOOLEAN : force = TRUE
    OBVIOUS
  <2>3. UpdateWorkerStatus(w, power, force)
    BY <1>2, <2>1, <2>2, Zenon
  <2>4. Pool!UpdateWorkerStatus(w, power, force)
    BY <2>1, <2>3, UpdateWorkerStatusMaps
  <2>5. Pool!UpdateWorkerStatus(w, Pool!SERVICE_STOP, TRUE)
    BY <2>1, <2>2, <2>4, Zenon
  <2> QED
    BY <2>5 DEF Pool!Next
<1>3. ASSUME NEW w \in Workers, UpdateWorkerExpire(w) PROVE Pool!Next
  BY <1>3, ExpireMaps DEF Pool!Next
<1>4. CASE NextWorker
  BY <1>4, NextWorkerMaps DEF Pool!Next
<1>5. CASE HasNextWorker
  BY <1>5, HasNextWorkerMaps DEF Pool!Next
<1>6. CASE PurgeExpired
  BY <1>6, PurgeMaps DEF Pool!Next
<1>7. CASE Tick
  BY <1>7, TickMaps DEF Pool!Next
<1>8. CASE UNCHANGED vars
  BY <1>8 DEF vars, Pool!poolVars, Registered, Queued, Power, Ttl, Object
<1> QED
  BY <1>1, <1>2, <1>3, <1>4, <1>5, <1>6, <1>7, <1>8 DEF Next

(***************************************************************************)
(* The queue implements the pool, with any number of workers and objects:  *)
(* the worker NextWorker hands out is a live one of the best priority, those *)
(* dropped on the way are not live and no worse, and the three ways out of *)
(* the queue, STOP, a drop and a purge, forget what they should.           *)
(***************************************************************************)
THEOREM Refinement == Spec => ImplementsPool
<1>1. Init => Pool!Init
  BY InitMaps
<1>2. IInv /\ IInv' /\ [Next]_vars => [Pool!Next]_Pool!poolVars
  BY StepMaps
<1>3. Spec => []IInv
  BY QueueInvariant
<1> QED
  BY <1>1, <1>2, <1>3, PTL DEF Spec, ImplementsPool, Pool!Spec
=============================================================================
