---------------------------- MODULE PriorityQueue ----------------------------
(***************************************************************************)
(* queue/priority_queue.go: a slice of pointers to Workers kept as a       *)
(* binary max-heap by Go's container/heap, each Worker recording its own   *)
(* position.  A heap is a record:                                          *)
(*                                                                         *)
(*   q  the slice, a sequence of references (pointers);                    *)
(*   o  the memory, a function from references to Workers.                 *)
(*                                                                         *)
(* Positions are Go's, from 0: position i holds h.q[i + 1].                *)
(***************************************************************************)
EXTENDS Integers, Sequences

INVALID_INDEX == -1

Len0(h) == Len(h.q)
At(h, i) == h.q[i + 1]

Less(h, i, j) == h.o[At(h, i)].priority > h.o[At(h, j)].priority

\* Mutant: one of the two index fields is left behind.
SwapOneIndex(h, i, j) ==
  [q |-> [h.q EXCEPT ![i + 1] = At(h, j), ![j + 1] = At(h, i)],
   o |-> [h.o EXCEPT ![At(h, j)].index = i]]

\* Both Workers learn their new position.
Swap(h, i, j) ==
  [q |-> [h.q EXCEPT ![i + 1] = At(h, j), ![j + 1] = At(h, i)],
   o |-> [h.o EXCEPT ![At(h, j)].index = i, ![At(h, i)].index = j]]

PushLast(h, r) ==
  [q |-> Append(h.q, r), o |-> [h.o EXCEPT ![r].index = Len0(h)]]

PopLast(h) ==
  LET n == Len0(h)
  IN [q |-> SubSeq(h.q, 1, n - 1),
      o |-> [h.o EXCEPT ![At(h, n - 1)].index = INVALID_INDEX]]

-----------------------------------------------------------------------------
(***************************************************************************)
(* container/heap, written against Len, Less, Swap, Push and Pop.  A loop  *)
(* is a recursive function of the number of turns made: Turn takes the     *)
(* heap and the position the loop is at to the next, and leaves them alone *)
(* once the loop is over, which it is within the turns given to it.        *)
(***************************************************************************)
UpTurn(x) ==
  LET parent == (x.at - 1) \div 2
  IN IF x.at > 0 /\ Less(x.h, x.at, parent)
     THEN [h |-> Swap(x.h, parent, x.at), at |-> parent] ELSE x

Up(h, j) ==
  LET turn[k \in 0..j] == IF k = 0 THEN [h |-> h, at |-> j] ELSE UpTurn(turn[k - 1])
  IN turn[j].h

DownTurn(x, n) ==
  LET left == 2 * x.at + 1
      child == IF left + 1 < n /\ ~Less(x.h, left, left + 1) THEN left + 1 ELSE left
  IN IF left < n /\ Less(x.h, child, x.at)
     THEN [h |-> Swap(x.h, x.at, child), at |-> child] ELSE x

Down(h, i, n) ==
  LET turn[k \in 0..n] == IF k = 0 THEN [h |-> h, at |-> i] ELSE DownTurn(turn[k - 1], n)
  IN turn[n].h

HeapFix(h, i) == Up(Down(h, i, Len0(h)), i)

HeapPush(h, r) == Up(PushLast(h, r), Len0(h))

HeapRemove(h, i) ==
  LET n == Len0(h) - 1
  IN PopLast(IF i = n THEN h ELSE Up(Down(Swap(h, i, n), i, n), i))
=============================================================================
