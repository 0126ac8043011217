------------------------------- MODULE PPQueue -------------------------------
(***************************************************************************)
(* queue/ppqueue.go and queue/priority_queue.go: the load balancer's       *)
(* paranoid-pirate queue of workers.  id2item finds a Worker by identity;  *)
(* WorkerQueue orders the Workers that may be given a task.  A Worker is   *)
(* an object in memory: nothing but the code keeps one object per          *)
(* identity, the two structures in step, and the index fields right.       *)
(*                                                                         *)
(* Expire is kept as ttl, its distance to now: see WorkerPool, the         *)
(* specification this module implements.                                   *)
(***************************************************************************)
EXTENDS PriorityQueue, Functions, SequencesExt

CONSTANTS
  Workers, None, Expiry, MaxConcurrency, PowerCap,  \* as in WorkerPool
  Refs                                              \* bound: objects alive at once

ASSUME QueueAssumption ==
  /\ None \notin Workers
  /\ Expiry \in Nat \ {0} /\ MaxConcurrency \in Nat /\ PowerCap \in Nat

VARIABLES
  id2item,           \* a function from some of Workers to Refs
  WorkerQueue,       \* the slice: a sequence of Refs
  obj,               \* the memory: Refs to Workers, unused objects Blank
  handed,            \* the worker the latest call returned, or None
  silence, stopped   \* history variables, as in WorkerPool

vars == <<id2item, WorkerQueue, obj, handed, silence, stopped>>

SERVICE_STOP == -1

Powers == (-PowerCap) .. PowerCap

Blank == [Identity |-> None, priority |-> 0, index |-> INVALID_INDEX, ttl |-> -1]

NewWorker(w) == [Blank EXCEPT !.Identity = w, !.ttl = Expiry]

heap == [q |-> WorkerQueue, o |-> obj]

Registered == DOMAIN id2item

Without(items, W) == Restrict(items, DOMAIN items \ W)

\* Expire.After(now) and Expire.Before(now)
After(worker) == worker.ttl > 0

Before(worker) == worker.ttl < 0

(***************************************************************************)
(* Every call ends by installing the map and the heap it computed, having  *)
(* refreshed the workers in heard.  Objects that neither reaches are       *)
(* garbage, and blanked.                                                   *)
(***************************************************************************)
Install(items, h, heard) ==
  LET reachable == ToSet(h.q) \cup Range(items)
  IN /\ \A r \in reachable : h.o[r].priority \in Powers
     /\ id2item' = items
     /\ WorkerQueue' = h.q
     /\ obj' = [r \in Refs |-> IF r \in reachable THEN h.o[r] ELSE Blank]
     /\ silence' = [w \in Workers |->
                      IF w \in DOMAIN items \ heard THEN silence[w] ELSE 0]

-----------------------------------------------------------------------------
Init ==
  /\ id2item = <<>>
  /\ WorkerQueue = <<>>
  /\ obj = [r \in Refs |-> Blank]
  /\ handed = None
  /\ silence = [w \in Workers |-> 0]
  /\ stopped = {}

\* Mutant: force is not looked at.
IgnoredStopOnly(w, power, force) == w \notin Registered /\ power < 0

\* UpdateWorkerStatus, !ok: leave, or make a Worker to go on with.
Ignored(w, power, force) == w \notin Registered /\ (power < 0 \/ ~force)

Free == {r \in Refs : obj[r] = Blank}

Item(w) == IF w \in Registered THEN id2item[w] ELSE CHOOSE r \in Free : TRUE

\* The item with its Expire pushed back and its priority set.
Charged(w, power) ==
  LET item == IF w \in Registered THEN [obj[id2item[w]] EXCEPT !.ttl = Expiry]
                                  ELSE NewWorker(w)
  IN [item EXCEPT !.priority = IF power = 0 THEN @ + 1 ELSE power]

\* Mutant: no heap.Fix after the priority changed.
RequeuedInPlace(h, r) ==
  IF h.o[r].index = INVALID_INDEX THEN HeapPush(h, r) ELSE h

Requeued(h, r) ==
  IF h.o[r].index = INVALID_INDEX THEN HeapPush(h, r) ELSE HeapFix(h, h.o[r].index)

SetPower(w, power) ==
  LET r == Item(w)
      charged == [heap EXCEPT !.o[r] = Charged(w, power)]
  IN /\ w \notin Registered => Free # {}
     /\ Install([v \in Registered \cup {w} |-> IF v = w THEN r ELSE id2item[v]],
                Requeued(charged, r), {w})

\* Mutant: delete(id2item, ...) without heap.Remove.
TakeOfflineInMap(w) == Install(Without(id2item, {w}), heap, {})

TakeOffline(w) ==
  LET index == obj[id2item[w]].index
  IN Install(Without(id2item, {w}),
             IF index = INVALID_INDEX THEN heap ELSE HeapRemove(heap, index), {})

UpdateWorkerStatus(w, power, force) ==
  /\ \/ Ignored(w, power, force) /\ UNCHANGED <<id2item, WorkerQueue, obj, silence>>
     \/ ~Ignored(w, power, force) /\ power < 0 /\ TakeOffline(w)
     \/ ~Ignored(w, power, force) /\ power >= 0 /\ SetPower(w, power)
  /\ handed' = None
  /\ stopped' = IF power < 0 THEN stopped \cup {w}
                ELSE IF force THEN stopped \ {w} ELSE stopped

UpdateWorkerExpire(w) ==
  /\ w \in Registered
  /\ Install(id2item, [heap EXCEPT !.o[id2item[w]].ttl = Expiry], {w})
  /\ handed' = None
  /\ UNCHANGED stopped

\* The loop of NextWorker and of HasNextWorker: remove the top until it is live.
DropTurn(h) ==
  LET top == h.o[At(h, 0)]
  IN IF Len0(h) = 0 \/ (top.index # INVALID_INDEX /\ After(top))
     THEN h ELSE HeapRemove(h, top.index)

DropExpiredTop(h) ==
  LET turn[k \in 0..Len0(h)] == IF k = 0 THEN h ELSE DropTurn(turn[k - 1])
  IN turn[Len0(h)]

NextWorker ==
  LET h == DropExpiredTop(heap)
      top == At(h, 0)
  IN /\ \/ Len0(h) = 0 /\ Install(id2item, h, {}) /\ handed' = None
        \/ /\ Len0(h) > 0
           /\ Install(id2item, HeapFix([h EXCEPT !.o[top].priority = @ - 1], h.o[top].index), {})
           /\ handed' = obj[top].Identity
     /\ UNCHANGED stopped

HasNextWorker ==
  /\ Install(id2item, DropExpiredTop(heap), {})
  /\ handed' = None
  /\ UNCHANGED stopped

\* First the scan of the slice, then one removal per expired worker found.
PurgeTurn(h, r) == IF Before(obj[r]) THEN HeapRemove(h, h.o[r].index) ELSE h

RemoveExpired ==
  LET turn[k \in 0..Len(WorkerQueue)] ==
        IF k = 0 THEN heap ELSE PurgeTurn(turn[k - 1], WorkerQueue[k])
  IN turn[Len(WorkerQueue)]

PurgeExpired ==
  /\ LET expired == {r \in ToSet(WorkerQueue) : Before(obj[r])}
     IN Install(Without(id2item, {obj[r].Identity : r \in expired}), RemoveExpired, {})
  /\ handed' = None
  /\ UNCHANGED stopped

Tick ==
  /\ obj' = [r \in Refs |-> IF obj[r].ttl >= 0 THEN [obj[r] EXCEPT !.ttl = @ - 1] ELSE obj[r]]
  /\ silence' = [w \in Workers |->
                   IF w \in Registered /\ silence[w] <= Expiry
                   THEN silence[w] + 1 ELSE silence[w]]
  /\ handed' = None
  /\ UNCHANGED <<id2item, WorkerQueue, stopped>>

Next ==
  \/ \E w \in Workers, power \in 0..MaxConcurrency, force \in BOOLEAN :
       UpdateWorkerStatus(w, power, force)
  \/ \E w \in Workers : UpdateWorkerStatus(w, SERVICE_STOP, TRUE)
  \/ \E w \in Workers : UpdateWorkerExpire(w)
  \/ NextWorker
  \/ HasNextWorker
  \/ PurgeExpired
  \/ Tick

Spec == Init /\ [][Next]_vars

-----------------------------------------------------------------------------
(***************************************************************************)
(* Types of the queue's state, and of the objects in it.                   *)
(***************************************************************************)
TypeOK ==
  /\ Registered \subseteq Workers
  /\ Range(id2item) \subseteq Refs
  /\ WorkerQueue \in Seq(Refs)
  /\ obj \in [Refs -> [Identity : Workers \cup {None}, priority : Powers,
                       index : (-1)..Len(WorkerQueue), ttl : (-1)..Expiry]]
  /\ handed \in Workers \cup {None}
  /\ silence \in [Workers -> 0..(Expiry + 1)]
  /\ stopped \subseteq Workers

(***************************************************************************)
(* Every Worker knows its own position, as heap.Fix and heap.Remove assume *)
(* when they are given item.index: the Worker at position i has index i,   *)
(* and INVALID_INDEX marks exactly the Workers out of the slice.           *)
(***************************************************************************)
IndexTracksPosition ==
  \A r \in Refs :
    IF r \in ToSet(WorkerQueue)
    THEN obj[r].index + 1 \in DOMAIN WorkerQueue /\ WorkerQueue[obj[r].index + 1] = r
    ELSE obj[r].index = INVALID_INDEX

(***************************************************************************)
(* The map and the slice are in step: a Worker in the slice is the one     *)
(* id2item gives for its identity, so no worker is queued twice and none   *)
(* is out of reach of UpdateWorkerStatus.                                  *)
(***************************************************************************)
OneObjectPerWorker ==
  /\ \A w \in Registered : obj[id2item[w]].Identity = w
  /\ \A r \in ToSet(WorkerQueue) :
       obj[r].Identity \in Registered /\ id2item[obj[r].Identity] = r

\* No Worker has a smaller priority than one of its children in the heap.
HeapOrdered ==
  \A i \in 1..(Len(WorkerQueue) - 1) : ~Less(heap, i, (i - 1) \div 2)

(***************************************************************************)
(* The queue implements the pool: which worker a call hands out, who is    *)
(* evicted and who may come back are as WorkerPool says.                   *)
(***************************************************************************)
Object(w) == IF w \in Registered THEN obj[id2item[w]] ELSE Blank

Queued == {w \in Registered : Object(w).index # INVALID_INDEX}

Power == [w \in Workers |-> Object(w).priority]

Ttl == [w \in Workers |-> Object(w).ttl]

Pool == INSTANCE WorkerPool WITH
          registered <- Registered, queued <- Queued, power <- Power, ttl <- Ttl

ImplementsPool == Pool!Spec
=============================================================================
