----------------------------- MODULE WorkerPool -----------------------------
(***************************************************************************)
(* What the load balancer's worker queue (src/queue) promises, with no     *)
(* heap: a set of registered workers, the subset of them that is queued    *)
(* for work, and for each a power (its priority) and an expiry timer.      *)
(* PPQueue is the heap that implements it.                                 *)
(*                                                                         *)
(* Time.  The code compares Worker.Expire with time.Now() only through     *)
(* After and Before, so a worker carries its distance to Expire instead of *)
(* an absolute date: ttl > 0 is Expire.After(now), ttl < 0 is              *)
(* Expire.Before(now), and ttl = 0 is the instant at which neither holds.  *)
(* One Tick is one HEARTBEAT_INTERVAL, and timers stop at -1.              *)
(***************************************************************************)
EXTENDS Integers

CONSTANTS
  Workers,         \* the identities workers connect with
  None,            \* NextWorker's nil
  Expiry,          \* HEARTBEAT_LIVENESS, in heartbeat intervals
  MaxConcurrency,  \* bound: the largest capacity a worker reports
  PowerCap         \* bound: |priority| never exceeds it

ASSUME PoolAssumption ==
  /\ None \notin Workers
  /\ Expiry \in Nat \ {0}
  /\ MaxConcurrency \in Nat
  /\ PowerCap \in Nat

VARIABLES
  registered,  \* the keys of id2item
  queued,      \* the registered workers whose index is not INVALID_INDEX
  power,       \* Worker.priority; 0 for a worker not registered
  ttl,         \* Worker.Expire minus now; -1 for a worker not registered
  handed,      \* what the latest call returned: a worker of NextWorker's, or None
  silence,     \* history: ticks since a registered worker was last refreshed
  stopped      \* history: workers that sent STOP and no READY since

poolVars == <<registered, queued, power, ttl, handed, silence, stopped>>

SERVICE_STOP == -1

Powers == (-PowerCap) .. PowerCap

-----------------------------------------------------------------------------
\* Mutant: not expired taken for Expire.After(now).
NotExpired == {w \in queued : ttl[w] >= 0}

Live == {w \in queued : ttl[w] > 0}
Stale == queued \ Live

(***************************************************************************)
(* Looking for a live worker from the top of the queue drops the stale     *)
(* workers met on the way: all of those above the live worker found, and   *)
(* of those level with it any, since ties are ordered arbitrarily.  The    *)
(* dropped workers leave the queue and stay registered.                    *)
(***************************************************************************)
Best(w) == w \in Live /\ \A v \in Live : power[v] <= power[w]

DroppedBefore(w, dropped) ==
  /\ dropped \subseteq {v \in Stale : power[v] >= power[w]}
  /\ {v \in Stale : power[v] > power[w]} \subseteq dropped

\* How a refresh moves a worker's timers.
Refresh(w) ==
  /\ ttl' = [ttl EXCEPT ![w] = Expiry]
  /\ silence' = [silence EXCEPT ![w] = 0]

\* Mutant: out of id2item, without heap.Remove.
ForgetInMapOnly(W) ==
  /\ registered' = registered \ W
  /\ UNCHANGED <<queued, power, ttl, silence>>

\* The state a set of workers is left in by delete(id2item, ...).
Forget(W) ==
  /\ registered' = registered \ W
  /\ queued' = queued \ W
  /\ power' = [w \in Workers |-> IF w \in W THEN 0 ELSE power[w]]
  /\ ttl' = [w \in Workers |-> IF w \in W THEN -1 ELSE ttl[w]]
  /\ silence' = [w \in Workers |-> IF w \in W THEN 0 ELSE silence[w]]

-----------------------------------------------------------------------------
Init ==
  /\ registered = {}
  /\ queued = {}
  /\ power = [w \in Workers |-> 0]
  /\ ttl = [w \in Workers |-> -1]
  /\ handed = None
  /\ silence = [w \in Workers |-> 0]
  /\ stopped = {}

\* Mutant: every update lets its worker in.
UpdatePowerOfAny(w, p, force) ==
  /\ p >= 0
  /\ power' = [power EXCEPT ![w] = IF p = 0 THEN @ + 1 ELSE p]
  /\ power'[w] \in Powers
  /\ registered' = registered \cup {w}
  /\ queued' = queued \cup {w}
  /\ Refresh(w)
  /\ handed' = None
  /\ stopped' = IF force THEN stopped \ {w} ELSE stopped

\* READY, heartbeat and reply: a worker not registered is let in by force only.
UpdatePower(w, p, force) ==
  /\ p >= 0
  /\ w \in registered \/ force
  /\ power' = [power EXCEPT ![w] = IF p = 0 THEN @ + 1 ELSE p]
  /\ power'[w] \in Powers
  /\ registered' = registered \cup {w}
  /\ queued' = queued \cup {w}
  /\ Refresh(w)
  /\ handed' = None
  /\ stopped' = IF force THEN stopped \ {w} ELSE stopped

\* A heartbeat or a reply of a worker not registered is dropped.
IgnoreUpdate(w, p, force) ==
  /\ p >= 0
  /\ w \notin registered /\ ~force
  /\ handed' = None
  /\ UNCHANGED <<registered, queued, power, ttl, silence, stopped>>

\* STOP, whether or not the worker is registered.
StopWorker(w) ==
  /\ Forget({w})
  /\ stopped' = stopped \cup {w}
  /\ handed' = None

UpdateWorkerStatus(w, p, force) ==
  \/ UpdatePower(w, p, force)
  \/ IgnoreUpdate(w, p, force)
  \/ p = SERVICE_STOP /\ StopWorker(w)

UpdateWorkerExpire(w) ==
  /\ w \in registered
  /\ Refresh(w)
  /\ handed' = None
  /\ UNCHANGED <<registered, queued, power, stopped>>

\* The best live worker gives up one unit of power and stays queued.
NextWorker ==
  /\ \/ /\ Live = {}
        /\ queued' = {}
        /\ handed' = None
        /\ UNCHANGED power
     \/ \E w \in Live : \E dropped \in SUBSET Stale :
          /\ Best(w)
          /\ DroppedBefore(w, dropped)
          /\ queued' = queued \ dropped
          /\ power' = [power EXCEPT ![w] = @ - 1]
          /\ power'[w] \in Powers
          /\ handed' = w
  /\ UNCHANGED <<registered, ttl, silence, stopped>>

\* The same search with nothing handed out.
HasNextWorker ==
  /\ \/ Live = {} /\ queued' = {}
     \/ \E w \in Live : \E dropped \in SUBSET Stale :
          /\ Best(w)
          /\ DroppedBefore(w, dropped)
          /\ queued' = queued \ dropped
  /\ handed' = None
  /\ UNCHANGED <<registered, power, ttl, silence, stopped>>

\* Mutant: After for Before.
PurgeLive ==
  /\ Forget({w \in queued : ttl[w] > 0})
  /\ handed' = None
  /\ UNCHANGED stopped

\* Purging looks at queued workers only, and forgets the expired ones.
PurgeExpired ==
  /\ Forget({w \in queued : ttl[w] < 0})
  /\ handed' = None
  /\ UNCHANGED stopped

Tick ==
  /\ ttl' = [w \in Workers |-> IF ttl[w] >= 0 THEN ttl[w] - 1 ELSE -1]
  /\ silence' = [w \in Workers |->
                   IF w \in registered /\ silence[w] <= Expiry
                   THEN silence[w] + 1 ELSE silence[w]]
  /\ handed' = None
  /\ UNCHANGED <<registered, queued, power, stopped>>

Next ==
  \/ \E w \in Workers, p \in 0..MaxConcurrency, force \in BOOLEAN :
       UpdateWorkerStatus(w, p, force)
  \/ \E w \in Workers : UpdateWorkerStatus(w, SERVICE_STOP, TRUE)
  \/ \E w \in Workers : UpdateWorkerExpire(w)
  \/ NextWorker
  \/ HasNextWorker
  \/ PurgeExpired
  \/ Tick

Spec == Init /\ [][Next]_poolVars

(***************************************************************************)
(* The balancer's loop polls with a timeout of one heartbeat interval and  *)
(* reads the heartbeat ticker after every poll, so time passes and purges  *)
(* keep happening.                                                         *)
(***************************************************************************)
FairSpec == Spec /\ WF_poolVars(Tick) /\ WF_poolVars(PurgeExpired)

-----------------------------------------------------------------------------
(***************************************************************************)
(* Types of the pool: queued workers are registered, and a worker outside  *)
(* id2item has blank fields.                                               *)
(***************************************************************************)
TypeOK ==
  /\ registered \subseteq Workers
  /\ queued \subseteq registered
  /\ power \in [Workers -> Powers]
  /\ ttl \in [Workers -> (-1)..Expiry]
  /\ handed \in Workers \cup {None}
  /\ silence \in [Workers -> 0..(Expiry + 1)]
  /\ stopped \subseteq Workers
  /\ \A w \in Workers \ registered : power[w] = 0 /\ ttl[w] = -1 /\ silence[w] = 0

(***************************************************************************)
(* A worker that announced STOP is out of the pool until its next READY: a *)
(* heartbeat or a reply of it that is still in flight when STOP is handled *)
(* does not bring it back (the force argument of UpdateWorkerStatus).      *)
(***************************************************************************)
StoppedStaysOut == stopped \cap registered = {}

(***************************************************************************)
(* The expiry timer of every worker in id2item counts the time since it    *)
(* was last heard from, whichever calls came between: only a message of    *)
(* the worker itself moves Worker.Expire.                                  *)
(***************************************************************************)
TimersCountSilence == \A w \in registered : ttl[w] = Expiry - silence[w]

(***************************************************************************)
(* Work is handed only to a worker the balancer heard from within the last *)
(* Expiry ticks, that is still queued and has not announced STOP.          *)
(***************************************************************************)
HandedIsLive ==
  handed # None => /\ handed \in queued
                   /\ silence[handed] < Expiry
                   /\ handed \notin stopped

\* The inductive invariant of WorkerPoolProofs.
IInv == TypeOK /\ StoppedStaysOut /\ TimersCountSilence /\ HandedIsLive

(***************************************************************************)
(* No step takes out of the queue a worker heard from within the last      *)
(* Expiry ticks, unless the worker announces STOP in that step: neither    *)
(* the lazy drops of NextWorker nor PurgeExpired evict a live worker.      *)
(***************************************************************************)
OnlySilentLeave ==
  [][\A w \in queued : w \notin queued' =>
        \/ silence[w] >= Expiry
        \/ w \in stopped']_poolVars

(***************************************************************************)
(* A queued worker that falls silent is evicted: it is heard from again or *)
(* it leaves the queue, by PurgeExpired if nobody asks for a worker.       *)
(***************************************************************************)
SilentAreEvicted ==
  \A w \in Workers :
    (w \in queued /\ silence[w] > 0) ~> (w \notin queued \/ silence[w] = 0)
=============================================================================
