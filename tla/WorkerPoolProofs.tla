-------------------------- MODULE WorkerPoolProofs --------------------------
(***************************************************************************)
(* Theorems about WorkerPool, for any workers, liveness and bounds.  The   *)
(* safety properties follow from one inductive invariant, IInv:            *)
(* HandedIsLive and OnlySilentLeave speak of silence while the pool        *)
(* decides by ttl, and TimersCountSilence is what relates the two.         *)
(***************************************************************************)
EXTENDS WorkerPool, TLAPS

LEMMA InitIInv == Init => IInv
  BY PoolAssumption
     DEF Init, IInv, TypeOK, StoppedStaysOut, TimersCountSilence, HandedIsLive, Powers

\* Forgetting any set of workers keeps the pool well-formed.
LEMMA ForgetIInv ==
  ASSUME IInv, NEW W \in SUBSET Workers, Forget(W), handed' = None,
         stopped' \subseteq Workers, stopped' \subseteq stopped \cup W
  PROVE  IInv'
<1> USE PoolAssumption DEF Forget
<1>1. TypeOK'
  BY DEF IInv, TypeOK, Powers
<1>2. StoppedStaysOut'
  BY DEF IInv, StoppedStaysOut
<1>3. TimersCountSilence'
  BY DEF IInv, TypeOK, TimersCountSilence
<1>4. HandedIsLive'
  BY DEF HandedIsLive
<1> QED
  BY <1>1, <1>2, <1>3, <1>4 DEF IInv

LEMMA UpdatePowerIInv ==
  ASSUME IInv, NEW w \in Workers, NEW p \in 0..MaxConcurrency, NEW force \in BOOLEAN,
         UpdatePower(w, p, force)
  PROVE  IInv'
<1> USE PoolAssumption DEF UpdatePower, Refresh
<1>1. TypeOK'
  <2>1. power' \in [Workers -> Powers]
    BY DEF IInv, TypeOK
  <2> QED
    BY <2>1 DEF IInv, TypeOK
<1>2. StoppedStaysOut'
  BY DEF IInv, StoppedStaysOut
<1>3. TimersCountSilence'
  BY DEF IInv, TypeOK, TimersCountSilence
<1>4. HandedIsLive'
  BY DEF HandedIsLive
<1> QED
  BY <1>1, <1>2, <1>3, <1>4 DEF IInv

\* Live workers are those the balancer heard from within Expiry ticks.
LEMMA LiveIsRecent ==
  ASSUME IInv, NEW w \in queued
  PROVE  w \in Live <=> silence[w] < Expiry
  BY PoolAssumption DEF IInv, TypeOK, TimersCountSilence, Live

LEMMA NextWorkerIInv == IInv /\ NextWorker => IInv'
<1> SUFFICES ASSUME IInv, NextWorker PROVE IInv'
  OBVIOUS
<1> USE PoolAssumption
<1>1. CASE Live = {} /\ queued' = {} /\ handed' = None /\ UNCHANGED power
  BY <1>1 DEF NextWorker, IInv, TypeOK, StoppedStaysOut, TimersCountSilence, HandedIsLive
<1>2. ASSUME NEW w \in Live, NEW dropped \in SUBSET Stale,
             queued' = queued \ dropped,
             power' = [power EXCEPT ![w] = @ - 1],
             power'[w] \in Powers,
             handed' = w
      PROVE  IInv'
  <2>1. w \in queued /\ w \in registered /\ w \in Workers /\ w \notin dropped
    BY DEF IInv, TypeOK, Live, Stale
  <2>2. UNCHANGED <<registered, ttl, silence, stopped>>
    BY DEF NextWorker
  <2>3. TypeOK'
    BY <1>2, <2>1, <2>2 DEF IInv, TypeOK
  <2>4. StoppedStaysOut' /\ TimersCountSilence'
    BY <2>2 DEF IInv, StoppedStaysOut, TimersCountSilence
  <2>5. HandedIsLive'
    BY <1>2, <2>1, <2>2, LiveIsRecent DEF IInv, StoppedStaysOut, HandedIsLive
  <2> QED
    BY <2>3, <2>4, <2>5 DEF IInv
<1> QED
  BY <1>1, <1>2 DEF NextWorker

LEMMA TickIInv == IInv /\ Tick => IInv'
<1> SUFFICES ASSUME IInv, Tick PROVE IInv'
  OBVIOUS
<1> USE PoolAssumption DEF Tick
<1>1. TypeOK'
  BY DEF IInv, TypeOK
<1>2. TimersCountSilence'
  BY DEF IInv, TypeOK, TimersCountSilence
<1>3. StoppedStaysOut' /\ HandedIsLive'
  BY DEF IInv, StoppedStaysOut, HandedIsLive
<1> QED
  BY <1>1, <1>2, <1>3 DEF IInv

LEMMA StepIInv == IInv /\ [Next]_poolVars => IInv'
<1> SUFFICES ASSUME IInv, [Next]_poolVars PROVE IInv'
  OBVIOUS
<1> USE PoolAssumption
<1>1. ASSUME NEW w \in Workers, NEW p \in 0..MaxConcurrency, NEW force \in BOOLEAN,
             IgnoreUpdate(w, p, force)
      PROVE  IInv'
  BY <1>1 DEF IgnoreUpdate, IInv, TypeOK, StoppedStaysOut, TimersCountSilence, HandedIsLive
<1>2. ASSUME NEW w \in Workers, StopWorker(w) PROVE IInv'
  BY <1>2, ForgetIInv DEF StopWorker, IInv, TypeOK
<1>3. ASSUME NEW w \in Workers, UpdateWorkerExpire(w) PROVE IInv'
  BY <1>3 DEF UpdateWorkerExpire, Refresh, IInv, TypeOK, StoppedStaysOut,
              TimersCountSilence, HandedIsLive
<1>4. CASE HasNextWorker
  BY <1>4 DEF HasNextWorker, IInv, TypeOK, StoppedStaysOut, TimersCountSilence, HandedIsLive
<1>5. CASE PurgeExpired
  <2>1. {w \in queued : ttl[w] < 0} \in SUBSET Workers
    BY DEF IInv, TypeOK
  <2> QED
    BY <1>5, <2>1, ForgetIInv DEF PurgeExpired, IInv, TypeOK
<1>6. CASE UNCHANGED poolVars
  BY <1>6 DEF poolVars, IInv, TypeOK, StoppedStaysOut, TimersCountSilence, HandedIsLive
<1>7. ASSUME NEW w \in Workers, NEW p \in 0..MaxConcurrency, NEW force \in BOOLEAN,
             UpdateWorkerStatus(w, p, force)
      PROVE  IInv'
  BY <1>1, <1>2, <1>7, UpdatePowerIInv DEF UpdateWorkerStatus
<1>8. ASSUME NEW w \in Workers, UpdateWorkerStatus(w, SERVICE_STOP, TRUE) PROVE IInv'
  BY <1>2, <1>8 DEF UpdateWorkerStatus, UpdatePower, IgnoreUpdate, SERVICE_STOP
<1> QED
  BY <1>3, <1>4, <1>5, <1>6, <1>7, <1>8, NextWorkerIInv, TickIInv DEF Next

(***************************************************************************)
(* The inductive invariant, from which the three theorems below follow.    *)
(***************************************************************************)
THEOREM PoolInvariant == Spec => []IInv
  BY InitIInv, StepIInv, PTL DEF Spec

(***************************************************************************)
(* The state of the pool keeps its types: in particular every queued       *)
(* worker is registered, and a forgotten worker leaves nothing behind.     *)
(***************************************************************************)
THEOREM TypeCorrect == Spec => []TypeOK
<1>1. IInv => TypeOK
  BY DEF IInv
<1> QED
  BY <1>1, PoolInvariant, PTL

(***************************************************************************)
(* A worker that sent STOP stays out of the pool until its next READY.     *)
(***************************************************************************)
THEOREM StoppedWorkersStayOut == Spec => []StoppedStaysOut
<1>1. IInv => StoppedStaysOut
  BY DEF IInv
<1> QED
  BY <1>1, PoolInvariant, PTL

(***************************************************************************)
(* NextWorker (queue/ppqueue.go:48) returns only workers heard from within *)
(* the last Expiry ticks, still queued and not stopped.                    *)
(***************************************************************************)
THEOREM HandedWorkersAreLive == Spec => []HandedIsLive
<1>1. IInv => HandedIsLive
  BY DEF IInv
<1> QED
  BY <1>1, PoolInvariant, PTL

\* Where a step takes a worker out of the queue, and why it may.
LEMMA LeaveStep ==
  ASSUME IInv, Next, NEW w \in queued, w \notin queued'
  PROVE  silence[w] >= Expiry \/ w \in stopped'
<1> USE PoolAssumption
<1>1. w \in Workers /\ w \in registered /\ ttl[w] \in Int /\ silence[w] \in Int
  BY DEF IInv, TypeOK
<1>2. w \in Stale => silence[w] >= Expiry
  BY <1>1, LiveIsRecent DEF Stale
<1>3. ASSUME NEW v \in Workers, StopWorker(v) PROVE w \in stopped'
  BY <1>3 DEF StopWorker, Forget
<1>4. CASE PurgeExpired
  <2>1. ttl[w] < 0
    BY <1>4 DEF PurgeExpired, Forget
  <2> QED
    BY <1>1, <1>2, <2>1 DEF Stale, Live
<1>5. CASE NextWorker
  <2>1. w \in Stale
    BY <1>5 DEF NextWorker, Stale, Live
  <2> QED
    BY <1>2, <2>1
<1>6. CASE HasNextWorker
  <2>1. w \in Stale
    BY <1>6 DEF HasNextWorker, Stale, Live
  <2> QED
    BY <1>2, <2>1
<1>7. ASSUME NEW v \in Workers, NEW p, NEW force,
             UpdateWorkerStatus(v, p, force), ~StopWorker(v)
      PROVE  FALSE
  BY <1>7 DEF UpdateWorkerStatus, UpdatePower, IgnoreUpdate
<1>8. ~Tick /\ \A v \in Workers : ~UpdateWorkerExpire(v)
  BY DEF Tick, UpdateWorkerExpire
<1> QED
  BY <1>3, <1>4, <1>5, <1>6, <1>7, <1>8 DEF Next

(***************************************************************************)
(* Neither the lazy drops of NextWorker nor PurgeExpired take a worker out *)
(* of the queue before Expiry ticks of silence; STOP does at once.         *)
(***************************************************************************)
THEOREM LiveWorkersAreKept == Spec => OnlySilentLeave
<1>1. IInv /\ [Next]_poolVars =>
        [\A w \in queued : w \notin queued' =>
            \/ silence[w] >= Expiry
            \/ w \in stopped']_poolVars
  BY LeaveStep
<1> QED
  BY <1>1, PoolInvariant, PTL DEF Spec, OnlySilentLeave
=============================================================================
