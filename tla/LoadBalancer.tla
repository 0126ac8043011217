---------------------------- MODULE LoadBalancer ----------------------------
(***************************************************************************)
(* demo/rpc_lb.go, mainBody: the loop of the load balancer, between the    *)
(* proxies that connect to its frontend and the workers that connect to    *)
(* its backend.  The loop owns the PPQueue, used here through WorkerPool,  *)
(* the specification PPQueue implements.                                   *)
(*                                                                         *)
(* One turn of the loop is Poll, at most one message of the backend, at    *)
(* most one of the frontend, the test whether to exit, and one of the      *)
(* heartbeat, the signal or neither: an action each, since messages arrive *)
(* and time passes between them.                                           *)
(*                                                                         *)
(* Proxies and workers are not part of the repository's loop; they are     *)
(* here as far as it relies on them.  A Tick is one HEARTBEAT_INTERVAL.    *)
(***************************************************************************)
EXTENDS Integers, Sequences, FiniteSets

CONSTANTS
  Workers, None, Expiry, MaxConcurrency, PowerCap,  \* of WorkerPool
  Requests,     \* bound: the requests there are, each sent once
  Grace,        \* suideTime is this many ticks after the last message: 3
  ServiceTime,  \* a worker that stays up answers within this many ticks
  Notice,       \* proxies hear from zookeeper within this many ticks
  QueueCap      \* bound: messages of one worker waiting at the backend

ASSUME LoadBalancerAssumption ==
  /\ None \notin Workers
  /\ Expiry \in Nat \ {0} /\ MaxConcurrency \in Nat \ {0} /\ PowerCap \in Nat
  /\ Grace \in Nat /\ ServiceTime \in Nat /\ Notice \in Nat /\ QueueCap \in Nat

VARIABLES
  registered, queued, power, ttl, handed, silence, stopped,  \* workersQueue
  pc,        \* where the loop is: "poll", "recv", "select", "exited"
  ready,     \* what Poll returned and is not handled yet
  valid,     \* hasValidMsg
  isAlive,
  grace,     \* suideTime minus now, as a ttl
  heartbeat, \* a value waits in heartbeat_at
  signal,    \* a SIGTERM or SIGINT waits in ch
  delisted,  \* ticks since the endpoint left zookeeper; -1 while it is there
  front,     \* requests waiting at the frontend
  back,      \* messages of each worker waiting at the backend
  process,   \* each worker's process: "off", "up" or "stopping"
  beats,     \* workers that have yet to send this tick's heartbeat
  inHand,    \* for each worker the requests sent to it and not answered
  age,       \* ticks since a request in hand was sent to its worker
  sent, answered, refused,  \* requests of proxies, and replies to them
  lost,      \* requests sent to a worker that was gone, or crashed
  late       \* history: the loop fell a tick behind its sockets while stopping

poolVars == <<registered, queued, power, ttl, handed, silence, stopped>>
loopVars == <<pc, ready, valid>>
exitVars == <<isAlive, grace, signal, delisted>>
workerVars == <<process, beats, inHand, age>>
proxyVars == <<sent, answered, refused, lost>>

vars == <<poolVars, loopVars, exitVars, heartbeat, front, back, workerVars, proxyVars, late>>

Pool == INSTANCE WorkerPool

Control(kind, c) == [kind |-> kind, arg |-> c]
Reply(r) == [kind |-> "reply", arg |-> r]

Waiting == {w \in Workers : back[w] # <<>>}

Init ==
  /\ Pool!Init
  /\ pc = "poll" /\ ready = {} /\ valid = FALSE
  /\ isAlive = TRUE /\ grace = -1 /\ signal = FALSE /\ delisted = -1
  /\ heartbeat = FALSE
  /\ front = {}
  /\ back = [w \in Workers |-> <<>>]
  /\ process = [w \in Workers |-> "off"]
  /\ beats = {}
  /\ inHand = [w \in Workers |-> {}]
  /\ age = [r \in Requests |-> 0]
  /\ sent = {} /\ answered = {} /\ refused = {} /\ lost = {}
  /\ late = FALSE

-----------------------------------------------------------------------------
\* Mutant: the frontend is polled only while there are workers.
PollWithWorkers ==
  /\ pc = "poll"
  /\ pc' = "recv"
  /\ ready' = (IF Waiting # {} THEN {"backend"} ELSE {})
                \cup (IF front # {} /\ queued # {} THEN {"frontend"} ELSE {})
  /\ valid' = FALSE
  /\ UNCHANGED <<poolVars, exitVars, heartbeat, front, back, workerVars, proxyVars, late>>

(***************************************************************************)
(* The loop.                                                               *)
(***************************************************************************)
Poll ==
  /\ pc = "poll"
  /\ pc' = "recv"
  /\ ready' = (IF Waiting # {} THEN {"backend"} ELSE {})
                \cup (IF front # {} THEN {"frontend"} ELSE {})
  /\ valid' = FALSE
  /\ UNCHANGED <<poolVars, exitVars, heartbeat, front, back, workerVars, proxyVars, late>>

\* Mutant: heartbeats count as activity.
ControlIsActivity(w, msg) ==
  /\ \/ msg.kind = "READY" /\ Pool!UpdateWorkerStatus(w, msg.arg, TRUE)
     \/ msg.kind = "HEARTBEAT" /\ Pool!UpdateWorkerStatus(w, msg.arg, FALSE)
     \/ msg.kind = "STOP" /\ Pool!UpdateWorkerStatus(w, Pool!SERVICE_STOP, TRUE)
  /\ valid' = TRUE
  /\ UNCHANGED proxyVars

\* READY, PPP_HEARTBEAT and PPP_STOP.
ControlMessage(w, msg) ==
  /\ \/ msg.kind = "READY" /\ Pool!UpdateWorkerStatus(w, msg.arg, TRUE)
     \/ msg.kind = "HEARTBEAT" /\ Pool!UpdateWorkerStatus(w, msg.arg, FALSE)
     \/ msg.kind = "STOP" /\ Pool!UpdateWorkerStatus(w, Pool!SERVICE_STOP, TRUE)
  /\ UNCHANGED <<valid, proxyVars>>

\* Mutant: a reply lets its worker in.
ReplyForces(w, msg) ==
  /\ msg.kind = "reply"
  /\ valid' = TRUE
  /\ Pool!UpdateWorkerStatus(w, 0, TRUE)
  /\ answered' = answered \cup {msg.arg}
  /\ UNCHANGED <<sent, refused, lost>>

\* A reply gives the worker back one unit of power and goes to its proxy.
ReplyMessage(w, msg) ==
  /\ msg.kind = "reply"
  /\ valid' = TRUE
  /\ Pool!UpdateWorkerStatus(w, 0, FALSE)
  /\ answered' = answered \cup {msg.arg}
  /\ UNCHANGED <<sent, refused, lost>>

RecvBackend ==
  /\ pc = "recv"
  /\ "backend" \in ready
  /\ ready' = ready \ {"backend"}
  /\ \E w \in Waiting :
       /\ ControlMessage(w, Head(back[w])) \/ ReplyMessage(w, Head(back[w]))
       /\ back' = [back EXCEPT ![w] = Tail(@)]
  /\ UNCHANGED <<pc, exitVars, heartbeat, front, workerVars, late>>

\* The ROUTER socket drops what is sent to a worker that is gone.
SendToWorker(w, r) ==
  IF process[w] = "off"
  THEN lost' = lost \cup {r} /\ UNCHANGED <<inHand, age>>
  ELSE /\ inHand' = [inHand EXCEPT ![w] = @ \cup {r}]
       /\ age' = [age EXCEPT ![r] = 0]
       /\ UNCHANGED lost

\* Mutant: with no worker, no error goes back.
RecvFrontendSilently ==
  /\ pc = "recv"
  /\ "frontend" \in ready /\ "backend" \notin ready
  /\ ready' = ready \ {"frontend"}
  /\ valid' = TRUE
  /\ \E r \in front :
       /\ front' = front \ {r}
       /\ Pool!NextWorker
       /\ \/ handed' # None /\ SendToWorker(handed', r)
          \/ handed' = None /\ UNCHANGED <<inHand, age, lost>>
  /\ UNCHANGED <<pc, exitVars, heartbeat, back, process, beats, sent, answered, refused, late>>

\* The request goes to the next worker; with none, an error to the proxy.
RecvFrontend ==
  /\ pc = "recv"
  /\ "frontend" \in ready /\ "backend" \notin ready
  /\ ready' = ready \ {"frontend"}
  /\ valid' = TRUE
  /\ \E r \in front :
       /\ front' = front \ {r}
       /\ Pool!NextWorker
       /\ \/ handed' # None /\ SendToWorker(handed', r) /\ UNCHANGED refused
          \/ handed' = None /\ refused' = refused \cup {r} /\ UNCHANGED <<inHand, age, lost>>
  /\ UNCHANGED <<pc, exitVars, heartbeat, back, process, beats, sent, answered, late>>

\* RecvMessage is interrupted: the message stays, and the turn goes on.
RecvFails ==
  /\ pc = "recv"
  /\ \E socket \in ready :
       /\ socket = "frontend" => "backend" \notin ready
       /\ ready' = ready \ {socket}
       /\ valid' = (valid \/ socket = "frontend")
  /\ UNCHANGED <<poolVars, pc, exitVars, heartbeat, front, back, workerVars, proxyVars, late>>

\* Mutant: messages do not put the exit off.
CheckNoRenewal ==
  /\ pc = "recv"
  /\ ready = {}
  /\ pc' = IF ~isAlive /\ grace < 0 THEN "exited" ELSE "select"
  /\ valid' = FALSE
  /\ UNCHANGED <<poolVars, ready, isAlive, grace, signal, delisted, heartbeat, front, back,
                 workerVars, proxyVars, late>>

\* Mutant: each message puts the exit off by another Grace.
CheckAddsUp ==
  /\ pc = "recv"
  /\ ready = {}
  /\ pc' = IF ~isAlive /\ ~valid /\ grace < 0 THEN "exited" ELSE "select"
  /\ grace' = IF ~isAlive /\ valid THEN grace + Grace ELSE grace
  /\ valid' = FALSE
  /\ UNCHANGED <<poolVars, ready, isAlive, signal, delisted, heartbeat, front, back,
                 workerVars, proxyVars, late>>

\* Once told to stop, exit when no request or reply came for Grace ticks.
Check ==
  /\ pc = "recv"
  /\ ready = {}
  /\ pc' = IF ~isAlive /\ ~valid /\ grace < 0 THEN "exited" ELSE "select"
  /\ grace' = IF ~isAlive /\ valid THEN Grace ELSE grace
  /\ valid' = FALSE
  /\ UNCHANGED <<poolVars, ready, isAlive, signal, delisted, heartbeat, front, back,
                 workerVars, proxyVars, late>>

\* The heartbeats sent to the workers change nothing here.
SelectHeartbeat ==
  /\ pc = "select"
  /\ heartbeat
  /\ pc' = "poll"
  /\ heartbeat' = FALSE
  /\ Pool!PurgeExpired
  /\ UNCHANGED <<ready, valid, exitVars, front, back, workerVars, proxyVars, late>>

\* The first signal takes the endpoint out of zookeeper; the others do nothing.
SelectSignal ==
  /\ pc = "select"
  /\ signal
  /\ pc' = "poll"
  /\ signal' = FALSE
  /\ isAlive' = FALSE
  /\ IF isAlive THEN grace' = Grace /\ delisted' = 0
                ELSE UNCHANGED <<grace, delisted>>
  /\ UNCHANGED <<poolVars, ready, valid, heartbeat, front, back, workerVars, proxyVars, late>>

SelectDefault ==
  /\ pc = "select"
  /\ ~heartbeat /\ ~signal
  /\ pc' = "poll"
  /\ UNCHANGED <<poolVars, ready, valid, exitVars, heartbeat, front, back, workerVars, proxyVars, late>>

-----------------------------------------------------------------------------
(***************************************************************************)
(* Workers: they send READY, heartbeats with the capacity they have left,  *)
(* replies, and STOP, after which they finish what they have in hand.      *)
(***************************************************************************)
SendToBackend(w, msg) ==
  /\ Len(back[w]) < QueueCap
  /\ back' = [back EXCEPT ![w] = Append(@, msg)]

Left(w) == IF Cardinality(inHand[w]) >= MaxConcurrency THEN 0
           ELSE MaxConcurrency - Cardinality(inHand[w])

WorkerReady(w) ==
  /\ process[w] = "off"
  /\ process' = [process EXCEPT ![w] = "up"]
  /\ SendToBackend(w, Control("READY", MaxConcurrency))
  /\ UNCHANGED <<poolVars, loopVars, exitVars, heartbeat, front, beats, inHand, age, proxyVars, late>>

WorkerHeartbeat(w) ==
  /\ process[w] = "up" /\ w \in beats
  /\ SendToBackend(w, Control("HEARTBEAT", Left(w)))
  /\ beats' = beats \ {w}
  /\ UNCHANGED <<poolVars, loopVars, exitVars, heartbeat, front, process, inHand, age, proxyVars, late>>

WorkerReply(w) ==
  /\ \E r \in inHand[w] :
       /\ SendToBackend(w, Reply(r))
       /\ inHand' = [inHand EXCEPT ![w] = @ \ {r}]
       /\ age' = [age EXCEPT ![r] = 0]
  /\ UNCHANGED <<poolVars, loopVars, exitVars, heartbeat, front, process, beats, proxyVars, late>>

WorkerStop(w) ==
  /\ process[w] = "up"
  /\ process' = [process EXCEPT ![w] = "stopping"]
  /\ SendToBackend(w, Control("STOP", 0))
  /\ UNCHANGED <<poolVars, loopVars, exitVars, heartbeat, front, beats, inHand, age, proxyVars, late>>

WorkerLeave(w) ==
  /\ process[w] = "stopping" /\ inHand[w] = {}
  /\ process' = [process EXCEPT ![w] = "off"]
  /\ UNCHANGED <<poolVars, loopVars, exitVars, heartbeat, front, back, beats, inHand, age,
                 proxyVars, late>>

WorkerCrash(w) ==
  /\ process[w] # "off"
  /\ process' = [process EXCEPT ![w] = "off"]
  /\ lost' = lost \cup inHand[w]
  /\ inHand' = [inHand EXCEPT ![w] = {}]
  /\ age' = [r \in Requests |-> IF r \in inHand[w] THEN 0 ELSE age[r]]
  /\ UNCHANGED <<poolVars, loopVars, exitVars, heartbeat, front, back, beats, sent, answered,
                 refused, late>>

\* A proxy sends to the endpoint until it has heard that it is gone.
ProxySend(r) ==
  /\ r \notin sent
  /\ delisted < Notice
  /\ sent' = sent \cup {r}
  /\ front' = front \cup {r}
  /\ UNCHANGED <<poolVars, loopVars, exitVars, heartbeat, back, workerVars, answered, refused, lost, late>>

Signal ==
  /\ ~signal /\ pc # "exited"
  /\ signal' = TRUE
  /\ UNCHANGED <<poolVars, loopVars, isAlive, grace, delisted, heartbeat, front, back,
                 workerVars, proxyVars, late>>

\* The loop has nothing to do but to poll.
Idle == pc = "poll" /\ front = {} /\ Waiting = {} /\ ~heartbeat /\ ~signal

InHand == UNION {inHand[w] : w \in Workers}

Tick ==
  /\ pc # "exited"
  /\ \A r \in InHand : age[r] < ServiceTime
  /\ late' = (late \/ (~isAlive /\ ~Idle))
  /\ Pool!Tick
  /\ heartbeat' = TRUE
  /\ grace' = IF grace >= 0 THEN grace - 1 ELSE -1
  /\ delisted' = IF delisted \in 0..(Notice - 1) THEN delisted + 1 ELSE delisted
  /\ age' = [r \in Requests |-> IF r \in InHand THEN age[r] + 1 ELSE 0]
  /\ beats' = Workers
  /\ UNCHANGED <<loopVars, isAlive, signal, front, back, process, inHand, proxyVars>>

Loop ==
  \/ Poll \/ RecvBackend \/ RecvFrontend \/ RecvFails \/ Check
  \/ SelectHeartbeat \/ SelectSignal \/ SelectDefault

Next ==
  \/ Loop
  \/ \E w \in Workers :
       \/ WorkerReady(w) \/ WorkerHeartbeat(w) \/ WorkerReply(w)
       \/ WorkerStop(w) \/ WorkerLeave(w) \/ WorkerCrash(w)
  \/ \E r \in Requests : ProxySend(r)
  \/ Signal
  \/ Tick

Spec == Init /\ [][Next]_vars

(***************************************************************************)
(* The goroutine of the loop runs on, select picks fairly between two      *)
(* ready cases, the ROUTER socket reads from every peer in turn, a call    *)
(* that was interrupted succeeds when it is made again and again, time     *)
(* passes, and a worker that has a request answers it or goes down.        *)
(***************************************************************************)
RecvFrom(w) == RecvBackend /\ back'[w] # back[w]

FairSpec ==
  /\ Spec
  /\ WF_vars(Poll \/ RecvBackend \/ RecvFrontend \/ RecvFails \/ Check \/ SelectDefault)
  /\ SF_vars(RecvFrontend)
  /\ SF_vars(SelectHeartbeat) /\ SF_vars(SelectSignal)
  /\ \A w \in Workers : SF_vars(RecvFrom(w)) /\ SF_vars(WorkerReply(w))
  /\ SF_vars(Tick)

-----------------------------------------------------------------------------
(***************************************************************************)
(* Types of the loop's state and of its surroundings.                      *)
(***************************************************************************)
Messages ==
  [kind : {"READY", "HEARTBEAT"}, arg : 0..MaxConcurrency]
    \cup [kind : {"STOP"}, arg : {0}]
    \cup [kind : {"reply"}, arg : Requests]

TypeOK ==
  /\ Pool!TypeOK
  /\ pc \in {"poll", "recv", "select", "exited"}
  /\ ready \subseteq {"backend", "frontend"}
  /\ {valid, isAlive, heartbeat, signal, late} \subseteq BOOLEAN
  /\ grace \in (-1)..Grace
  /\ delisted \in (-1)..Notice
  /\ front \subseteq sent /\ sent \subseteq Requests
  /\ back \in [Workers -> Seq(Messages)]
  /\ \A w \in Workers : Len(back[w]) <= QueueCap
  /\ process \in [Workers -> {"off", "up", "stopping"}]
  /\ beats \subseteq Workers
  /\ inHand \in [Workers -> SUBSET sent]
  /\ age \in [Requests -> 0..ServiceTime]
  /\ answered \cup refused \cup lost \subseteq sent

(***************************************************************************)
(* No request is lost or doubled between the sockets of the loop: each one *)
(* sent waits at the frontend, or is in hand at one worker, or its one     *)
(* reply waits at the backend, or it was answered once, refused with an    *)
(* error, or went down with its worker.                                    *)
(***************************************************************************)
Waits(w, msg) == {n \in DOMAIN back[w] : back[w][n] = msg}

Ends == [front |-> front, answered |-> answered, refused |-> refused, lost |-> lost]

Places(r) ==
  {<<"inHand", w, 0>> : w \in {v \in Workers : r \in inHand[v]}}
    \cup {<<end, None, 0>> : end \in {e \in DOMAIN Ends : r \in Ends[e]}}
    \cup UNION {{<<"back", w, n>> : n \in Waits(w, Reply(r))} : w \in Workers}

Conserved ==
  \A r \in Requests :
    /\ r \in sent => \E place \in Places(r) : Places(r) = {place}
    /\ r \notin sent => Places(r) = {}

(***************************************************************************)
(* "通知lb, Worker 即将关闭，如果有什么Event请不要再分配了" (demo/rpc_lb.go:34:  *)
(* tells the balancer that the worker is about to close, and to give it no *)
(* more events).  Once the loop has handled the STOP of a worker that is   *)
(* finishing its work, the worker is out of the pool, and its last replies *)
(* and the heartbeats sent before do not bring it back.                    *)
(***************************************************************************)
StoppingStaysOut ==
  \A w \in Workers :
    process[w] = "stopping" /\ Waits(w, Control("STOP", 0)) = {} => w \notin registered

(***************************************************************************)
(* "准备退出(但是需要处理完毕手上的活)" (demo/rpc_lb.go:411: about to exit, but   *)
(* the work in hand must be finished).  When a loop that kept up with its  *)
(* sockets has exited, no request it sent out is still at a worker, no     *)
(* reply waits for it, and no proxy waits at the frontend, provided that   *)
(* workers answer and proxies hear within the grace period.                *)
(***************************************************************************)
WithinGrace == ServiceTime <= Grace /\ Notice <= Grace + 1

NothingLeft ==
  /\ InHand = {}
  /\ front = {}
  /\ \A w \in Workers, r \in Requests : Waits(w, Reply(r)) = {}

ExitsWithNothingInHand == WithinGrace /\ pc = "exited" /\ ~late => NothingLeft

(***************************************************************************)
(* The inductive invariant of LoadBalancerProofs.  The STOP of a stopping  *)
(* worker is ahead of the loop with no READY behind it, or the worker is   *)
(* out and nothing lets it in.  While a loop told to stop keeps up, its    *)
(* grace runs no faster than the time since the endpoint was delisted, nor *)
(* than the ages of the requests in hand.                                  *)
(***************************************************************************)
IsReady(msg) == msg.kind = "READY"

StopAhead(w) ==
  \E n \in Waits(w, Control("STOP", 0)) :
    \A m \in DOMAIN back[w] : m > n => ~IsReady(back[w][m])

Out(w) == w \notin registered /\ \A n \in DOMAIN back[w] : ~IsReady(back[w][n])

Stopping == \A w \in Workers : process[w] = "stopping" => StopAhead(w) \/ Out(w)

GraceSpent ==
  /\ delisted = Notice \/ delisted + grace >= Grace
  /\ delisted >= 0
  /\ IF grace < 0 THEN NothingLeft
     ELSE (pc = "recv" /\ valid) \/ \A r \in InHand : grace + age[r] >= Grace

Exiting ==
  /\ pc = "exited" => ~isAlive /\ grace < 0
  /\ WithinGrace /\ ~isAlive /\ ~late => GraceSpent

IInv ==
  /\ TypeOK
  /\ \A w \in Workers : IsFiniteSet(inHand[w])
  /\ Conserved
  /\ Stopping
  /\ Exiting

(***************************************************************************)
(* Every request is answered, refused, or goes down with its worker, as    *)
(* long as the loop runs.                                                  *)
(***************************************************************************)
EveryRequestSettled ==
  \A r \in Requests :
    r \in sent ~> (r \in answered \cup refused \cup lost \/ pc = "exited")

(***************************************************************************)
(* A balancer told to stop exits: heartbeats do not keep it alive, only    *)
(* requests and replies do, and proxies stop sending.                      *)
(***************************************************************************)
StopsWhenTold == signal ~> pc = "exited"
=============================================================================
