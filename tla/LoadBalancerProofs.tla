------------------------- MODULE LoadBalancerProofs -------------------------
(***************************************************************************)
(* Theorems about LoadBalancer, for any workers, requests and bounds.      *)
(***************************************************************************)
EXTENDS LoadBalancer, FiniteSetTheorems, SequenceTheorems, TLAPS

-----------------------------------------------------------------------------
(***************************************************************************)
(* What the loop asks of the worker queue keeps the types of the queue.    *)
(***************************************************************************)
LEMMA ForgetTypes ==
  ASSUME Pool!TypeOK, NEW W \in SUBSET Workers, Pool!Forget(W), handed' = None,
         stopped' \subseteq Workers
  PROVE  Pool!TypeOK' /\ registered' = registered \ W
  BY LoadBalancerAssumption DEF Pool!Forget, Pool!TypeOK, Pool!Powers

LEMMA UpdateTypes ==
  ASSUME Pool!TypeOK, NEW w \in Workers, NEW p \in (-1)..MaxConcurrency,
         NEW force \in BOOLEAN, Pool!UpdateWorkerStatus(w, p, force)
  PROVE  /\ Pool!TypeOK'
         /\ registered' \subseteq registered \cup {w}
         /\ ~force => registered' \subseteq registered
         /\ p = -1 => w \notin registered'
<1> USE LoadBalancerAssumption
<1>1. CASE Pool!UpdatePower(w, p, force)
  <2>1. power' \in [Workers -> Pool!Powers]
    BY <1>1 DEF Pool!UpdatePower, Pool!TypeOK
  <2> QED
    BY <1>1, <2>1 DEF Pool!UpdatePower, Pool!Refresh, Pool!TypeOK
<1>2. CASE Pool!IgnoreUpdate(w, p, force)
  BY <1>2 DEF Pool!IgnoreUpdate, Pool!TypeOK
<1>3. CASE Pool!StopWorker(w)
  <2>1. Pool!TypeOK' /\ registered' = registered \ {w}
    BY <1>3, ForgetTypes DEF Pool!StopWorker, Pool!TypeOK
  <2> QED
    BY <2>1
<1> QED
  BY <1>1, <1>2, <1>3 DEF Pool!UpdateWorkerStatus

LEMMA NextWorkerTypes ==
  ASSUME Pool!TypeOK, Pool!NextWorker
  PROVE  Pool!TypeOK' /\ registered' = registered
<1> USE LoadBalancerAssumption
<1>1. registered' = registered /\ UNCHANGED <<ttl, silence, stopped>>
  BY DEF Pool!NextWorker
<1>2. CASE queued' = {} /\ handed' = None /\ UNCHANGED power
  BY <1>1, <1>2 DEF Pool!TypeOK
<1>3. ASSUME NEW w \in Pool!Live, NEW dropped,
             queued' = queued \ dropped,
             power' = [power EXCEPT ![w] = @ - 1],
             power'[w] \in Pool!Powers,
             handed' = w
      PROVE  Pool!TypeOK'
  <2>1. w \in registered /\ w \in Workers
    BY DEF Pool!TypeOK, Pool!Live
  <2>2. power' \in [Workers -> Pool!Powers]
    BY <1>3, <2>1 DEF Pool!TypeOK
  <2> QED
    BY <1>1, <1>3, <2>1, <2>2 DEF Pool!TypeOK
<1> QED
  BY <1>1, <1>2, <1>3 DEF Pool!NextWorker

LEMMA PurgeTypes ==
  ASSUME Pool!TypeOK, Pool!PurgeExpired
  PROVE  Pool!TypeOK' /\ registered' \subseteq registered
<1>1. {w \in queued : ttl[w] < 0} \in SUBSET Workers
  BY DEF Pool!TypeOK
<1>2. stopped' \subseteq Workers
  BY DEF Pool!PurgeExpired, Pool!TypeOK
<1> QED
  BY <1>1, <1>2, ForgetTypes DEF Pool!PurgeExpired

LEMMA TickTypes ==
  ASSUME Pool!TypeOK, Pool!Tick
  PROVE  Pool!TypeOK' /\ registered' = registered
<1> USE LoadBalancerAssumption DEF Pool!Tick, Pool!TypeOK
<1>1. ttl' \in [Workers -> (-1)..Expiry]
  OBVIOUS
<1>2. silence' \in [Workers -> 0..(Expiry + 1)]
  OBVIOUS
<1>3. \A w \in Workers \ registered : ttl'[w] = -1 /\ silence'[w] = 0
  OBVIOUS
<1> QED
  BY <1>1, <1>2, <1>3

-----------------------------------------------------------------------------
(***************************************************************************)
(* Types.                                                                  *)
(***************************************************************************)
LEMMA FirstMessage ==
  ASSUME TypeOK, NEW w \in Waiting
  PROVE  /\ w \in Workers /\ back[w] \in Seq(Messages)
         /\ Len(back[w]) \in Nat \ {0}
         /\ Head(back[w]) = back[w][1] /\ Head(back[w]) \in Messages
         /\ Tail(back[w]) \in Seq(Messages)
         /\ Len(Tail(back[w])) = Len(back[w]) - 1
         /\ \A n \in 1..Len(Tail(back[w])) : Tail(back[w])[n] = back[w][n + 1]
<1>1. w \in Workers /\ back[w] \in Seq(Messages) /\ back[w] # <<>>
  BY DEF Waiting, TypeOK
<1>2. Len(back[w]) \in Nat \ {0}
  BY <1>1, EmptySeq
<1> QED
  BY <1>1, <1>2, HeadTailProperties

-----------------------------------------------------------------------------
(***************************************************************************)
(* Where a request is: an element of Places for each of the collections it *)
(* is in.                                                                  *)
(***************************************************************************)
LEMMA PlacesOf ==
  ASSUME NEW r, NEW place
  PROVE  place \in Places(r) <=>
           \/ \E w \in Workers : r \in inHand[w] /\ place = <<"inHand", w, 0>>
           \/ \E w \in Workers : \E n \in Waits(w, Reply(r)) : place = <<"back", w, n>>
           \/ r \in front /\ place = <<"front", None, 0>>
           \/ r \in answered /\ place = <<"answered", None, 0>>
           \/ r \in refused /\ place = <<"refused", None, 0>>
           \/ r \in lost /\ place = <<"lost", None, 0>>
<1> DEFINE hands == {<<"inHand", w, 0>> : w \in {v \in Workers : r \in inHand[v]}}
           backs == UNION {{<<"back", w, n>> : n \in Waits(w, Reply(r))} : w \in Workers}
           fates == {<<end, None, 0>> : end \in {e \in DOMAIN Ends : r \in Ends[e]}}
<1>1. Places(r) = hands \cup fates \cup backs
  BY DEF Places
<1>2. place \in hands <=> \E w \in Workers : r \in inHand[w] /\ place = <<"inHand", w, 0>>
  OBVIOUS
<1>3. place \in backs <=>
        \E w \in Workers : \E n \in Waits(w, Reply(r)) : place = <<"back", w, n>>
  OBVIOUS
<1>4. place \in fates <=>
           \/ r \in front /\ place = <<"front", None, 0>>
           \/ r \in answered /\ place = <<"answered", None, 0>>
           \/ r \in refused /\ place = <<"refused", None, 0>>
           \/ r \in lost /\ place = <<"lost", None, 0>>
  <2>1. DOMAIN Ends = {"front", "answered", "refused", "lost"}
    BY DEF Ends
  <2>2. /\ Ends["front"] = front /\ Ends["answered"] = answered
        /\ Ends["refused"] = refused /\ Ends["lost"] = lost
    BY DEF Ends
  <2> QED
    BY <2>1, <2>2
<1> HIDE DEF hands, backs, fates
<1> QED
  BY <1>1, <1>2, <1>3, <1>4

PlacesAreThese ==
  \A r, place :
    place \in Places(r) <=>
      \/ \E w \in Workers : r \in inHand[w] /\ place = <<"inHand", w, 0>>
      \/ \E w \in Workers : \E n \in Waits(w, Reply(r)) : place = <<"back", w, n>>
      \/ r \in front /\ place = <<"front", None, 0>>
      \/ r \in answered /\ place = <<"answered", None, 0>>
      \/ r \in refused /\ place = <<"refused", None, 0>>
      \/ r \in lost /\ place = <<"lost", None, 0>>

LEMMA AllPlaces == PlacesAreThese
  BY PlacesOf DEF PlacesAreThese

\* The same of the next state.
LEMMA PlacesNext ==
  ASSUME NEW r, NEW place
  PROVE  place \in Places(r)' <=>
           \/ \E w \in Workers : r \in inHand'[w] /\ place = <<"inHand", w, 0>>
           \/ \E w \in Workers : \E n \in Waits(w, Reply(r))' : place = <<"back", w, n>>
           \/ r \in front' /\ place = <<"front", None, 0>>
           \/ r \in answered' /\ place = <<"answered", None, 0>>
           \/ r \in refused' /\ place = <<"refused", None, 0>>
           \/ r \in lost' /\ place = <<"lost", None, 0>>
<1>1. PlacesAreThese'
  BY AllPlaces, PTL
<1> QED
  BY <1>1 DEF PlacesAreThese

LEMMA InPlaces ==
  ASSUME NEW r
  PROVE  /\ \A w \in Workers : r \in inHand[w] => <<"inHand", w, 0>> \in Places(r)
         /\ \A w \in Workers : \A n \in Waits(w, Reply(r)) : <<"back", w, n>> \in Places(r)
         /\ r \in front => <<"front", None, 0>> \in Places(r)
         /\ r \in answered => <<"answered", None, 0>> \in Places(r)
         /\ r \in refused => <<"refused", None, 0>> \in Places(r)
         /\ r \in lost => <<"lost", None, 0>> \in Places(r)
  BY PlacesOf

LEMMA OnePlace ==
  ASSUME Conserved, NEW r \in Requests, NEW p \in Places(r)
  PROVE  r \in sent /\ Places(r) = {p}
  BY DEF Conserved

\* What a request being in one place says of the other places.
LEMMA OnlyInHand ==
  ASSUME Conserved, NEW r \in Requests, NEW w \in Workers, r \in inHand[w]
  PROVE  /\ Places(r) = {<<"inHand", w, 0>>}
         /\ \A v \in Workers : Waits(v, Reply(r)) = {} /\ (r \in inHand[v] => v = w)
         /\ r \notin front /\ r \notin answered /\ r \notin refused /\ r \notin lost
<1>1. Places(r) = {<<"inHand", w, 0>>}
  BY InPlaces, OnePlace
<1>2. \A p \in Places(r) : p = <<"inHand", w, 0>>
  BY <1>1
<1>3. \A v \in Workers : r \in inHand[v] => <<"inHand", v, 0>> = <<"inHand", w, 0>>
  BY <1>2, InPlaces
<1>4. \A v \in Workers : \A m \in Waits(v, Reply(r)) : <<"back", v, m>> = <<"inHand", w, 0>>
  BY <1>2, InPlaces
<1>5. /\ r \in front => <<"front", None, 0>> = <<"inHand", w, 0>>
      /\ r \in answered => <<"answered", None, 0>> = <<"inHand", w, 0>>
      /\ r \in refused => <<"refused", None, 0>> = <<"inHand", w, 0>>
      /\ r \in lost => <<"lost", None, 0>> = <<"inHand", w, 0>>
  BY <1>2, InPlaces
<1> QED
  BY <1>1, <1>3, <1>4, <1>5

LEMMA OnlyInFront ==
  ASSUME Conserved, NEW r \in Requests, r \in front
  PROVE  /\ Places(r) = {<<"front", None, 0>>}
         /\ \A v \in Workers : Waits(v, Reply(r)) = {} /\ r \notin inHand[v]
         /\ r \notin answered /\ r \notin refused /\ r \notin lost
<1>1. Places(r) = {<<"front", None, 0>>}
  BY InPlaces, OnePlace
<1>2. \A p \in Places(r) : p = <<"front", None, 0>>
  BY <1>1
<1>3. \A v \in Workers : r \in inHand[v] => <<"inHand", v, 0>> = <<"front", None, 0>>
  BY <1>2, InPlaces
<1>4. \A v \in Workers : \A m \in Waits(v, Reply(r)) : <<"back", v, m>> = <<"front", None, 0>>
  BY <1>2, InPlaces
<1>5. /\ r \in front => <<"front", None, 0>> = <<"front", None, 0>>
      /\ r \in answered => <<"answered", None, 0>> = <<"front", None, 0>>
      /\ r \in refused => <<"refused", None, 0>> = <<"front", None, 0>>
      /\ r \in lost => <<"lost", None, 0>> = <<"front", None, 0>>
  BY <1>2, InPlaces
<1> QED
  BY <1>1, <1>3, <1>4, <1>5

LEMMA OnlyInBack ==
  ASSUME Conserved, NEW r \in Requests, NEW w \in Workers, NEW n \in Waits(w, Reply(r))
  PROVE  /\ Places(r) = {<<"back", w, n>>}
         /\ \A v \in Workers : /\ r \notin inHand[v]
                              /\ Waits(v, Reply(r)) = IF v = w THEN {n} ELSE {}
         /\ r \notin front /\ r \notin answered /\ r \notin refused /\ r \notin lost
<1>1. Places(r) = {<<"back", w, n>>}
  BY InPlaces, OnePlace
<1>2. \A p \in Places(r) : p = <<"back", w, n>>
  BY <1>1
<1>3. \A v \in Workers : r \in inHand[v] => <<"inHand", v, 0>> = <<"back", w, n>>
  BY <1>2, InPlaces
<1>4. \A v \in Workers : \A m \in Waits(v, Reply(r)) : <<"back", v, m>> = <<"back", w, n>>
  BY <1>2, InPlaces
<1>5. /\ r \in front => <<"front", None, 0>> = <<"back", w, n>>
      /\ r \in answered => <<"answered", None, 0>> = <<"back", w, n>>
      /\ r \in refused => <<"refused", None, 0>> = <<"back", w, n>>
      /\ r \in lost => <<"lost", None, 0>> = <<"back", w, n>>
  BY <1>2, InPlaces
<1> QED
  BY <1>1, <1>3, <1>4, <1>5

\* The request of a reply that waits was sent, and is nowhere else.
LEMMA ReplyIsSent ==
  ASSUME Conserved, NEW w \in Workers, NEW n \in DOMAIN back[w], NEW r \in Requests,
         back[w][n] = Reply(r)
  PROVE  r \in sent /\ Places(r) = {<<"back", w, n>>}
<1>1. <<"back", w, n>> \in Places(r)
  BY PlacesOf DEF Waits
<1> QED
  BY <1>1, OnePlace

LEMMA RecvBackendTypes == TypeOK /\ Conserved /\ RecvBackend => TypeOK'
<1> SUFFICES ASSUME TypeOK, Conserved, RecvBackend PROVE TypeOK'
  OBVIOUS
<1> PICK w \in Waiting :
      /\ ControlMessage(w, Head(back[w])) \/ ReplyMessage(w, Head(back[w]))
      /\ back' = [back EXCEPT ![w] = Tail(@)]
  BY DEF RecvBackend
<1> DEFINE msg == Head(back[w])
<1>1. w \in Workers /\ msg \in Messages
  BY FirstMessage
<1>2. Pool!TypeOK'
  <2> USE LoadBalancerAssumption
  <2>0. /\ Pool!TypeOK /\ FALSE \in BOOLEAN /\ TRUE \in BOOLEAN
        /\ 0 \in (-1)..MaxConcurrency /\ -1 \in (-1)..MaxConcurrency
    BY DEF TypeOK
  <2>1. CASE msg.kind = "reply" /\ Pool!UpdateWorkerStatus(w, 0, FALSE)
    BY <1>1, <2>0, <2>1, UpdateTypes, Zenon
  <2>2. CASE msg.kind = "STOP" /\ Pool!UpdateWorkerStatus(w, -1, TRUE)
    BY <1>1, <2>0, <2>2, UpdateTypes, Zenon
  <2>3. ASSUME msg.kind \in {"READY", "HEARTBEAT"}, NEW force \in BOOLEAN,
               Pool!UpdateWorkerStatus(w, msg.arg, force)
        PROVE  Pool!TypeOK'
    <3>1. msg.arg \in (-1)..MaxConcurrency
      BY <1>1, <2>3 DEF Messages
    <3> QED
      BY <1>1, <2>3, <3>1, UpdateTypes DEF TypeOK
  <2> QED
    BY <2>1, <2>2, <2>3 DEF ControlMessage, ReplyMessage, Pool!SERVICE_STOP
<1>3. back' \in [Workers -> Seq(Messages)]
  BY <1>1, FirstMessage DEF TypeOK
<1>4. \A v \in Workers : Len(back'[v]) <= QueueCap
  <2> TAKE v \in Workers
  <2>1. CASE v = w
    <3>1. Len(back'[v]) = Len(back[v]) - 1
      BY <2>1, FirstMessage DEF TypeOK
    <3> QED
      BY <2>1, <3>1, FirstMessage, LoadBalancerAssumption DEF TypeOK
  <2>2. CASE v # w
    BY <2>2 DEF TypeOK
  <2> QED
    BY <2>1, <2>2
<1>5. valid' \in BOOLEAN
  BY Zenon DEF ControlMessage, ReplyMessage, TypeOK
<1>6. answered' \subseteq sent' /\ UNCHANGED <<sent, refused, lost>>
  <2>1. CASE ControlMessage(w, msg)
    BY <2>1 DEF ControlMessage, proxyVars, TypeOK
  <2>2. CASE ReplyMessage(w, msg)
    <3>1. msg = Reply(msg.arg) /\ msg.arg \in Requests
      BY <1>1, <2>2 DEF ReplyMessage, Messages, Reply
    <3>2. 1 \in DOMAIN back[w] /\ back[w][1] = Reply(msg.arg)
      BY <3>1, FirstMessage
    <3>3. msg.arg \in sent
      BY <1>1, <3>1, <3>2, ReplyIsSent
    <3> QED
      BY <2>2, <3>3 DEF ReplyMessage, TypeOK
  <2> QED
    BY <2>1, <2>2
<1> QED
  BY <1>2, <1>3, <1>4, <1>5, <1>6 DEF RecvBackend, TypeOK, exitVars, workerVars

LEMMA SendTypes ==
  ASSUME TypeOK, NEW w \in Workers, NEW msg \in Messages, SendToBackend(w, msg)
  PROVE  /\ back' \in [Workers -> Seq(Messages)]
         /\ \A v \in Workers : Len(back'[v]) <= QueueCap
<1>1. back[w] \in Seq(Messages) /\ Len(back[w]) \in Nat /\ Len(back[w]) < QueueCap
  BY DEF TypeOK, SendToBackend
<1>2. Append(back[w], msg) \in Seq(Messages) /\ Len(Append(back[w], msg)) = Len(back[w]) + 1
  BY <1>1
<1>3. back' = [back EXCEPT ![w] = Append(@, msg)]
  BY DEF SendToBackend
<1> HIDE DEF SendToBackend
<1> QED
  BY <1>1, <1>2, <1>3, LoadBalancerAssumption DEF TypeOK

LEMMA SendToWorkerTypes ==
  ASSUME TypeOK, NEW w \in Workers, NEW r \in sent, SendToWorker(w, r)
  PROVE  /\ inHand' \in [Workers -> SUBSET sent]
         /\ age' \in [Requests -> 0..ServiceTime]
         /\ lost' \subseteq sent
<1>1. r \in Requests
  BY DEF TypeOK
<1>2. CASE process[w] = "off"
  BY <1>2 DEF SendToWorker, TypeOK
<1>3. CASE process[w] # "off"
  <2>1. inHand' = [inHand EXCEPT ![w] = @ \cup {r}] /\ age' = [age EXCEPT ![r] = 0] /\ lost' = lost
    BY <1>3 DEF SendToWorker
  <2>2. 0 \in 0..ServiceTime
    BY LoadBalancerAssumption
  <2>3. age' \in [Requests -> 0..ServiceTime]
    BY <1>1, <2>1, <2>2 DEF TypeOK
  <2>4. inHand' \in [Workers -> SUBSET sent]
    BY <2>1 DEF TypeOK
  <2> QED
    BY <2>1, <2>3, <2>4 DEF TypeOK
<1> QED
  BY <1>2, <1>3

LEMMA RecvFrontendTypes == TypeOK /\ RecvFrontend => TypeOK'
<1> SUFFICES ASSUME TypeOK, RecvFrontend PROVE TypeOK'
  OBVIOUS
<1> PICK r \in front :
      /\ front' = front \ {r}
      /\ Pool!NextWorker
      /\ \/ handed' # None /\ SendToWorker(handed', r) /\ UNCHANGED refused
         \/ handed' = None /\ refused' = refused \cup {r} /\ UNCHANGED <<inHand, age, lost>>
  BY DEF RecvFrontend
<1>1. Pool!TypeOK
  BY DEF TypeOK
<1>2. Pool!TypeOK'
  BY <1>1, NextWorkerTypes
<1>3. r \in sent /\ front' \subseteq sent
  BY DEF TypeOK
<1>4. handed' # None => handed' \in Workers
  BY <1>2 DEF Pool!TypeOK
<1>5. /\ inHand' \in [Workers -> SUBSET sent]
      /\ age' \in [Requests -> 0..ServiceTime]
      /\ lost' \subseteq sent /\ refused' \subseteq sent
  <2>1. CASE handed' # None /\ SendToWorker(handed', r) /\ UNCHANGED refused
    <3>1. \A w \in Workers : SendToWorker(w, r) =>
            /\ inHand' \in [Workers -> SUBSET sent]
            /\ age' \in [Requests -> 0..ServiceTime]
            /\ lost' \subseteq sent
      BY <1>3, SendToWorkerTypes
    <3> QED
      BY <1>4, <2>1, <3>1 DEF TypeOK
  <2>2. CASE refused' = refused \cup {r} /\ UNCHANGED <<inHand, age, lost>>
    BY <1>3, <2>2 DEF TypeOK
  <2> QED
    BY <2>1, <2>2
<1>6. /\ ready' \subseteq {"backend", "frontend"} /\ valid' = TRUE
      /\ UNCHANGED <<pc, exitVars, heartbeat, back, process, beats, sent, answered, late>>
  BY DEF RecvFrontend, TypeOK
<1> QED
  BY <1>2, <1>3, <1>5, <1>6 DEF TypeOK, exitVars

LEMMA LoopTypes == TypeOK /\ Conserved /\ Loop => TypeOK'
<1> SUFFICES ASSUME TypeOK, Conserved, Loop PROVE TypeOK'
  OBVIOUS
<1> USE LoadBalancerAssumption
<1>1. CASE Poll
  BY <1>1 DEF Poll, TypeOK, Pool!TypeOK, poolVars, exitVars, workerVars, proxyVars
<1>2. CASE RecvFails
  <2>1. valid \in BOOLEAN => valid' \in BOOLEAN
    BY <1>2, Zenon DEF RecvFails
  <2>2. ready' \subseteq ready
    BY <1>2 DEF RecvFails
  <2> QED
    BY <1>2, <2>1, <2>2 DEF RecvFails, TypeOK, Pool!TypeOK, poolVars, exitVars, workerVars, proxyVars
<1>3. CASE Check
  <2>1. pc' \in {"exited", "select"} /\ valid' = FALSE
    BY <1>3 DEF Check
  <2>2. grace' \in (-1)..Grace
    BY <1>3 DEF Check, TypeOK
  <2> QED
    BY <1>3, <2>1, <2>2 DEF Check, TypeOK, Pool!TypeOK, poolVars, workerVars, proxyVars
<1>4. CASE SelectHeartbeat
  <2>1. Pool!TypeOK'
    BY <1>4, PurgeTypes DEF SelectHeartbeat, TypeOK
  <2> QED
    BY <1>4, <2>1 DEF SelectHeartbeat, TypeOK, exitVars, workerVars, proxyVars
<1>5. CASE SelectSignal
  <2>1. isAlive' = FALSE /\ signal' = FALSE /\ pc' = "poll"
    BY <1>5 DEF SelectSignal
  <2>2. grace' \in (-1)..Grace /\ delisted' \in (-1)..Notice
    BY <1>5 DEF SelectSignal, TypeOK
  <2> QED
    BY <1>5, <2>1, <2>2 DEF SelectSignal, TypeOK, Pool!TypeOK, poolVars, workerVars, proxyVars
<1>6. CASE SelectDefault
  BY <1>6 DEF SelectDefault, TypeOK, Pool!TypeOK, poolVars, exitVars, workerVars, proxyVars
<1> QED
  BY <1>1, <1>2, <1>3, <1>4, <1>5, <1>6, RecvBackendTypes, RecvFrontendTypes DEF Loop

LEMMA LeftInRange ==
  ASSUME NEW w \in Workers, IsFiniteSet(inHand[w])
  PROVE  Left(w) \in 0..MaxConcurrency
<1>1. Cardinality(inHand[w]) \in Nat
  BY FS_CardinalityType
<1> QED
  BY <1>1, LoadBalancerAssumption DEF Left

\* A worker's message to the backend is one of Messages.
LEMMA MessagesSent ==
  /\ Control("READY", MaxConcurrency) \in Messages
  /\ Control("STOP", 0) \in Messages
  /\ \A c \in 0..MaxConcurrency : Control("HEARTBEAT", c) \in Messages
  /\ \A r \in Requests : Reply(r) \in Messages
  BY LoadBalancerAssumption DEF Control, Reply, Messages

LEMMA WorkerTypes ==
  ASSUME TypeOK, NEW w \in Workers, IsFiniteSet(inHand[w]),
         \/ WorkerReady(w) \/ WorkerHeartbeat(w) \/ WorkerReply(w)
         \/ WorkerStop(w) \/ WorkerLeave(w) \/ WorkerCrash(w)
  PROVE  TypeOK'
<1> USE DEF poolVars, loopVars, exitVars, proxyVars
<1>1. CASE WorkerReady(w)
  BY <1>1, MessagesSent, SendTypes DEF WorkerReady, TypeOK, Pool!TypeOK
<1>2. CASE WorkerHeartbeat(w)
  BY <1>2, MessagesSent, LeftInRange, SendTypes DEF WorkerHeartbeat, TypeOK, Pool!TypeOK
<1>3. CASE WorkerReply(w)
  <2> PICK r \in inHand[w] :
        /\ SendToBackend(w, Reply(r))
        /\ inHand' = [inHand EXCEPT ![w] = @ \ {r}]
        /\ age' = [age EXCEPT ![r] = 0]
    BY <1>3 DEF WorkerReply
  <2>1. r \in Requests
    BY DEF TypeOK
  <2>2. /\ back' \in [Workers -> Seq(Messages)]
        /\ \A v \in Workers : Len(back'[v]) <= QueueCap
    BY <2>1, MessagesSent, SendTypes
  <2>3. inHand' \in [Workers -> SUBSET sent]
    BY DEF TypeOK
  <2>4. age' \in [Requests -> 0..ServiceTime]
    BY <2>1, LoadBalancerAssumption DEF TypeOK
  <2> QED
    BY <1>3, <2>2, <2>3, <2>4 DEF WorkerReply, TypeOK, Pool!TypeOK
<1>4. CASE WorkerStop(w)
  BY <1>4, MessagesSent, SendTypes DEF WorkerStop, TypeOK, Pool!TypeOK
<1>5. CASE WorkerLeave(w)
  BY <1>5 DEF WorkerLeave, TypeOK, Pool!TypeOK
<1>6. CASE WorkerCrash(w)
  <2>1. age' \in [Requests -> 0..ServiceTime]
    BY <1>6, LoadBalancerAssumption DEF WorkerCrash, TypeOK
  <2>2. inHand' \in [Workers -> SUBSET sent] /\ lost' \subseteq sent
    BY <1>6 DEF WorkerCrash, TypeOK
  <2> QED
    BY <1>6, <2>1, <2>2 DEF WorkerCrash, TypeOK, Pool!TypeOK
<1> QED
  BY <1>1, <1>2, <1>3, <1>4, <1>5, <1>6

LEMMA InHandIsUnion == \A r : r \in InHand <=> \E w \in Workers : r \in inHand[w]
  BY DEF InHand

LEMMA TickKeepsTypes == TypeOK /\ Tick => TypeOK'
<1> SUFFICES ASSUME TypeOK, Tick PROVE TypeOK'
  OBVIOUS
<1>1. Pool!TypeOK'
  BY TickTypes DEF Tick, TypeOK
<1>2. late' \in BOOLEAN /\ heartbeat' = TRUE
  BY Zenon DEF Tick
<1>3. grace' \in (-1)..Grace
  BY LoadBalancerAssumption DEF Tick, TypeOK
<1>4. delisted' \in (-1)..Notice
  BY LoadBalancerAssumption DEF Tick, TypeOK
<1>5. age' \in [Requests -> 0..ServiceTime]
  <2>1. \A r \in InHand : age[r] < ServiceTime
    BY DEF Tick
  <2>2. age' = [r \in Requests |-> IF r \in InHand THEN age[r] + 1 ELSE 0]
    BY DEF Tick
  <2> QED
    BY <2>1, <2>2, LoadBalancerAssumption DEF TypeOK
<1>6. beats' = Workers
      /\ UNCHANGED <<pc, ready, valid, isAlive, signal, front, back, process, inHand,
                     sent, answered, refused, lost>>
  BY DEF Tick, loopVars, proxyVars
<1> QED
  BY <1>1, <1>2, <1>3, <1>4, <1>5, <1>6 DEF TypeOK

LEMMA TypesKept ==
  ASSUME TypeOK, Conserved, \A w \in Workers : IsFiniteSet(inHand[w]), Next
  PROVE  TypeOK'
<1>1. ASSUME NEW r \in Requests, ProxySend(r) PROVE TypeOK'
  BY <1>1 DEF ProxySend, TypeOK, Pool!TypeOK, poolVars, loopVars, exitVars, workerVars
<1>2. CASE Signal
  BY <1>2 DEF Signal, TypeOK, Pool!TypeOK, poolVars, loopVars, workerVars, proxyVars
<1> QED
  BY <1>1, <1>2, LoopTypes, WorkerTypes, TickKeepsTypes DEF Next

-----------------------------------------------------------------------------
(***************************************************************************)
(* What the steps do to the messages at the backend and to the requests in *)
(* hand.                                                                   *)
(***************************************************************************)
LEMMA HandsStayFinite ==
  ASSUME TypeOK, \A w \in Workers : IsFiniteSet(inHand[w]), Next
  PROVE  \A w \in Workers : IsFiniteSet(inHand[w])'
<1>1. ASSUME NEW w \in Workers
      PROVE  \/ inHand'[w] \subseteq inHand[w]
             \/ \E r : inHand'[w] = inHand[w] \cup {r}
  <2>1. CASE RecvFrontend
    <3>1. CASE UNCHANGED inHand
      BY <3>1
    <3>2. ASSUME NEW v, NEW r, SendToWorker(v, r)
          PROVE  inHand'[w] = inHand[w] \/ inHand'[w] = inHand[w] \cup {r}
      BY <3>2 DEF SendToWorker, TypeOK
    <3> QED
      BY <2>1, <3>1, <3>2 DEF RecvFrontend
  <2>2. ASSUME NEW v \in Workers, WorkerReply(v) PROVE inHand'[w] \subseteq inHand[w]
    BY <2>2 DEF WorkerReply, TypeOK
  <2>3. ASSUME NEW v \in Workers, WorkerCrash(v) PROVE inHand'[w] \subseteq inHand[w]
    BY <2>3 DEF WorkerCrash, TypeOK
  <2>4. CASE UNCHANGED inHand
    BY <2>4
  <2> QED
    BY <2>1, <2>2, <2>3, <2>4
       DEF Next, Loop, Poll, RecvBackend, RecvFails, Check, SelectHeartbeat, SelectSignal,
           SelectDefault, WorkerReady, WorkerHeartbeat, WorkerStop, WorkerLeave, ProxySend,
           Signal, Tick, workerVars
<1>2. ASSUME NEW w \in Workers PROVE IsFiniteSet(inHand'[w])
  BY <1>1, FS_AddElement, FS_Subset
<1> QED
  BY <1>2

LEMMA WaitsAfterTail ==
  ASSUME TypeOK, NEW w \in Waiting, back' = [back EXCEPT ![w] = Tail(@)],
         NEW v \in Workers, NEW msg
  PROVE  /\ v # w => Waits(v, msg)' = Waits(v, msg)
         /\ v = w => \A n : n \in Waits(v, msg)' <=> n \in Nat \ {0} /\ n + 1 \in Waits(v, msg)
<1>1. CASE v # w
  BY <1>1 DEF Waits, TypeOK
<1>2. CASE v = w
  <2>1. back'[v] = Tail(back[v])
    BY <1>2 DEF TypeOK
  <2> DEFINE s == back[v]
             t == Tail(s)
             k == Len(s)
  <2>2. /\ k \in Nat \ {0} /\ DOMAIN s = 1..k /\ DOMAIN t = 1..(k - 1)
        /\ \A n \in 1..(k - 1) : t[n] = s[n + 1]
    BY <1>2, FirstMessage, LenProperties
  <2>3. /\ Waits(v, msg)' = {n \in DOMAIN t : t[n] = msg}
        /\ Waits(v, msg) = {n \in DOMAIN s : s[n] = msg}
    BY <2>1 DEF Waits
  <2> HIDE DEF s, t, k
  <2> QED
    BY <1>2, <2>2, <2>3
<1> QED
  BY <1>1, <1>2

LEMMA WaitsAfterSend ==
  ASSUME TypeOK, NEW w \in Workers, NEW sending \in Messages, SendToBackend(w, sending),
         NEW v \in Workers, NEW msg
  PROVE  Waits(v, msg)' =
           IF v = w /\ msg = sending THEN Waits(v, msg) \cup {Len(back[v]) + 1} ELSE Waits(v, msg)
<1>1. back' = [back EXCEPT ![w] = Append(@, sending)]
  BY DEF SendToBackend
<1>2. CASE v # w
  BY <1>1, <1>2 DEF Waits, TypeOK
<1>3. CASE v = w
  <2> DEFINE s == back[v]
             t == Append(s, sending)
             k == Len(s)
  <2>1. back'[v] = t
    BY <1>1, <1>3 DEF TypeOK
  <2>2. s \in Seq(Messages)
    BY DEF TypeOK
  <2>3. /\ k \in Nat /\ DOMAIN s = 1..k /\ DOMAIN t = 1..(k + 1)
        /\ \A n \in 1..k : t[n] = s[n]
        /\ t[k + 1] = sending
    BY <2>2
  <2>4. /\ Waits(v, msg)' = {n \in DOMAIN t : t[n] = msg}
        /\ Waits(v, msg) = {n \in DOMAIN s : s[n] = msg}
    BY <2>1 DEF Waits
  <2> HIDE DEF s, t, k
  <2>5. {n \in 1..(k + 1) : t[n] = msg} =
          IF msg = sending THEN {n \in 1..k : s[n] = msg} \cup {k + 1}
                           ELSE {n \in 1..k : s[n] = msg}
    BY <2>3
  <2> QED
    BY <1>3, <2>3, <2>4, <2>5 DEF k, s
<1> QED
  BY <1>2, <1>3

-----------------------------------------------------------------------------
(***************************************************************************)
(* Every request is in one place.  Most steps move no request; the others  *)
(* move one, or all of those behind the first message of a worker.         *)
(***************************************************************************)
LEMMA NotMoved ==
  ASSUME NEW r,
         \A w \in Workers : /\ r \in inHand'[w] <=> r \in inHand[w]
                           /\ Waits(w, Reply(r))' = Waits(w, Reply(r)),
         r \in front' <=> r \in front, r \in answered' <=> r \in answered,
         r \in refused' <=> r \in refused, r \in lost' <=> r \in lost
  PROVE  Places(r)' = Places(r)
<1>1. ASSUME NEW place PROVE place \in Places(r)' <=> place \in Places(r)
  BY PlacesOf, PlacesNext
<1> QED
  BY <1>1

LEMMA NothingMoved ==
  ASSUME Conserved, UNCHANGED <<inHand, front, back, sent, answered, refused, lost>>
  PROVE  Conserved'
<1>1. ASSUME NEW r PROVE Places(r)' = Places(r)
  BY DEF Places, Waits, Ends, Reply
<1> QED
  BY <1>1 DEF Conserved

\* One request goes from one place to another.
LEMMA OneMoved ==
  ASSUME Conserved, sent' = sent, NEW q \in sent, NEW p, Places(q)' = {p},
         \A r \in Requests \ {q} : Places(r)' = Places(r)
  PROVE  Conserved'
  BY DEF Conserved

LEMMA ControlSentConserved ==
  ASSUME TypeOK, Conserved, NEW w \in Workers, NEW msg \in Messages, msg.kind # "reply",
         SendToBackend(w, msg), UNCHANGED <<inHand, front, sent, answered, refused, lost>>
  PROVE  Conserved'
<1>1. ASSUME NEW r PROVE Places(r)' = Places(r)
  <2>1. msg # Reply(r)
    BY DEF Reply
  <2>2. \A v \in Workers : Waits(v, Reply(r))' = Waits(v, Reply(r))
    BY <2>1, WaitsAfterSend
  <2> QED
    BY <2>2, NotMoved
<1> QED
  BY <1>1 DEF Conserved

LEMMA WorkerReplyConserved ==
  ASSUME TypeOK, Conserved, NEW w \in Workers, WorkerReply(w)
  PROVE  Conserved'
<1> PICK q \in inHand[w] :
      /\ SendToBackend(w, Reply(q))
      /\ inHand' = [inHand EXCEPT ![w] = @ \ {q}]
  BY DEF WorkerReply
<1>1. UNCHANGED <<front, sent, answered, refused, lost>>
  BY DEF WorkerReply, proxyVars
<1>2. q \in sent /\ q \in Requests
  BY DEF TypeOK
<1>4. Reply(q) \in Messages
  BY <1>2, MessagesSent
<1>5. \A v \in Workers : inHand'[v] = IF v = w THEN inHand[v] \ {q} ELSE inHand[v]
  BY DEF TypeOK
<1>6. ASSUME NEW k, k = Len(back[w]) + 1 PROVE Places(q)' = {<<"back", w, k>>}
  <2>1. /\ \A v \in Workers : Waits(v, Reply(q)) = {} /\ (q \in inHand[v] => v = w)
        /\ q \notin front /\ q \notin answered /\ q \notin refused /\ q \notin lost
    BY <1>2, OnlyInHand
  <2>2. \A v \in Workers : Waits(v, Reply(q))' = IF v = w THEN {k} ELSE {}
    BY <1>4, <1>6, <2>1, WaitsAfterSend
  <2>3. \A v \in Workers : q \notin inHand'[v]
    BY <1>5, <2>1
  <2>4. q \notin front' /\ q \notin answered' /\ q \notin refused' /\ q \notin lost'
    BY <1>1, <2>1
  <2>5. ASSUME NEW p PROVE p \in Places(q)' <=> p = <<"back", w, k>>
    BY <2>2, <2>3, <2>4, PlacesNext
  <2> QED
    BY <2>5
<1>7. ASSUME NEW r \in Requests \ {q} PROVE Places(r)' = Places(r)
  <2>1. \A v \in Workers : Waits(v, Reply(r))' = Waits(v, Reply(r))
    <3>1. Reply(r) # Reply(q)
      BY DEF Reply
    <3> QED
      BY <1>4, <3>1, WaitsAfterSend
  <2> QED
    BY <1>1, <1>5, <2>1, NotMoved
<1> QED
  BY <1>1, <1>2, <1>6, <1>7, OneMoved

\* A message goes that is not the reply to r: r stays, or its reply moves up.
LEMMA TailMoves ==
  ASSUME TypeOK, Conserved, NEW w \in Waiting, back' = [back EXCEPT ![w] = Tail(@)],
         NEW r \in Requests, Head(back[w]) # Reply(r),
         UNCHANGED <<inHand, front, refused, lost>>, r \in answered' <=> r \in answered
  PROVE  /\ r \in sent => \E place \in Places(r)' : Places(r)' = {place}
         /\ r \notin sent => Places(r)' = {}
<1>1. CASE \A v \in Workers : Waits(v, Reply(r)) = {}
  <2>1. \A v \in Workers : Waits(v, Reply(r))' = Waits(v, Reply(r))
    BY <1>1, WaitsAfterTail
  <2>2. Places(r)' = Places(r)
    BY <2>1, NotMoved
  <2> QED
    BY <2>2 DEF Conserved
<1>2. ASSUME NEW v \in Workers, NEW n \in Waits(v, Reply(r)), v # w
      PROVE  r \in sent /\ Places(r)' = {<<"back", v, n>>}
  <2>1. Places(r) = {<<"back", v, n>>}
    BY <1>2, OnlyInBack
  <2>2. Waits(w, Reply(r)) = {}
    BY <1>2, OnlyInBack, FirstMessage
  <2>3. \A u \in Workers : Waits(u, Reply(r))' = Waits(u, Reply(r))
    <3>1. Waits(w, Reply(r))' = {}
      <4>1. \A x : x \notin Waits(w, Reply(r))'
        BY <2>2, FirstMessage, WaitsAfterTail
      <4> QED
        BY <4>1
    <3>2. \A u \in Workers : u # w => Waits(u, Reply(r))' = Waits(u, Reply(r))
      BY WaitsAfterTail
    <3> QED
      BY <2>2, <3>1, <3>2
  <2>4. Places(r)' = Places(r)
    BY <2>3, NotMoved
  <2> QED
    BY <2>1, <2>4, OnePlace
<1>3. ASSUME NEW n \in Waits(w, Reply(r)), NEW k, k = n - 1
      PROVE  r \in sent /\ Places(r)' = {<<"back", w, k>>}
  <2>1. /\ w \in Workers /\ Len(back[w]) \in Nat /\ n \in 1..Len(back[w])
        /\ back[w][n] = Reply(r) /\ n # 1
    BY FirstMessage DEF Waits
  <2>2. /\ Places(r) = {<<"back", w, n>>}
        /\ \A u \in Workers : /\ r \notin inHand[u]
                             /\ Waits(u, Reply(r)) = IF u = w THEN {n} ELSE {}
        /\ r \notin front /\ r \notin answered /\ r \notin refused /\ r \notin lost
    BY <2>1, OnlyInBack
  <2>3. ASSUME NEW u \in Workers, u # w PROVE Waits(u, Reply(r))' = {}
    BY <2>2, <2>3, WaitsAfterTail
  <2>4. Waits(w, Reply(r))' = {k}
    <3>1. ASSUME NEW m PROVE m \in Waits(w, Reply(r))' <=> m \in Nat \ {0} /\ m + 1 = n
      BY <2>1, <2>2, WaitsAfterTail
    <3> QED
      BY <1>3, <2>1, <3>1
  <2>5. r \notin answered' /\ \A u \in Workers : r \notin inHand'[u]
    BY <2>2
  <2>6. ASSUME NEW p PROVE p \in Places(r)' <=> p = <<"back", w, k>>
    BY <2>1, <2>2, <2>3, <2>4, <2>5, PlacesNext
  <2> QED
    BY <2>2, <2>6, OnePlace
<1> QED
  BY <1>1, <1>2, <1>3, FirstMessage

LEMMA RecvBackendConserved == TypeOK /\ Conserved /\ RecvBackend => Conserved'
<1> SUFFICES ASSUME TypeOK, Conserved, RecvBackend PROVE Conserved'
  OBVIOUS
<1> PICK w \in Waiting :
      /\ ControlMessage(w, Head(back[w])) \/ ReplyMessage(w, Head(back[w]))
      /\ back' = [back EXCEPT ![w] = Tail(@)]
  BY DEF RecvBackend
<1> DEFINE msg == Head(back[w])
<1>1. UNCHANGED <<inHand, front>>
  BY DEF RecvBackend, workerVars
<1>2. CASE ControlMessage(w, msg)
  <2>1. \A r \in Requests : msg # Reply(r)
    <3>1. msg.kind # "reply"
      BY <1>2 DEF ControlMessage
    <3> HIDE DEF msg
    <3> QED
      BY <3>1 DEF Reply
  <2>2. UNCHANGED <<sent, answered, refused, lost>>
    BY <1>2 DEF ControlMessage, proxyVars
  <2> HIDE DEF msg
  <2> QED
    BY <1>1, <2>1, <2>2, TailMoves DEF Conserved, msg
<1>3. CASE ReplyMessage(w, msg)
  <2> PICK q \in Requests : msg = Reply(q)
    BY <1>3, FirstMessage DEF ReplyMessage, Messages, Reply
  <2>1. q \in Requests /\ msg.arg = q
    BY DEF Reply
  <2>2. answered' = answered \cup {q} /\ UNCHANGED <<sent, refused, lost>>
    BY <1>3, <2>1 DEF ReplyMessage
  <2>3. w \in Workers /\ 1 \in Waits(w, Reply(q))
    BY FirstMessage DEF Waits
  <2> HIDE DEF msg
  <2>4. /\ Places(q) = {<<"back", w, 1>>}
        /\ \A v \in Workers : /\ q \notin inHand[v]
                             /\ Waits(v, Reply(q)) = IF v = w THEN {1} ELSE {}
        /\ q \notin front /\ q \notin answered /\ q \notin refused /\ q \notin lost
    BY <2>1, <2>3, OnlyInBack
  <2>5. ASSUME NEW v \in Workers, v # w PROVE Waits(v, Reply(q))' = {}
    BY <2>4, <2>5, WaitsAfterTail
  <2>6. Waits(w, Reply(q))' = {}
    <3>1. Waits(w, Reply(q)) = {1}
      BY <2>3, <2>4
    <3>2. \A x : x \in Waits(w, Reply(q))' <=> x \in Nat \ {0} /\ x + 1 \in Waits(w, Reply(q))
      BY <2>3, WaitsAfterTail
    <3> QED
      BY <3>1, <3>2
  <2>7. /\ \A v \in Workers : q \notin inHand'[v]
        /\ q \notin front' /\ q \in answered' /\ q \notin refused' /\ q \notin lost'
    BY <1>1, <2>2, <2>4
  <2>8. ASSUME NEW p PROVE p \in Places(q)' <=> p = <<"answered", None, 0>>
    BY <2>5, <2>6, <2>7, PlacesNext
  <2>9. q \in sent /\ Places(q)' = {<<"answered", None, 0>>}
    BY <2>1, <2>4, <2>8, OnePlace
  <2>10. ASSUME NEW r \in Requests, r # q
         PROVE  /\ r \in sent => \E place \in Places(r)' : Places(r)' = {place}
                /\ r \notin sent => Places(r)' = {}
    <3>1. Head(back[w]) # Reply(r)
      BY <2>1, <2>10 DEF msg, Reply
    <3>2. r \in answered' <=> r \in answered
      BY <2>2, <2>10
    <3> QED
      BY <1>1, <2>2, <3>1, <3>2, TailMoves
  <2> QED
    BY <2>2, <2>9, <2>10 DEF Conserved
<1> QED
  BY <1>2, <1>3

\* back is the same: so is what waits there.
LEMMA SameWaits == back' = back => \A w \in Workers : \A msg : Waits(w, msg)' = Waits(w, msg)
  BY DEF Waits

LEMMA RecvFrontendConserved == TypeOK /\ Conserved /\ RecvFrontend => Conserved'
<1> SUFFICES ASSUME TypeOK, Conserved, RecvFrontend PROVE Conserved'
  OBVIOUS
<1> PICK q \in front :
      /\ front' = front \ {q}
      /\ Pool!NextWorker
      /\ \/ handed' # None /\ SendToWorker(handed', q) /\ UNCHANGED refused
         \/ handed' = None /\ refused' = refused \cup {q} /\ UNCHANGED <<inHand, age, lost>>
  BY DEF RecvFrontend
<1>1. back' = back /\ sent' = sent /\ answered' = answered
  BY DEF RecvFrontend
<1>2. q \in sent /\ q \in Requests
  BY DEF TypeOK
<1>3. /\ \A v \in Workers : Waits(v, Reply(q))' = {} /\ q \notin inHand[v]
      /\ q \notin front' /\ q \notin answered' /\ q \notin refused /\ q \notin lost
  BY <1>1, <1>2, OnlyInFront, SameWaits
<1>4. CASE handed' = None /\ refused' = refused \cup {q} /\ UNCHANGED <<inHand, lost>>
  <2>1. ASSUME NEW p PROVE p \in Places(q)' <=> p = <<"refused", None, 0>>
    BY <1>3, <1>4, PlacesNext
  <2>2. Places(q)' = {<<"refused", None, 0>>}
    BY <2>1
  <2>3. \A r \in Requests \ {q} : Places(r)' = Places(r)
    BY <1>1, <1>4, SameWaits, NotMoved
  <2> QED
    BY <1>1, <1>2, <2>2, <2>3, OneMoved
<1>5. ASSUME NEW w \in Workers, SendToWorker(w, q), UNCHANGED refused
      PROVE  Conserved'
  <2>1. CASE lost' = lost \cup {q} /\ UNCHANGED inHand
    <3>1. ASSUME NEW p PROVE p \in Places(q)' <=> p = <<"lost", None, 0>>
      BY <1>3, <1>5, <2>1, PlacesNext
    <3>2. Places(q)' = {<<"lost", None, 0>>}
      BY <3>1
    <3>3. \A r \in Requests \ {q} : Places(r)' = Places(r)
      BY <1>1, <1>5, <2>1, SameWaits, NotMoved
    <3> QED
      BY <1>1, <1>2, <3>2, <3>3, OneMoved
  <2>2. CASE inHand' = [inHand EXCEPT ![w] = @ \cup {q}] /\ UNCHANGED lost
    <3>1. \A v \in Workers : inHand'[v] = IF v = w THEN inHand[v] \cup {q} ELSE inHand[v]
      BY <2>2 DEF TypeOK
    <3>2. \A v \in Workers : q \in inHand'[v] <=> v = w
      BY <1>3, <3>1
    <3>3. ASSUME NEW p PROVE p \in Places(q)' <=> p = <<"inHand", w, 0>>
      BY <1>3, <1>5, <2>2, <3>2, PlacesNext
    <3>4. Places(q)' = {<<"inHand", w, 0>>}
      BY <3>3
    <3>5. \A r \in Requests \ {q} : Places(r)' = Places(r)
      BY <1>1, <1>5, <2>2, <3>1, SameWaits, NotMoved
    <3> QED
      BY <1>1, <1>2, <3>4, <3>5, OneMoved
  <2> QED
    BY <1>5, <2>1, <2>2 DEF SendToWorker
<1>6. handed' # None => handed' \in Workers
  BY NextWorkerTypes DEF TypeOK, Pool!TypeOK
<1>7. CASE handed' # None /\ SendToWorker(handed', q) /\ UNCHANGED refused
  <2>1. \A w \in Workers : w = handed' => SendToWorker(w, q)
    BY <1>7
  <2> QED
    BY <1>5, <1>6, <1>7
<1> QED
  BY <1>4, <1>7

LEMMA WorkerCrashConserved ==
  ASSUME TypeOK, Conserved, NEW w \in Workers, WorkerCrash(w)
  PROVE  Conserved'
<1>1. /\ lost' = lost \cup inHand[w]
      /\ \A v \in Workers : inHand'[v] = IF v = w THEN {} ELSE inHand[v]
      /\ UNCHANGED <<front, back, sent, answered, refused>>
  BY DEF WorkerCrash, TypeOK
<1>2. ASSUME NEW r \in Requests, r \in inHand[w]
      PROVE  r \in sent /\ Places(r)' = {<<"lost", None, 0>>}
  <2>1. /\ Places(r) = {<<"inHand", w, 0>>}
        /\ \A v \in Workers : Waits(v, Reply(r)) = {} /\ (r \in inHand[v] => v = w)
        /\ r \notin front /\ r \notin answered /\ r \notin refused /\ r \notin lost
    BY <1>2, OnlyInHand
  <2>2. /\ \A v \in Workers : Waits(v, Reply(r))' = {} /\ r \notin inHand'[v]
        /\ r \notin front' /\ r \notin answered' /\ r \notin refused' /\ r \in lost'
    BY <1>1, <1>2, <2>1, SameWaits
  <2>3. ASSUME NEW p PROVE p \in Places(r)' <=> p = <<"lost", None, 0>>
    BY <2>2, PlacesNext
  <2>4. Places(r)' = {<<"lost", None, 0>>}
    BY <2>3
  <2> QED
    BY <1>2, <2>4 DEF TypeOK
<1>3. ASSUME NEW r \in Requests, r \notin inHand[w] PROVE Places(r)' = Places(r)
  BY <1>1, <1>3, SameWaits, NotMoved
<1> QED
  BY <1>1, <1>2, <1>3 DEF Conserved

LEMMA ProxySendConserved ==
  ASSUME TypeOK, Conserved, NEW q \in Requests, ProxySend(q)
  PROVE  Conserved'
<1>1. /\ q \notin sent /\ sent' = sent \cup {q} /\ front' = front \cup {q}
      /\ UNCHANGED <<inHand, back, answered, refused, lost>>
  BY DEF ProxySend, workerVars
<1>2. Places(q) = {}
  BY <1>1 DEF Conserved
<1>3. /\ \A w \in Workers : q \notin inHand[w] /\ Waits(w, Reply(q)) = {}
      /\ q \notin answered /\ q \notin refused /\ q \notin lost
  BY <1>2, InPlaces
<1>4. \A w \in Workers : q \notin inHand'[w] /\ Waits(w, Reply(q))' = {}
  BY <1>1, <1>3, SameWaits
<1>5. ASSUME NEW p PROVE p \in Places(q)' <=> p = <<"front", None, 0>>
  BY <1>1, <1>3, <1>4, PlacesNext
<1>6. Places(q)' = {<<"front", None, 0>>}
  BY <1>5
<1>7. \A r \in Requests \ {q} : Places(r)' = Places(r)
  BY <1>1, SameWaits, NotMoved
<1> QED
  BY <1>1, <1>6, <1>7 DEF Conserved

LEMMA ConservedKept ==
  ASSUME TypeOK, Conserved, \A w \in Workers : IsFiniteSet(inHand[w]), Next
  PROVE  Conserved'
<1> USE DEF workerVars, proxyVars
<1>1. ASSUME NEW w \in Workers, WorkerReady(w) \/ WorkerHeartbeat(w) \/ WorkerStop(w)
      PROVE  Conserved'
  <2>1. UNCHANGED <<inHand, front, sent, answered, refused, lost>>
    BY <1>1 DEF WorkerReady, WorkerHeartbeat, WorkerStop
  <2>2. \E msg \in Messages : msg.kind # "reply" /\ SendToBackend(w, msg)
    <3>1. \A kind, c : kind # "reply" => Control(kind, c).kind # "reply"
      BY DEF Control
    <3> QED
      BY <1>1, <3>1, MessagesSent, LeftInRange DEF WorkerReady, WorkerHeartbeat, WorkerStop
  <2> QED
    BY <2>1, <2>2, ControlSentConserved
<1>2. CASE UNCHANGED <<inHand, front, back, sent, answered, refused, lost>>
  BY <1>2, NothingMoved
<1> QED
  BY <1>1, <1>2, RecvBackendConserved, RecvFrontendConserved, WorkerReplyConserved,
     WorkerCrashConserved, ProxySendConserved
     DEF Next, Loop, Poll, RecvFails, Check, SelectHeartbeat, SelectSignal, SelectDefault,
         WorkerLeave, Signal, Tick

-----------------------------------------------------------------------------
(***************************************************************************)
(* Stopping.                                                               *)
(***************************************************************************)
StoppingWorker(w) == process[w] = "stopping" => StopAhead(w) \/ Out(w)

\* A message taken from w: its STOP moves up, or it is handled.
LEMMA StoppingReceived ==
  ASSUME TypeOK, Stopping, RecvBackend, NEW v \in Workers
  PROVE  StoppingWorker(v)'
<1> PICK w \in Waiting :
      /\ ControlMessage(w, Head(back[w])) \/ ReplyMessage(w, Head(back[w]))
      /\ back' = [back EXCEPT ![w] = Tail(@)]
  BY DEF RecvBackend
<1> DEFINE msg == Head(back[w])
<1>1. process' = process
  BY DEF RecvBackend, workerVars
<1>2. /\ w \in Workers /\ Len(back[w]) \in Nat \ {0}
      /\ msg = back[w][1] /\ msg \in Messages
      /\ DOMAIN back[w] = 1..Len(back[w]) /\ DOMAIN back'[w] = 1..(Len(back[w]) - 1)
      /\ \A n \in 1..(Len(back[w]) - 1) : back'[w][n] = back[w][n + 1]
  <2>1. back'[w] = Tail(back[w]) /\ w \in Workers
    BY FirstMessage DEF TypeOK
  <2> QED
    BY <2>1, FirstMessage, LenProperties
<1>3. /\ registered' \subseteq registered \cup {w}
      /\ ~IsReady(msg) => registered' \subseteq registered
      /\ msg.kind = "STOP" => w \notin registered'
  <2>0. /\ Pool!TypeOK /\ FALSE \in BOOLEAN /\ TRUE \in BOOLEAN
        /\ 0 \in (-1)..MaxConcurrency /\ -1 \in (-1)..MaxConcurrency
    BY LoadBalancerAssumption DEF TypeOK
  <2>1. CASE msg.kind = "reply" /\ Pool!UpdateWorkerStatus(w, 0, FALSE)
    <3>1. registered' \subseteq registered
      BY <1>2, <2>0, <2>1, UpdateTypes, Zenon
    <3> QED
      BY <2>1, <3>1
  <2>2. CASE msg.kind = "STOP" /\ Pool!UpdateWorkerStatus(w, -1, TRUE)
    <3>1. registered' \subseteq registered \cup {w} /\ w \notin registered'
      BY <1>2, <2>0, <2>2, UpdateTypes, Zenon
    <3> QED
      BY <2>2, <3>1
  <2>3. CASE msg.kind = "READY" /\ Pool!UpdateWorkerStatus(w, msg.arg, TRUE)
    <3>1. msg.arg \in (-1)..MaxConcurrency
      BY <1>2, <2>3, LoadBalancerAssumption DEF Messages
    <3>2. registered' \subseteq registered \cup {w}
      BY <1>2, <2>0, <2>3, <3>1, UpdateTypes, Zenon
    <3> QED
      BY <2>3, <3>2 DEF IsReady
  <2>4. CASE msg.kind = "HEARTBEAT" /\ Pool!UpdateWorkerStatus(w, msg.arg, FALSE)
    <3>1. msg.arg \in (-1)..MaxConcurrency
      BY <1>2, <2>4, LoadBalancerAssumption DEF Messages
    <3>2. registered' \subseteq registered
      BY <1>2, <2>0, <2>4, <3>1, UpdateTypes, Zenon
    <3> QED
      BY <2>4, <3>2
  <2> QED
    BY <2>1, <2>2, <2>3, <2>4 DEF ControlMessage, ReplyMessage, Pool!SERVICE_STOP
<1>4. CASE v # w
  <2>1. back'[v] = back[v]
    BY <1>4 DEF TypeOK
  <2>2. v \in registered' => v \in registered
    BY <1>3, <1>4
  <2>3. StopAhead(v) => StopAhead(v)'
    BY <2>1 DEF StopAhead, Waits, Control, IsReady
  <2>4. Out(v) => Out(v)'
    BY <2>1, <2>2 DEF Out, IsReady
  <2> QED
    BY <1>1, <2>3, <2>4 DEF Stopping, StoppingWorker
<1> HIDE DEF msg
<1>5. CASE v = w /\ process[w] = "stopping" /\ Out(w)
  <2>1. ~IsReady(msg) /\ \A n \in DOMAIN back'[w] : ~IsReady(back'[w][n])
    BY <1>2, <1>5 DEF Out, IsReady
  <2>2. w \notin registered'
    BY <1>3, <1>5, <2>1 DEF Out
  <2> QED
    BY <1>5, <2>1, <2>2 DEF StoppingWorker, Out, IsReady
<1>6. CASE v = w /\ process[w] = "stopping" /\ StopAhead(w)
  <2> PICK n \in Waits(w, Control("STOP", 0)) :
         \A m \in DOMAIN back[w] : m > n => ~IsReady(back[w][m])
    BY <1>6 DEF StopAhead
  <2>1. n \in 1..Len(back[w]) /\ back[w][n] = Control("STOP", 0)
    BY <1>2 DEF Waits
  <2>2. CASE n = 1
    <3>1. w \notin registered'
      BY <1>2, <1>3, <2>1, <2>2 DEF Control
    <3>2. \A m \in DOMAIN back'[w] : ~IsReady(back'[w][m])
      BY <1>2, <2>2 DEF IsReady
    <3> QED
      BY <1>6, <3>1, <3>2 DEF StoppingWorker, Out, IsReady
  <2>3. ASSUME n # 1, NEW k, k = n - 1 PROVE StoppingWorker(v)'
    <3>1. k \in DOMAIN back'[w] /\ back'[w][k] = Control("STOP", 0)
      BY <1>2, <2>1, <2>3
    <3>2. ASSUME NEW m \in DOMAIN back'[w], m > k PROVE ~IsReady(back'[w][m])
      <4>1. m \in 1..(Len(back[w]) - 1) /\ m + 1 \in DOMAIN back[w] /\ m + 1 > n
        BY <1>2, <2>1, <2>3, <3>2
      <4>2. back'[w][m] = back[w][m + 1] /\ ~IsReady(back[w][m + 1])
        BY <1>2, <4>1
      <4> QED
        BY <4>2 DEF IsReady
    <3> QED
      BY <1>6, <3>1, <3>2 DEF StoppingWorker, StopAhead, Waits, Control, IsReady
  <2> QED
    BY <2>2, <2>3
<1> QED
  BY <1>1, <1>4, <1>5, <1>6 DEF Stopping, StoppingWorker

\* A worker that is not told to stop leaves the loop's view of the others alone.
LEMMA StoppingSent ==
  ASSUME TypeOK, Stopping, NEW w \in Workers, NEW sending \in Messages,
         SendToBackend(w, sending), registered' = registered,
         sending.kind = "READY" => process'[w] # "stopping",
         process'[w] = "stopping" => process[w] = "stopping" \/ sending = Control("STOP", 0),
         \A v \in Workers \ {w} : process'[v] = process[v]
  PROVE  Stopping'
<1>1. \A v \in Workers : back'[v] = IF v = w THEN Append(back[w], sending) ELSE back[v]
  BY DEF SendToBackend, TypeOK
<1>2. ASSUME NEW v \in Workers, v # w PROVE StoppingWorker(v)'
  <2>1. back'[v] = back[v] /\ process'[v] = process[v]
    BY <1>1, <1>2
  <2>2. StopAhead(v) => StopAhead(v)'
    BY <2>1 DEF StopAhead, Waits, Control, IsReady
  <2>3. Out(v) => Out(v)'
    BY <2>1 DEF Out, IsReady
  <2> QED
    BY <2>1, <2>2, <2>3 DEF Stopping, StoppingWorker
<1>3. ASSUME process'[w] = "stopping" PROVE StoppingWorker(w)'
  <2>1. back[w] \in Seq(Messages)
    BY DEF TypeOK
  <2> DEFINE s == back[w]
             t == Append(s, sending)
             k == Len(s)
  <2>2. /\ k \in Nat /\ DOMAIN s = 1..k /\ DOMAIN t = 1..(k + 1)
        /\ \A n \in 1..k : t[n] = s[n]
        /\ t[k + 1] = sending
    BY <2>1
  <2>3. back'[w] = t
    BY <1>1
  <2>4. ~IsReady(sending)
    BY <1>3 DEF IsReady
  <2> HIDE DEF s, t, k
  <2>5. CASE sending = Control("STOP", 0)
    <3>1. ASSUME NEW n, n = k + 1 PROVE StopAhead(w)'
      <4>1. n \in DOMAIN back'[w] /\ back'[w][n] = Control("STOP", 0)
        BY <2>2, <2>3, <2>5, <3>1
      <4>2. \A m \in DOMAIN back'[w] : ~(m > n)
        BY <2>2, <2>3, <3>1
      <4> QED
        BY <4>1, <4>2 DEF StopAhead, Waits, Control
    <3> QED
      BY <3>1 DEF StoppingWorker
  <2>6. CASE process[w] = "stopping" /\ StopAhead(w)
    <3> PICK n \in Waits(w, Control("STOP", 0)) :
          \A m \in DOMAIN s : m > n => ~IsReady(s[m])
      BY <2>6 DEF StopAhead, s
    <3>1. n \in 1..k /\ s[n] = Control("STOP", 0)
      BY <2>2 DEF Waits, s
    <3>2. n \in DOMAIN back'[w] /\ back'[w][n] = Control("STOP", 0)
      BY <2>2, <2>3, <3>1
    <3>3. \A m \in DOMAIN back'[w] : m > n => ~IsReady(back'[w][m])
      BY <2>2, <2>3, <2>4 DEF IsReady
    <3>4. StopAhead(w)'
      BY <3>2, <3>3 DEF StopAhead, Waits, Control, IsReady
    <3> QED
      BY <3>4 DEF StoppingWorker
  <2>7. CASE process[w] = "stopping" /\ Out(w)
    <3>1. \A m \in DOMAIN s : ~IsReady(s[m])
      BY <2>7 DEF Out, s
    <3>2. \A m \in DOMAIN back'[w] : ~IsReady(back'[w][m])
      BY <2>2, <2>3, <2>4, <3>1 DEF IsReady
    <3> QED
      BY <2>7, <3>2 DEF Out, StoppingWorker, IsReady
  <2> QED
    BY <1>3, <2>5, <2>6, <2>7 DEF Stopping
<1> QED
  BY <1>2, <1>3 DEF Stopping, StoppingWorker

\* Fewer workers stop, and none is let in.
LEMMA StoppingSame ==
  ASSUME Stopping, back' = back, registered' \subseteq registered,
         \A w \in Workers : process'[w] = "stopping" => process[w] = "stopping"
  PROVE  Stopping'
<1>1. ASSUME NEW w \in Workers PROVE StoppingWorker(w)'
  <2>1. StopAhead(w) => StopAhead(w)'
    BY DEF StopAhead, Waits, Control, IsReady
  <2>2. Out(w) => Out(w)'
    BY DEF Out, IsReady
  <2> QED
    BY <2>1, <2>2 DEF Stopping, StoppingWorker
<1> QED
  BY <1>1 DEF Stopping, StoppingWorker

LEMMA StoppingKept ==
  ASSUME TypeOK, Stopping, \A w \in Workers : IsFiniteSet(inHand[w]), Next
  PROVE  Stopping'
<1> USE DEF poolVars, workerVars
<1>1. CASE RecvBackend
  BY <1>1, StoppingReceived DEF Stopping, StoppingWorker
<1>2. ASSUME NEW w \in Workers, WorkerReady(w) PROVE Stopping'
  <2>1. process'[w] = "up" /\ \A v \in Workers \ {w} : process'[v] = process[v]
    BY <1>2 DEF WorkerReady, TypeOK
  <2> QED
    BY <1>2, <2>1, MessagesSent, StoppingSent DEF WorkerReady
<1>3. ASSUME NEW w \in Workers, WorkerHeartbeat(w) PROVE Stopping'
  BY <1>3, MessagesSent, LeftInRange, StoppingSent DEF WorkerHeartbeat, Control
<1>4. ASSUME NEW w \in Workers, WorkerReply(w) PROVE Stopping'
  <2> PICK r \in inHand[w] : SendToBackend(w, Reply(r))
    BY <1>4 DEF WorkerReply
  <2>1. Reply(r) \in Messages /\ Reply(r).kind # "READY"
    BY MessagesSent DEF TypeOK, Reply
  <2> QED
    BY <1>4, <2>1, StoppingSent DEF WorkerReply
<1>5. ASSUME NEW w \in Workers, WorkerStop(w) PROVE Stopping'
  <2>1. \A v \in Workers \ {w} : process'[v] = process[v]
    BY <1>5 DEF WorkerStop, TypeOK
  <2>2. Control("STOP", 0).kind # "READY"
    BY DEF Control
  <2> QED
    BY <1>5, <2>1, <2>2, MessagesSent, StoppingSent DEF WorkerStop
<1>6. ASSUME NEW w \in Workers, WorkerLeave(w) \/ WorkerCrash(w) PROVE Stopping'
  <2>1. \A v \in Workers : process'[v] = "stopping" => process[v] = "stopping"
    BY <1>6 DEF WorkerLeave, WorkerCrash, TypeOK
  <2> QED
    BY <1>6, <2>1, StoppingSame DEF WorkerLeave, WorkerCrash
<1>7. CASE RecvFrontend
  <2>1. registered' = registered
    BY <1>7, NextWorkerTypes DEF RecvFrontend, TypeOK
  <2> QED
    BY <1>7, <2>1, StoppingSame DEF RecvFrontend
<1>8. CASE SelectHeartbeat
  <2>1. registered' \subseteq registered
    BY <1>8, PurgeTypes DEF SelectHeartbeat, TypeOK
  <2> QED
    BY <1>8, <2>1, StoppingSame DEF SelectHeartbeat
<1>9. CASE Tick
  <2>1. registered' = registered
    BY <1>9, TickTypes DEF Tick, TypeOK
  <2> QED
    BY <1>9, <2>1, StoppingSame DEF Tick
<1>10. CASE UNCHANGED <<registered, back, process>>
  BY <1>10, StoppingSame
<1> QED
  BY <1>1, <1>2, <1>3, <1>4, <1>5, <1>6, <1>7, <1>8, <1>9, <1>10
     DEF Next, Loop, Poll, RecvFails, Check, SelectSignal, SelectDefault, ProxySend, Signal

-----------------------------------------------------------------------------
(***************************************************************************)
(* The exit.                                                               *)
(***************************************************************************)
KeepsUp == WithinGrace /\ ~isAlive /\ ~late

\* By the time the grace has run out, every proxy has heard.
LEMMA DelistedByThen ==
  ASSUME TypeOK, Exiting, KeepsUp, grace < 0
  PROVE  delisted = Notice /\ NothingLeft
<1>1. GraceSpent /\ Notice <= Grace + 1
  BY DEF Exiting, KeepsUp, WithinGrace
<1>2. grace = -1 /\ delisted \in (-1)..Notice
  BY LoadBalancerAssumption DEF TypeOK
<1> QED
  BY <1>1, <1>2, LoadBalancerAssumption DEF GraceSpent

\* A step that lets the grace and the clock alone, sends out no request
\* unseen by the loop, and leaves nothing where nothing was.
LEMMA ExitingSame ==
  ASSUME TypeOK, Exiting, UNCHANGED <<isAlive, grace, delisted, late>>,
         pc' = "exited" => pc = "exited",
         pc = "recv" /\ valid => pc' = "recv" /\ valid',
         KeepsUp /\ grace < 0 => NothingLeft',
         (pc' = "recv" /\ valid') \/ \A r \in InHand' : r \in InHand /\ age'[r] = age[r]
  PROVE  Exiting'
<1>1. (pc = "exited" => ~isAlive /\ grace < 0)'
  BY DEF Exiting
<1>2. ASSUME KeepsUp PROVE GraceSpent'
  <2>1. GraceSpent
    BY <1>2 DEF Exiting, KeepsUp
  <2>2. CASE grace < 0
    BY <1>2, <2>1, <2>2 DEF GraceSpent
  <2>3. CASE ~(grace < 0)
    BY <2>1, <2>3 DEF GraceSpent
  <2> QED
    BY <2>2, <2>3
<1> QED
  BY <1>1, <1>2 DEF Exiting, KeepsUp, WithinGrace

LEMMA RecvBackendExiting ==
  ASSUME TypeOK, Exiting, RecvBackend
  PROVE  Exiting'
<1> PICK w \in Waiting :
      /\ ControlMessage(w, Head(back[w])) \/ ReplyMessage(w, Head(back[w]))
      /\ back' = [back EXCEPT ![w] = Tail(@)]
  BY DEF RecvBackend
<1>1. UNCHANGED <<isAlive, grace, delisted, late, pc, front, inHand, age>>
  BY DEF RecvBackend, exitVars, workerVars
<1>2. valid => valid'
  BY Zenon DEF ControlMessage, ReplyMessage
<1>3. InHand' = InHand
  BY <1>1 DEF InHand
<1>4. ASSUME NothingLeft PROVE NothingLeft'
  <2>1. ASSUME NEW v \in Workers, NEW r \in Requests PROVE Waits(v, Reply(r))' = {}
    <3>1. Waits(v, Reply(r)) = {}
      BY <1>4 DEF NothingLeft
    <3>2. \A n : n \notin Waits(v, Reply(r))'
      BY <3>1, WaitsAfterTail
    <3> QED
      BY <3>2
  <2> QED
    BY <1>1, <1>3, <1>4, <2>1 DEF NothingLeft
<1> QED
  BY <1>1, <1>2, <1>3, <1>4, ExitingSame, DelistedByThen

LEMMA CheckExiting ==
  ASSUME TypeOK, Exiting, Check
  PROVE  Exiting'
<1>1. /\ pc = "recv" /\ pc' = (IF ~isAlive /\ ~valid /\ grace < 0 THEN "exited" ELSE "select")
      /\ grace' = (IF ~isAlive /\ valid THEN Grace ELSE grace)
      /\ UNCHANGED <<isAlive, delisted, late, front, back, inHand, age>>
  BY DEF Check, workerVars
<1>2. InHand' = InHand /\ NothingLeft' = NothingLeft
  BY <1>1 DEF InHand, NothingLeft, Waits, Reply
<1>3. (pc = "exited" => ~isAlive /\ grace < 0)'
  BY <1>1
<1>4. ASSUME KeepsUp PROVE GraceSpent'
  <2>1. GraceSpent
    BY <1>4 DEF Exiting, KeepsUp
  <2>2. CASE valid
    <3>1. grace' = Grace /\ Grace \in Nat /\ ~(grace' < 0)
      BY <1>1, <1>4, <2>2, LoadBalancerAssumption DEF KeepsUp
    <3>2. delisted' >= 0 /\ delisted' + grace' >= Grace
      BY <1>1, <2>1, <3>1 DEF GraceSpent, TypeOK
    <3>3. \A r \in InHand' : grace' + age'[r] >= Grace
      <4>1. \A r \in InHand : r \in Requests /\ age[r] \in Nat
        BY InHandIsUnion, LoadBalancerAssumption DEF TypeOK
      <4> QED
        BY <1>1, <1>2, <3>1, <4>1
    <3> QED
      BY <3>1, <3>2, <3>3 DEF GraceSpent
  <2>3. CASE ~valid
    BY <1>1, <1>2, <2>1, <2>3 DEF GraceSpent
  <2> QED
    BY <2>2, <2>3
<1> QED
  BY <1>1, <1>3, <1>4 DEF Exiting, KeepsUp, WithinGrace

LEMMA SelectSignalExiting ==
  ASSUME TypeOK, Exiting, SelectSignal
  PROVE  Exiting'
<1>1. /\ pc = "select" /\ pc' = "poll" /\ UNCHANGED <<late, front, back, inHand, age>>
  BY DEF SelectSignal, workerVars
<1>2. InHand' = InHand /\ NothingLeft' = NothingLeft
  BY <1>1 DEF InHand, NothingLeft, Waits, Reply
<1>3. CASE isAlive
  <2>1. grace' = Grace /\ delisted' = 0 /\ Grace \in Nat
    BY <1>3, LoadBalancerAssumption DEF SelectSignal
  <2>2. \A r \in InHand' : grace' + age'[r] >= Grace
    <3>1. \A r \in InHand : r \in Requests /\ age[r] \in Nat
      BY InHandIsUnion, LoadBalancerAssumption DEF TypeOK
    <3> QED
      BY <1>1, <1>2, <2>1, <3>1
  <2>3. GraceSpent'
    BY <2>1, <2>2 DEF GraceSpent
  <2> QED
    BY <1>1, <2>3 DEF Exiting
<1>4. CASE ~isAlive
  <2>1. UNCHANGED <<grace, delisted>> /\ isAlive' = FALSE
    BY <1>4 DEF SelectSignal
  <2>2. KeepsUp => GraceSpent
    BY DEF Exiting, KeepsUp
  <2>3. GraceSpent => GraceSpent'
    BY <1>1, <1>2, <2>1 DEF GraceSpent
  <2> QED
    BY <1>1, <1>4, <2>1, <2>2, <2>3 DEF Exiting, KeepsUp, WithinGrace
<1> QED
  BY <1>3, <1>4

LEMMA TickExiting ==
  ASSUME TypeOK, Exiting, Tick
  PROVE  Exiting'
<1>1. /\ pc # "exited" /\ late' = (late \/ (~isAlive /\ ~Idle))
      /\ grace' = (IF grace >= 0 THEN grace - 1 ELSE -1)
      /\ delisted' = (IF delisted \in 0..(Notice - 1) THEN delisted + 1 ELSE delisted)
      /\ UNCHANGED <<pc, valid, isAlive, front, back, inHand>>
  BY DEF Tick, loopVars
<1>2. InHand' = InHand /\ NothingLeft' = NothingLeft
  BY <1>1 DEF InHand, NothingLeft, Waits, Reply
<1>3. \A r \in InHand : /\ r \in Requests /\ age[r] \in Nat
                        /\ age[r] < ServiceTime /\ age'[r] = age[r] + 1
  BY InHandIsUnion, LoadBalancerAssumption DEF TypeOK, Tick
<1>4. ASSUME WithinGrace, ~isAlive, ~late' PROVE GraceSpent'
  <2>1. GraceSpent /\ Idle /\ ServiceTime <= Grace /\ Notice <= Grace + 1
    BY <1>1, <1>4 DEF Exiting, WithinGrace
  <2>2. /\ Grace \in Nat /\ Notice \in Nat /\ ServiceTime \in Nat
        /\ grace \in (-1)..Grace /\ delisted \in (-1)..Notice
    BY LoadBalancerAssumption DEF TypeOK
  <2>3. delisted' >= 0 /\ (delisted' = Notice \/ delisted' + grace' >= Grace)
    BY <1>1, <2>1, <2>2 DEF GraceSpent
  <2>4. CASE grace < 0
    BY <1>1, <1>2, <2>1, <2>2, <2>3, <2>4 DEF GraceSpent
  <2>5. CASE grace >= 0
    <3>1. \A r \in InHand : grace + age[r] >= Grace
      BY <2>1, <2>2, <2>5 DEF GraceSpent, Idle
    <3>2. \A r \in InHand' : grace' + age'[r] >= Grace
      BY <1>1, <1>2, <1>3, <2>2, <2>5, <3>1
    <3>3. ASSUME grace = 0 PROVE NothingLeft'
      <4>1. InHand = {}
        BY <1>3, <2>1, <2>2, <3>1, <3>3
      <4>2. front = {} /\ \A w \in Workers : back[w] = <<>>
        BY <2>1 DEF Idle, Waiting
      <4>3. \A w \in Workers, r \in Requests : Waits(w, Reply(r)) = {}
        BY <4>2 DEF Waits
      <4> QED
        BY <1>2, <4>1, <4>2, <4>3 DEF NothingLeft
    <3> QED
      BY <1>1, <2>2, <2>3, <2>5, <3>2, <3>3 DEF GraceSpent
  <2> QED
    BY <2>2, <2>4, <2>5
<1> QED
  BY <1>1, <1>4 DEF Exiting, WithinGrace

LEMMA RecvFrontendExiting ==
  ASSUME TypeOK, Exiting, RecvFrontend
  PROVE  Exiting'
<1>1. /\ pc = "recv" /\ pc' = "recv" /\ valid' = TRUE
      /\ UNCHANGED <<isAlive, grace, delisted, late>>
  BY DEF RecvFrontend, exitVars
<1>2. ~NothingLeft
  BY DEF RecvFrontend, NothingLeft
<1> QED
  BY <1>1, <1>2, ExitingSame, DelistedByThen

LEMMA LoopExiting ==
  ASSUME TypeOK, Exiting, Loop
  PROVE  Exiting'
<1>1. CASE Poll \/ RecvFails \/ SelectHeartbeat \/ SelectDefault
  <2>1. /\ UNCHANGED <<isAlive, grace, delisted, late, front, back, inHand, age>>
        /\ pc' = "exited" => pc = "exited"
        /\ pc = "recv" /\ valid => pc' = "recv" /\ valid'
    BY <1>1 DEF Poll, RecvFails, SelectHeartbeat, SelectDefault, exitVars, workerVars
  <2>2. InHand' = InHand /\ NothingLeft' = NothingLeft
    BY <2>1 DEF InHand, NothingLeft, Waits, Reply
  <2> QED
    BY <2>1, <2>2, ExitingSame, DelistedByThen
<1> QED
  BY <1>1, RecvBackendExiting, RecvFrontendExiting, CheckExiting, SelectSignalExiting DEF Loop

LEMMA WorkerExiting ==
  ASSUME TypeOK, Conserved, Exiting, NEW w \in Workers, IsFiniteSet(inHand[w]),
         \/ WorkerReady(w) \/ WorkerHeartbeat(w) \/ WorkerReply(w)
         \/ WorkerStop(w) \/ WorkerLeave(w) \/ WorkerCrash(w)
  PROVE  Exiting'
<1>1. UNCHANGED <<isAlive, grace, delisted, late, pc, valid, front>>
  BY DEF WorkerReady, WorkerHeartbeat, WorkerReply, WorkerStop, WorkerLeave, WorkerCrash,
         exitVars, loopVars
<1>2. CASE WorkerReady(w) \/ WorkerHeartbeat(w) \/ WorkerStop(w)
  <2>1. UNCHANGED <<inHand, age>> /\ InHand' = InHand
    BY <1>2 DEF WorkerReady, WorkerHeartbeat, WorkerStop, InHand
  <2>2. \E msg \in Messages : msg.kind # "reply" /\ SendToBackend(w, msg)
    <3>1. \A kind, c : kind # "reply" => Control(kind, c).kind # "reply"
      BY DEF Control
    <3> QED
      BY <1>2, <3>1, MessagesSent, LeftInRange DEF WorkerReady, WorkerHeartbeat, WorkerStop
  <2>3. \A v \in Workers, r \in Requests : Waits(v, Reply(r))' = Waits(v, Reply(r))
    <3>1. \A r : Reply(r).kind = "reply"
      BY DEF Reply
    <3> QED
      BY <2>2, <3>1, WaitsAfterSend
  <2>4. NothingLeft => NothingLeft'
    BY <1>1, <2>1, <2>3 DEF NothingLeft
  <2> QED
    BY <1>1, <2>1, <2>4, ExitingSame, DelistedByThen
<1>3. CASE WorkerReply(w)
  <2> PICK q \in inHand[w] :
        /\ inHand' = [inHand EXCEPT ![w] = @ \ {q}]
        /\ age' = [age EXCEPT ![q] = 0]
    BY <1>3 DEF WorkerReply
  <2>1. q \in Requests /\ q \in InHand
    BY InHandIsUnion DEF TypeOK
  <2>2. \A v \in Workers : q \in inHand[v] => v = w
    BY <2>1, OnlyInHand
  <2>3. \A v \in Workers : q \notin inHand'[v] /\ inHand'[v] \subseteq inHand[v]
    BY <2>2 DEF TypeOK
  <2>4. ASSUME NEW r \in InHand' PROVE r \in InHand /\ age'[r] = age[r]
    <3>1. \E v \in Workers : r \in inHand'[v]
      BY DEF InHand
    <3>2. r # q /\ r \in InHand
      BY <2>3, <3>1, InHandIsUnion
    <3> QED
      BY <3>2 DEF TypeOK
  <2>5. ~NothingLeft
    BY <2>1 DEF NothingLeft
  <2> QED
    BY <1>1, <2>4, <2>5, ExitingSame, DelistedByThen
<1>4. CASE WorkerLeave(w)
  <2>1. UNCHANGED <<inHand, age, back>> /\ InHand' = InHand /\ NothingLeft' = NothingLeft
    BY <1>1, <1>4 DEF WorkerLeave, InHand, NothingLeft, Waits, Reply
  <2> QED
    BY <1>1, <2>1, ExitingSame, DelistedByThen
<1>5. CASE WorkerCrash(w)
  <2>1. /\ \A v \in Workers : inHand'[v] = IF v = w THEN {} ELSE inHand[v]
        /\ age' = [r \in Requests |-> IF r \in inHand[w] THEN 0 ELSE age[r]]
        /\ back' = back
    BY <1>5 DEF WorkerCrash, TypeOK
  <2>2. ASSUME NEW r \in InHand' PROVE r \in InHand /\ age'[r] = age[r]
    <3> PICK v \in Workers : r \in inHand'[v]
      BY DEF InHand
    <3>1. v # w /\ r \in inHand[v] /\ r \in Requests
      BY <2>1 DEF TypeOK
    <3>2. r \notin inHand[w]
      BY <3>1, OnlyInHand
    <3> QED
      BY <2>1, <3>1, <3>2, InHandIsUnion
  <2>3. NothingLeft => NothingLeft'
    <3>1. InHand = {} => InHand' = {}
      BY <2>2
    <3> QED
      BY <1>1, <2>1, <3>1, SameWaits DEF NothingLeft
  <2> QED
    BY <1>1, <2>2, <2>3, ExitingSame, DelistedByThen
<1> QED
  BY <1>2, <1>3, <1>4, <1>5

LEMMA ExitingKept ==
  ASSUME TypeOK, Conserved, Exiting, \A w \in Workers : IsFiniteSet(inHand[w]), Next
  PROVE  Exiting'
<1>1. ASSUME NEW r \in Requests, ProxySend(r) PROVE Exiting'
  <2>1. /\ UNCHANGED <<isAlive, grace, delisted, late, pc, valid, inHand, age>>
        /\ InHand' = InHand /\ delisted < Notice
    BY <1>1 DEF ProxySend, exitVars, loopVars, workerVars, InHand
  <2>2. ~(KeepsUp /\ grace < 0)
    BY <2>1, DelistedByThen, LoadBalancerAssumption
  <2> QED
    BY <2>1, <2>2, ExitingSame
<1>2. CASE Signal
  <2>1. UNCHANGED <<isAlive, grace, delisted, late, pc, valid, front, back, inHand, age>>
    BY <1>2 DEF Signal, loopVars, workerVars
  <2>2. InHand' = InHand /\ NothingLeft' = NothingLeft
    BY <2>1 DEF InHand, NothingLeft, Waits, Reply
  <2> QED
    BY <2>1, <2>2, ExitingSame, DelistedByThen
<1> QED
  BY <1>1, <1>2, LoopExiting, WorkerExiting, TickExiting DEF Next

-----------------------------------------------------------------------------
LEMMA InitIInv == Init => IInv
<1> SUFFICES ASSUME Init PROVE IInv
  OBVIOUS
<1> USE LoadBalancerAssumption DEF Init
<1>1. TypeOK
  <2>1. Pool!TypeOK
    BY DEF Pool!Init, Pool!TypeOK, Pool!Powers
  <2>2. back \in [Workers -> Seq(Messages)] /\ \A w \in Workers : Len(back[w]) <= QueueCap
    BY EmptySeq
  <2>3. {valid, isAlive, heartbeat, signal, late} \subseteq BOOLEAN
    OBVIOUS
  <2>4. /\ grace \in (-1)..Grace /\ delisted \in (-1)..Notice
        /\ process \in [Workers -> {"off", "up", "stopping"}]
        /\ inHand \in [Workers -> SUBSET sent]
        /\ age \in [Requests -> 0..ServiceTime]
    OBVIOUS
  <2> QED
    BY <2>1, <2>2, <2>3, <2>4 DEF TypeOK
<1>2. \A w \in Workers : IsFiniteSet(inHand[w])
  BY FS_EmptySet
<1>3. Conserved
  <2>1. ASSUME NEW r \in Requests PROVE Places(r) = {}
    <3>1. \A w \in Workers : Waits(w, Reply(r)) = {}
      BY DEF Waits
    <3> QED
      BY <3>1, PlacesOf
  <2> QED
    BY <2>1 DEF Conserved
<1>4. Stopping
  BY DEF Stopping
<1>5. Exiting
  BY DEF Exiting
<1> QED
  BY <1>1, <1>2, <1>3, <1>4, <1>5 DEF IInv

LEMMA StutterIInv == IInv /\ UNCHANGED vars => IInv'
<1> SUFFICES ASSUME IInv, UNCHANGED vars PROVE IInv'
  OBVIOUS
<1> USE DEF vars, poolVars, loopVars, exitVars, workerVars, proxyVars
<1>1. TypeOK'
  BY DEF IInv, TypeOK, Pool!TypeOK
<1>2. (\A w \in Workers : IsFiniteSet(inHand[w]))'
  BY DEF IInv
<1>3. Conserved'
  BY NothingMoved DEF IInv
<1>4. Stopping'
  BY StoppingSame DEF IInv
<1>5. Exiting'
  <2>1. InHand' = InHand /\ NothingLeft' = NothingLeft
    BY DEF InHand, NothingLeft, Waits, Reply
  <2> QED
    BY <2>1 DEF IInv, Exiting, GraceSpent, WithinGrace
<1> QED
  BY <1>1, <1>2, <1>3, <1>4, <1>5 DEF IInv

(***************************************************************************)
(* The inductive invariant of the loop and of the workers and proxies      *)
(* around it, from which the four theorems below follow.                   *)
(***************************************************************************)
THEOREM LoopInvariant == Spec => []IInv
<1>1. IInv /\ [Next]_vars => IInv'
  BY TypesKept, HandsStayFinite, ConservedKept, StoppingKept, ExitingKept, StutterIInv DEF IInv
<1> QED
  BY <1>1, InitIInv, PTL DEF Spec

(***************************************************************************)
(* The state of the loop keeps its types: suideTime is never set further   *)
(* ahead than the grace period, and every reply is to a request sent.      *)
(***************************************************************************)
THEOREM TypeCorrect == Spec => []TypeOK
<1>1. IInv => TypeOK
  BY DEF IInv
<1> QED
  BY <1>1, LoopInvariant, PTL

(***************************************************************************)
(* No request is lost or doubled between the sockets of the loop, however  *)
(* many workers and requests there are and whichever workers crash.        *)
(***************************************************************************)
THEOREM RequestsAreConserved == Spec => []Conserved
<1>1. IInv => Conserved
  BY DEF IInv
<1> QED
  BY <1>1, LoopInvariant, PTL

(***************************************************************************)
(* A worker whose STOP the loop has handled stays out of the pool while it *)
(* finishes its work: by then nothing it sends can let it in again.        *)
(***************************************************************************)
THEOREM StoppedWorkersStayOut == Spec => []StoppingStaysOut
<1>1. IInv => StoppingStaysOut
  BY DEF IInv, Stopping, StopAhead, Out, StoppingStaysOut
<1> QED
  BY <1>1, LoopInvariant, PTL

(***************************************************************************)
(* A loop that kept up with its sockets leaves nothing behind when it      *)
(* exits, for every grace period that covers the time workers take to      *)
(* answer and proxies to hear from zookeeper.                              *)
(***************************************************************************)
THEOREM LoopExitsClean == Spec => []ExitsWithNothingInHand
<1>1. IInv => ExitsWithNothingInHand
  BY DEF IInv, Exiting, GraceSpent, ExitsWithNothingInHand
<1> QED
  BY <1>1, LoopInvariant, PTL
-----------------------------------------------------------------------------
(***************************************************************************)
(* The loop and the worker queue.                                          *)
(***************************************************************************)
LEMMA LoopStepsThePool == TypeOK /\ [Next]_vars => [Pool!Next]_(Pool!poolVars)
<1> SUFFICES ASSUME TypeOK, [Next]_vars, ~UNCHANGED Pool!poolVars PROVE Pool!Next
  OBVIOUS
<1> USE DEF Pool!poolVars, poolVars
<1>1. CASE RecvBackend
  <2> PICK w \in Waiting : ControlMessage(w, Head(back[w])) \/ ReplyMessage(w, Head(back[w]))
    BY <1>1 DEF RecvBackend
  <2> DEFINE msg == Head(back[w])
  <2>1. w \in Workers /\ msg \in Messages
    BY FirstMessage
  <2>2. 0 \in 0..MaxConcurrency
    BY LoadBalancerAssumption
  <2>3. CASE msg.kind = "reply" /\ Pool!UpdateWorkerStatus(w, 0, FALSE)
    BY <2>1, <2>2, <2>3, Zenon DEF Pool!Next
  <2>4. CASE Pool!UpdateWorkerStatus(w, Pool!SERVICE_STOP, TRUE)
    BY <2>1, <2>4, Zenon DEF Pool!Next
  <2>5. ASSUME msg.kind \in {"READY", "HEARTBEAT"}, NEW force \in BOOLEAN,
               Pool!UpdateWorkerStatus(w, msg.arg, force)
        PROVE  Pool!Next
    <3>1. msg.arg \in 0..MaxConcurrency
      BY <2>1, <2>5 DEF Messages
    <3> QED
      BY <2>1, <2>5, <3>1, Zenon DEF Pool!Next
  <2>6. TRUE \in BOOLEAN /\ FALSE \in BOOLEAN
    OBVIOUS
  <2> QED
    BY <2>3, <2>4, <2>5, <2>6 DEF ControlMessage, ReplyMessage
<1>2. CASE RecvFrontend
  BY <1>2 DEF RecvFrontend, Pool!Next
<1>3. CASE SelectHeartbeat
  BY <1>3 DEF SelectHeartbeat, Pool!Next
<1>4. CASE Tick
  BY <1>4 DEF Tick, Pool!Next
<1>5. CASE Poll \/ RecvFails \/ Check \/ SelectSignal \/ SelectDefault
  BY <1>5 DEF Poll, RecvFails, Check, SelectSignal, SelectDefault
<1>6. ASSUME NEW w \in Workers,
             \/ WorkerReady(w) \/ WorkerHeartbeat(w) \/ WorkerReply(w)
             \/ WorkerStop(w) \/ WorkerLeave(w) \/ WorkerCrash(w)
      PROVE  UNCHANGED poolVars
  BY <1>6 DEF WorkerReady, WorkerHeartbeat, WorkerReply, WorkerStop, WorkerLeave, WorkerCrash
<1>7. CASE (\E r \in Requests : ProxySend(r)) \/ Signal \/ UNCHANGED vars
  BY <1>7 DEF ProxySend, Signal, vars
<1> QED
  BY <1>1, <1>2, <1>3, <1>4, <1>5, <1>6, <1>7 DEF Next, Loop

(***************************************************************************)
(* Whatever messages, requests and crashes come, all that happens to the   *)
(* worker queue is what its specification allows its callers, so that what *)
(* is shown of WorkerPool holds in the loop.                               *)
(***************************************************************************)
THEOREM LoopUsesThePool == Spec => Pool!Spec
<1>1. Init => Pool!Init
  BY DEF Init
<1> QED
  BY <1>1, LoopStepsThePool, TypeCorrect, PTL DEF Spec, Pool!Spec

PoolProofs == INSTANCE WorkerPoolProofs

LEMMA LoopMeetsTheProofs == Spec => PoolProofs!Spec
<1>1. Pool!Init <=> PoolProofs!Init
  BY DEF Pool!Init, PoolProofs!Init
<1>2. Pool!Next <=> PoolProofs!Next
  BY DEF Pool!Next, Pool!UpdateWorkerStatus, Pool!UpdatePower, Pool!IgnoreUpdate,
         Pool!StopWorker, Pool!UpdateWorkerExpire, Pool!NextWorker, Pool!HasNextWorker,
         Pool!PurgeExpired, Pool!Tick, Pool!Refresh, Pool!Forget, Pool!Live, Pool!Stale,
         Pool!Best, Pool!DroppedBefore, Pool!Powers, Pool!SERVICE_STOP, PoolProofs!Next,
         PoolProofs!UpdateWorkerStatus, PoolProofs!UpdatePower, PoolProofs!IgnoreUpdate,
         PoolProofs!StopWorker, PoolProofs!UpdateWorkerExpire, PoolProofs!NextWorker,
         PoolProofs!HasNextWorker, PoolProofs!PurgeExpired, PoolProofs!Tick,
         PoolProofs!Refresh, PoolProofs!Forget, PoolProofs!Live, PoolProofs!Stale,
         PoolProofs!Best, PoolProofs!DroppedBefore, PoolProofs!Powers,
         PoolProofs!SERVICE_STOP
<1>3. [Pool!Next]_(Pool!poolVars) <=> [PoolProofs!Next]_(PoolProofs!poolVars)
  BY <1>2 DEF Pool!poolVars, PoolProofs!poolVars
<1> QED
  BY <1>1, <1>3, LoopUsesThePool, PTL DEF Pool!Spec, PoolProofs!Spec

LEMMA PoolAssumptionMet == PoolProofs!PoolAssumption
  BY LoadBalancerAssumption DEF PoolProofs!PoolAssumption

(***************************************************************************)
(* In the loop too, work is handed only to a worker heard from in time     *)
(* that is queued and has not announced STOP.                              *)
(***************************************************************************)
THEOREM LoopHandsToTheLive == Spec => []Pool!HandedIsLive
<1>1. PoolProofs!Spec => []PoolProofs!HandedIsLive
  BY PoolAssumptionMet, PoolProofs!HandedWorkersAreLive
<1>2. Pool!HandedIsLive <=> PoolProofs!HandedIsLive
  BY DEF Pool!HandedIsLive, PoolProofs!HandedIsLive
<1> QED
  BY <1>1, <1>2, LoopMeetsTheProofs, PTL

(***************************************************************************)
(* Nor does any step of the loop take a worker out of the queue that was   *)
(* heard from in time, but for its own STOP.                               *)
(***************************************************************************)
THEOREM LoopKeepsTheLive == Spec => Pool!OnlySilentLeave
<1>1. PoolProofs!Spec => PoolProofs!OnlySilentLeave
  BY PoolAssumptionMet, PoolProofs!LiveWorkersAreKept
<1>2. [\A w \in queued : w \notin queued' =>
            \/ silence[w] >= Expiry
            \/ w \in stopped']_(Pool!poolVars) <=>
      [\A w \in queued : w \notin queued' =>
            \/ silence[w] >= Expiry
            \/ w \in stopped']_(PoolProofs!poolVars)
  BY DEF Pool!poolVars, PoolProofs!poolVars
<1> QED
  BY <1>1, <1>2, LoopMeetsTheProofs, PTL DEF Pool!OnlySilentLeave, PoolProofs!OnlySilentLeave
=============================================================================
