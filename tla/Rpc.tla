--------------------------------- MODULE Rpc ---------------------------------
(***************************************************************************)
(* A request from end to end, frame by frame: client, proxy                *)
(* (demo/rpc_proxy.go), load balancer (demo/rpc_lb.go), worker, and back.  *)
(* Nothing on the way remembers a request.  The way back is in the         *)
(* message: each ROUTER socket puts the identity of the sender in front of *)
(* what it receives, and sends to the identity it finds in front.          *)
(*                                                                         *)
(* A message is a sequence of frames.  Only frames that are told apart     *)
(* differ: identities, services, empty frames, time stamps, data.  Which   *)
(* balancer and which worker take a request is left open here              *)
(* (BackSockets and LoadBalancer say), and both may be none.               *)
(*                                                                         *)
(* The loops of the two programs handle one message at a time.  Clients,   *)
(* workers and the sockets of zeromq are external.                         *)
(***************************************************************************)
EXTENDS Integers, Sequences, SequencesExt

CONSTANTS
  Clients, Proxies, Balancers, Workers, Requests,
  Home,       \* the proxy of each client
  Name,       \* the identity of each client at its proxy
  Caller,     \* the client of each request
  Wants,      \* the service of each request
  Serves,     \* the service of each balancer
  Owner,      \* the balancer of each worker
  Known,      \* the services in the table of the proxies
  PROFILE,    \* whether each proxy adds time stamps
  Pids,       \* the process ids each proxy has in turn, on its own host
  MaxSockets, \* bound: sockets a proxy makes
  MaxFaults   \* bound: processes that fail

\* A proxy tells its clients apart: no two connections of a ROUTER socket have
\* the same identity.
ASSUME RpcAssumption ==
  /\ Home \in [Clients -> Proxies] /\ Caller \in [Requests -> Clients]
  /\ \A c, d \in Clients : Home[c] = Home[d] /\ Name[c] = Name[d] => c = d

\* What the code takes for granted, and nothing provides: process ids are
\* those of a host, and proxies on two hosts may have the same.
PidsAreDistinct ==
  \A p, q \in Proxies : Pids[p] \cap Pids[q] # {} => p = q

VARIABLES
  called,   \* the requests sent so far
  inbox,    \* messages to be received: records of a socket and the frames
  sockets,  \* for each proxy, by socketSeq: the balancer it is connected to
  current,  \* BackSockets: the active socket of a balancer, 0 before it is connected
  refused,  \* the sockets, of a proxy and a socketSeq, a ROUTER does not read
  pid,      \* the process id of each proxy
  got,      \* what each client received: a sequence of messages
  lost,     \* history: requests that were at a process that failed, or not sent
  faults    \* history: the processes that failed

vars == <<called, inbox, sockets, current, refused, pid, got, lost, faults>>

\* Frames.
EMPTY_MSG == <<>>
ClientId(c) == <<"client", Name[c]>>

\* Mutant: the identity has the sequence number alone.
ProxySeq(p, seq) == <<"proxy", seq>>

Identity(p, seq) == <<"proxy", pid[p], seq>>
WorkerId(w) == <<"worker", w>>
Service(s) == <<"service", s>>
Control == <<"control">>
Time == <<"time">>

\* Data as thrift encodes it, and the request it belongs to.
Data(kind, service, seqId, r) == <<"data", kind, service, seqId, r>>
RequestOf(msg) == Last(msg)[5]

GetServiceNotFoundData(service, seqId, r) == Data("ServiceNotFound", service, seqId, r)
GetWorkerNotFoundData(service, seqId, r) == Data("WorkerNotFound", service, seqId, r)
ParseThriftMsgBegin(data) == [name |-> data[3], typeId |-> data[2], seqId |-> data[4]]

Init ==
  /\ called = {} /\ inbox = {} /\ lost = {} /\ faults = 0
  /\ sockets = [p \in Proxies |-> <<>>]
  /\ current = [p \in Proxies |-> [b \in Balancers |-> 0]]
  /\ refused = {}
  /\ pid \in {f \in [Proxies -> UNION {Pids[p] : p \in Proxies}] :
               \A p \in Proxies : f[p] \in Pids[p]}
  /\ got = [c \in Clients |-> <<>>]

-----------------------------------------------------------------------------
\* Mutant: the empty frame after the head is kept.
UnwrapHead(msgs) == [head |-> Head(msgs), tails |-> Tail(msgs)]

Unwrap(msgs) ==
  [head |-> Head(msgs),
   tails |-> IF Len(msgs) > 1 /\ msgs[2] = EMPTY_MSG THEN SubSeq(msgs, 3, Len(msgs))
                                                     ELSE Tail(msgs)]

\* Mutant: the message is left as it is.
TrimNothing(msgs) == msgs

TrimLeftEmptyMsg(msgs) ==
  LET full == {n \in DOMAIN msgs : msgs[n] # EMPTY_MSG}
  IN IF full = {} THEN msgs
     ELSE SubSeq(msgs, CHOOSE n \in full : \A k \in full : n <= k, Len(msgs))

\* With PROFILE the time goes in front of the data.
Stamped(p, msgs) ==
  IF PROFILE[p] THEN Front(msgs) \o <<Time, EMPTY_MSG, Last(msgs)>> ELSE msgs

\* An error in place of the data, the frames before it sent back.
InPlaceOfData(msgs, errMsg) == Front(msgs) \o <<errMsg>>

\* The peers of a balancer's ROUTER: it has one of each identity.
IsConnected(p, b, id) ==
  \E seq \in DOMAIN sockets[p] :
    sockets[p][seq] = b /\ Identity(p, seq) = id /\ <<p, seq>> \notin refused

\* A ROUTER sends to the peer named in front, and drops what names none.
ToClient(p, msg) ==
  {[at |-> <<"client", c>>, msg |-> Tail(msg)] :
     c \in {c \in Clients : Home[c] = p /\ ClientId(c) = Head(msg)}}
ToProxy(b, msg) ==
  {[at |-> <<"dealer", p>>, msg |-> Tail(msg)] : p \in {p \in Proxies : IsConnected(p, b, Head(msg))}}
ToWorker(b, msg) ==
  {[at |-> <<"worker", w>>, msg |-> Tail(msg)] :
     w \in {w \in Workers : Owner[w] = b /\ WorkerId(w) = Head(msg)}}

At(at) == {m \in inbox : m.at = at}
Pass(m, sent) == inbox' = (inbox \ {m}) \cup sent

-----------------------------------------------------------------------------
(***************************************************************************)
(* The proxy.                                                              *)
(***************************************************************************)
\* connect, when the socket is used first, and the send.  A ROUTER that has a
\* peer of the same identity ignores the new one: what is sent is not read.
SendMessage(p, b, m, parts) ==
  LET new == current[p][b] = 0
      seq == IF new THEN Len(sockets[p]) + 1 ELSE current[p][b]
      id == Identity(p, seq)
      taken == new /\ \E q \in Proxies : IsConnected(q, b, id)
  IN /\ seq <= MaxSockets
     /\ sockets' = [sockets EXCEPT ![p] = IF new THEN Append(@, b) ELSE @]
     /\ current' = [current EXCEPT ![p][b] = seq]
     /\ refused' = IF taken THEN refused \cup {<<p, seq>>} ELSE refused
     /\ Pass(m, IF <<p, seq>> \in refused' THEN {}
                ELSE {[at |-> <<"frontend", b>>, msg |-> <<id>> \o parts]})
     /\ UNCHANGED lost

\* A socket that cannot be made: the error is logged, and the request gone.
ConnectFails(p, b, m) ==
  /\ current[p][b] = 0
  /\ faults < MaxFaults
  /\ Pass(m, {})
  /\ lost' = lost \cup {RequestOf(m.msg)}
  /\ UNCHANGED <<sockets, current, refused>>

HandleRequest(p, m, service, client_id, msgs) ==
  \/ \E b \in Balancers :
       /\ Service(Serves[b]) = service
       /\ \/ SendMessage(p, b, m, <<EMPTY_MSG, client_id, EMPTY_MSG>> \o msgs)
          \/ ConnectFails(p, b, m)
  \/ LET errMsg == GetWorkerNotFoundData(service, 0, RequestOf(msgs))
     IN /\ Pass(m, ToClient(p, <<client_id, EMPTY_MSG>> \o InPlaceOfData(msgs, errMsg)))
        /\ UNCHANGED <<sockets, current, refused, lost>>

FromFrontend(p) ==
  \E m \in At(<<"proxy", p>>) :
    LET routed == Unwrap(m.msg)
        client_id == routed.head
        service == Unwrap(routed.tails).head
        msgs == Unwrap(routed.tails).tails
        seqId == ParseThriftMsgBegin(Last(msgs)).seqId
        errMsg == GetServiceNotFoundData(service, seqId, RequestOf(msgs))
    IN /\ IF service \notin {Service(s) : s \in Known}
          THEN /\ Pass(m, ToClient(p, <<client_id, EMPTY_MSG>> \o InPlaceOfData(msgs, errMsg)))
               /\ UNCHANGED <<sockets, current, refused, lost>>
          ELSE HandleRequest(p, m, service, client_id, Stamped(p, msgs))
       /\ UNCHANGED <<called, pid, got, faults>>

FromBackend(p) ==
  /\ \E m \in At(<<"dealer", p>>) :
       LET msgs == TrimLeftEmptyMsg(m.msg)
       IN Pass(m, IF Len(msgs) = 1 THEN {} ELSE ToClient(p, Stamped(p, msgs)))
  /\ UNCHANGED <<called, sockets, current, refused, pid, got, lost, faults>>

\* An endpoint that was offline long enough to be purged is listed again: it
\* gets a new socket, and the old one stays in the poller.
Relisted(p, b) ==
  /\ current[p][b] # 0
  /\ current' = [current EXCEPT ![p][b] = 0]
  /\ UNCHANGED <<called, inbox, sockets, refused, pid, got, lost, faults>>

-----------------------------------------------------------------------------
(***************************************************************************)
(* The balancer.                                                           *)
(***************************************************************************)
LbFromFrontend(b) ==
  /\ \E m \in At(<<"frontend", b>>) :
       LET msgs == TrimLeftEmptyMsg(m.msg)
           errMsg == GetWorkerNotFoundData("account", 0, RequestOf(msgs))
       IN \/ \E w \in Workers :
               /\ Owner[w] = b
               /\ Pass(m, ToWorker(b, <<WorkerId(w), EMPTY_MSG>> \o msgs))
          \/ Pass(m, ToProxy(b, InPlaceOfData(msgs, errMsg)))
  /\ UNCHANGED <<called, sockets, current, refused, pid, got, lost, faults>>

\* A message of one frame is a control message: its effects are those of
\* LoadBalancer.
LbFromBackend(b, m) ==
  /\ LET msgs == Unwrap(m.msg).tails
     IN Pass(m, IF Len(msgs) = 1 THEN {} ELSE ToProxy(b, msgs))
  /\ UNCHANGED <<called, sockets, current, refused, pid, got, lost, faults>>

-----------------------------------------------------------------------------
(***************************************************************************)
(* Clients and workers, and the processes that fail.  A worker keeps the   *)
(* frames of a request, and answers in place of its data.                  *)
(***************************************************************************)
Call(r) ==
  /\ r \notin called
  /\ called' = called \cup {r}
  /\ inbox' = inbox \cup
       {[at |-> <<"proxy", Home[Caller[r]]>>,
         msg |-> <<ClientId(Caller[r]), EMPTY_MSG, Service(Wants[r]), EMPTY_MSG,
                   Data("call", Wants[r], r, r)>>]}
  /\ UNCHANGED <<sockets, current, refused, pid, got, lost, faults>>

Receive(c) ==
  /\ \E m \in At(<<"client", c>>) :
       /\ inbox' = inbox \ {m}
       /\ got' = [got EXCEPT ![c] = Append(@, m.msg)]
  /\ UNCHANGED <<called, sockets, current, refused, pid, lost, faults>>

Answer(w) ==
  /\ \E m \in At(<<"worker", w>>) :
       Pass(m, {[at |-> <<"backend", Owner[w]>>,
                 msg |-> <<WorkerId(w)>> \o Front(m.msg)
                           \o <<Data("reply", Serves[Owner[w]],
                                     ParseThriftMsgBegin(Last(m.msg)).seqId,
                                     RequestOf(m.msg))>>]})
  /\ UNCHANGED <<called, sockets, current, refused, pid, got, lost, faults>>

IsControl(m) == Last(m.msg) = Control

\* Bound: one heartbeat is under way at a time.
Heartbeat(w) ==
  /\ \A m \in inbox : ~IsControl(m)
  /\ inbox' = inbox \cup {[at |-> <<"backend", Owner[w]>>,
                           msg |-> <<WorkerId(w), EMPTY_MSG, Control>>]}
  /\ UNCHANGED <<called, sockets, current, refused, pid, got, lost, faults>>

Carrying(places) ==
  {RequestOf(m.msg) : m \in {n \in inbox : n.at \in places /\ ~IsControl(n)}}

\* A worker, or a balancer, goes down with the messages it has.
Crash(places) ==
  /\ faults < MaxFaults /\ faults' = faults + 1
  /\ inbox' = {m \in inbox : m.at \notin places}
  /\ lost' = lost \cup Carrying(places)
  /\ UNCHANGED <<called, sockets, current, refused, pid, got>>

\* A proxy restarts, perhaps with the process id it had: whatever its clients
\* wait for may be lost.
Restart(p) ==
  /\ faults < MaxFaults /\ faults' = faults + 1
  /\ inbox' = {m \in inbox : m.at \notin {<<"proxy", p>>, <<"dealer", p>>}}
  /\ lost' = lost \cup {r \in called : Home[Caller[r]] = p}
  /\ sockets' = [sockets EXCEPT ![p] = <<>>]
  /\ current' = [current EXCEPT ![p] = [b \in Balancers |-> 0]]
  /\ refused' = {x \in refused : x[1] # p}
  /\ \E new \in Pids[p] : pid' = [pid EXCEPT ![p] = new]
  /\ UNCHANGED <<called, got>>

Step ==
  \/ \E p \in Proxies : FromFrontend(p) \/ FromBackend(p)
  \/ \E b \in Balancers : \/ LbFromFrontend(b)
                          \/ \E m \in At(<<"backend", b>>) : LbFromBackend(b, m)
  \/ \E w \in Workers : Answer(w)
  \/ \E c \in Clients : Receive(c)

Next ==
  \/ Step
  \/ \E r \in Requests : Call(r)
  \/ \E w \in Workers : Heartbeat(w) \/ Crash({<<"worker", w>>})
  \/ \E b \in Balancers : Crash({<<"frontend", b>>, <<"backend", b>>})
  \/ \E p \in Proxies : Restart(p) \/ \E b \in Balancers : Relisted(p, b)

Spec == Init /\ [][Next]_vars

Replies(b) == {m \in At(<<"backend", b>>) : ~IsControl(m)}

\* Every process goes on, and receives from each of its sockets in turn: a
\* socket takes from its peers in turn too, so replies are not held up by
\* heartbeats.
FairSpec ==
  /\ Spec
  /\ \A p \in Proxies : WF_vars(FromFrontend(p)) /\ WF_vars(FromBackend(p))
  /\ \A b \in Balancers : /\ WF_vars(LbFromFrontend(b))
                          /\ WF_vars(\E m \in Replies(b) : LbFromBackend(b, m))
  /\ \A w \in Workers : WF_vars(Answer(w))
  /\ \A c \in Clients : WF_vars(Receive(c))

-----------------------------------------------------------------------------
(***************************************************************************)
(* What a client receives answers a call of its own, once, and a reply is  *)
(* from a worker of the service it called and has its seqId, whatever      *)
(* other clients have the same name at other proxies, whichever socket of  *)
(* its proxy the balancer answers on, and though a proxy may restart with  *)
(* the process id it had: if PidsAreDistinct, and not otherwise.           *)
(***************************************************************************)
RepliesReachTheirClient ==
  \A c \in Clients :
    /\ \A n \in DOMAIN got[c] :
         LET answer == Last(got[c][n])
         IN /\ answer[2] # "call"
            /\ Caller[answer[5]] = c
            /\ answer[2] = "reply" => answer[3] = Wants[answer[5]] /\ answer[4] = answer[5]
    /\ \A n, k \in DOMAIN got[c] : RequestOf(got[c][n]) = RequestOf(got[c][k]) => n = k

(***************************************************************************)
(* An answer comes back behind an empty frame, and with each time stamp    *)
(* in front of the data that follows it: the envelope a client unwraps is  *)
(* the same for replies and for the errors of both programs.               *)
(***************************************************************************)
AnswersAreWrapped ==
  \A c \in Clients : \A n \in DOMAIN got[c] :
    LET msg == got[c][n]
    IN /\ msg[1] = EMPTY_MSG
       /\ \A k \in 2..Len(msg) : msg[k] = EMPTY_MSG <=> msg[k - 1] = Time

(***************************************************************************)
(* Every call is answered, by a reply or an error, unless a process that   *)
(* had it failed or the proxy could not connect, though neither program    *)
(* remembers whom an answer is for, and sockets are replaced while answers *)
(* are under way: if PidsAreDistinct, and not otherwise.                   *)
(***************************************************************************)
Answered(r) == \E n \in DOMAIN got[Caller[r]] : RequestOf(got[Caller[r]][n]) = r

CallsAreAnswered == \A r \in Requests : r \in called ~> Answered(r) \/ r \in lost

(***************************************************************************)
(* The inductive invariant of RpcProofs.  The frames of a message,         *)
(* wherever it is, are those of the way back of one request, and then the  *)
(* data with its time stamps; and a request has one message at most, under *)
(* way or received.  That the way back ends at the client that called is   *)
(* said for proxies with distinct process ids alone.                       *)
(***************************************************************************)
IsSeq(s) == s \in Seq({s[n] : n \in DOMAIN s})

\* After the first n frames, the data, and an empty frame after each time.
Stamps(s, n) ==
  /\ n < Len(s)
  /\ \A k \in (n + 1)..Len(s) : s[k] = EMPTY_MSG <=> k > n + 1 /\ s[k - 1] = Time

Behind(way, s) ==
  /\ IsSeq(s)
  /\ \A n \in DOMAIN way : s[n] = way[n]
  /\ Stamps(s, Len(way))

IsCall(r, data) == data = Data("call", Wants[r], r, r)

IsAnswer(r, data) ==
  /\ Len(data) = 5 /\ data[5] = r
  /\ data[2] \in {"reply", "ServiceNotFound", "WorkerNotFound"}
  /\ data[2] = "reply" => data[3] = Wants[r] /\ data[4] = r

IsProxyId(p, id) == id = <<"proxy", id[2], id[3]>> /\ id[2] \in Pids[p]

AtProxy(r, m) ==
  /\ m.at = <<"proxy", Home[Caller[r]]>>
  /\ m.msg = <<ClientId(Caller[r]), EMPTY_MSG, Service(Wants[r]), EMPTY_MSG,
               Data("call", Wants[r], r, r)>>

AtFrontend(r, m) ==
  /\ \E b \in Balancers : m.at = <<"frontend", b>> /\ Serves[b] = Wants[r]
  /\ IsProxyId(Home[Caller[r]], m.msg[1])
  /\ Behind(<<m.msg[1], EMPTY_MSG, ClientId(Caller[r]), EMPTY_MSG>>, m.msg)
  /\ IsCall(r, Last(m.msg))

AtWorker(r, m) ==
  /\ \E w \in Workers : m.at = <<"worker", w>> /\ Serves[Owner[w]] = Wants[r]
  /\ IsProxyId(Home[Caller[r]], m.msg[2])
  /\ Behind(<<EMPTY_MSG, m.msg[2], EMPTY_MSG, ClientId(Caller[r]), EMPTY_MSG>>, m.msg)
  /\ IsCall(r, Last(m.msg))

AtBackend(r, m) ==
  /\ \E w \in Workers : m.at = <<"backend", Owner[w]>>
  /\ IsProxyId(Home[Caller[r]], m.msg[3])
  /\ Behind(<<m.msg[1], EMPTY_MSG, m.msg[3], EMPTY_MSG, ClientId(Caller[r]), EMPTY_MSG>>, m.msg)
  /\ IsAnswer(r, Last(m.msg))

AtDealer(r, m) ==
  /\ \E p \in Proxies : m.at = <<"dealer", p>> /\ (PidsAreDistinct => p = Home[Caller[r]])
  /\ Behind(<<EMPTY_MSG, ClientId(Caller[r]), EMPTY_MSG>>, m.msg)
  /\ IsAnswer(r, Last(m.msg))

Received(r, msg) == Behind(<<EMPTY_MSG>>, msg) /\ IsAnswer(r, Last(msg))

AtClient(r, m) ==
  /\ \E c \in Clients : m.at = <<"client", c>> /\ (PidsAreDistinct => c = Caller[r])
  /\ Received(r, m.msg)

OnItsWay(r, m) ==
  AtProxy(r, m) \/ AtFrontend(r, m) \/ AtWorker(r, m) \/ AtBackend(r, m)
    \/ AtDealer(r, m) \/ AtClient(r, m)

IsHeartbeat(m) ==
  \E w \in Workers : /\ m.at = <<"backend", Owner[w]>>
                     /\ m.msg = <<WorkerId(w), EMPTY_MSG, Control>>

Routed == \A m \in inbox : IsHeartbeat(m) \/ \E r \in called : OnItsWay(r, m)

Delivered ==
  \A c \in Clients :
    /\ IsSeq(got[c])
    /\ \A n \in DOMAIN got[c] :
         \E r \in called : (PidsAreDistinct => c = Caller[r]) /\ Received(r, got[c][n])

Once ==
  /\ \A m, n \in inbox :
       ~IsControl(m) /\ ~IsControl(n) /\ RequestOf(m.msg) = RequestOf(n.msg) => m = n
  /\ \A m \in inbox, c \in Clients : \A n \in DOMAIN got[c] :
       ~IsControl(m) => RequestOf(m.msg) # RequestOf(got[c][n])
  /\ \A c \in Clients : \A n, k \in DOMAIN got[c] :
       RequestOf(got[c][n]) = RequestOf(got[c][k]) => n = k

IInv ==
  /\ called \subseteq Requests /\ got = [c \in Clients |-> got[c]]
  /\ Routed
  /\ Delivered
  /\ Once

(***************************************************************************)
(* What makes CallsAreAnswered possible: no step drops a call on its way.  *)
(* Unless a process that had it failed, it is under way until it is        *)
(* answered, since the peer named in front of it is there whenever it is   *)
(* sent on.  OpenInv is what RpcProofs needs for it beside IInv: the frame *)
(* that names the socket of the proxy is that of one connected to the      *)
(* balancer the call went to, however many the proxy has made since, and a *)
(* balancer has one peer of each identity.  With equal process ids a call  *)
(* is dropped, where the socket it is sent on is not read.                 *)
(***************************************************************************)
UnderWay(r) == \E m \in inbox : ~IsControl(m) /\ RequestOf(m.msg) = r

NothingDropped == \A r \in called \ lost : UnderWay(r) \/ Answered(r)

WayOpen(r, m) ==
  LET p == Home[Caller[r]]
  IN /\ \A b \in Balancers : m.at = <<"frontend", b>> => IsConnected(p, b, m.msg[1])
     /\ \A w \in Workers : m.at = <<"worker", w>> => IsConnected(p, Owner[w], m.msg[2])
     /\ \A w \in Workers : m.at = <<"backend", Owner[w]>> => IsConnected(p, Owner[w], m.msg[3])

NamedOnce ==
  \A p, q \in Proxies, b \in Balancers : \A seq \in DOMAIN sockets[p] :
    LET id == Identity(p, seq)
    IN IsConnected(p, b, id) /\ IsConnected(q, b, id) => p = q

SocketsOK ==
  /\ sockets \in [Proxies -> Seq(Balancers)]
  /\ current \in [Proxies -> [Balancers -> Nat]]
  /\ pid = [p \in Proxies |-> pid[p]] /\ \A p \in Proxies : pid[p] \in Pids[p]
  /\ \A p \in Proxies, b \in Balancers :
       current[p][b] # 0 =>
         current[p][b] \in DOMAIN sockets[p] /\ sockets[p][current[p][b]] = b
  /\ NamedOnce
  /\ PidsAreDistinct => refused = {}

OpenInv ==
  /\ SocketsOK
  /\ \A m \in inbox :
       ~IsControl(m) /\ RequestOf(m.msg) \notin lost => WayOpen(RequestOf(m.msg), m)
  /\ PidsAreDistinct => NothingDropped
=============================================================================
