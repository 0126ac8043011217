# A TLA+ model of rpc_proxy

The repository is the Go part of the ZeroThrift RPC system. Clients (L1) send
thrift messages over zeromq to a local proxy (`demo/rpc_proxy.go`, L2), which
finds the load balancers of each service in zookeeper and passes requests on to
them round robin. A load balancer (`demo/rpc_lb.go`, L3) registers itself in
zookeeper and hands each request to one of the workers (L4) connected to it,
chosen by the capacity the workers report. Replies travel the same way back.
This directory holds TLA+ modules of its core, TLC configurations that check
them on small instances, and TLAPS proofs for all instances.

    tlc -workers 2 -config MCWorkerPool.cfg MCWorkerPool.tla
    tlapm WorkerPoolProofs.tla

## Inventory

| component | state | operations | interacts with | hard behaviour |
|---|---|---|---|---|
| Worker queue (`queue/`) | `id2item`, a map of identities to `Worker`s; `WorkerQueue`, a heap of pointers to some of them; `priority`, `index`, `Expire` of each | `UpdateWorkerStatus`, `UpdateWorkerExpire`, `NextWorker`, `HasNextWorker`, `PurgeExpired` | called by the balancer's loop only | two structures and an index field kept in step by hand; expiry noticed in two places; late messages |
| Balancer loop (`rpc_lb.go` 248-426) | the queue, `isAlive`, `suideTime`, ticker and signal channels | one turn: poll, a backend message, a frontend message, test for exit, one of heartbeat / signal / nothing | proxies and workers over zeromq, zookeeper | stale heartbeats, a STOP among replies, workers that crash, the exit against late replies |
| Registration (`rpc_lb.go` 209-246, 414; `zk/topology.go`) | an ephemeral node, its session, the monitor's watch, `isAlive` | register, watch, register again, delete | main loop and monitor goroutine share the node and `isAlive` | session expiry, restarts within the session timeout, failing calls whose errors are ignored |
| Back sockets (`proxy/back_socket.go`) | `Sockets`, `Active`, `Current`; `index`, `markedOfflineTime`, `Socket` of each | `UpdateEndpointAddrs`, `PurgeEndpoints`, `NextSocket`, `SendMessage` | watcher, purger and main goroutines | a test without the lock, a socket used after the lock, positions moved under loops |
| Discovery (`proxy/service.go`) | the table of services, a watch per service and one for the table | the watch loops, `addBackService`, `GetBackService` | zookeeper, back sockets, main loop | a watch that fails is never set again; reads of endpoints that are gone; a lock held during a zookeeper call |
| Proxy loop (`rpc_proxy.go`), envelopes (`utils/utils.go`), error replies (`proxy/thrift_expection.go`) | none but sockets | route a request, route a reply; `Unwrap`, `TrimLeftEmptyMsg`; `GetServiceNotFoundData`, `GetWorkerNotFoundData` | clients, discovery, balancers | the way back of an answer is in its frames, which six places take off or put on |
| Zookeeper connection (`utils/zk.go`) | the connection, when it was made, a lock, two instances | the calls of `safeConn` (with retries) and `unsafeConn`, `resetConnection` | neither program uses it | resets that are dropped or come late, calls in progress on a connection that is replaced |
| Rolling log (`utils/log/rolling.go`), byte sizes (`utils/bytesize/`) | fragment number and length, the files | `NewRollingFile`, `Write`, `Close`; `Parse` | the programs' start, every log line | a restart that knows nothing but which files exist; a file that cannot be opened; overflow |

Logging itself, errors, traces, atomics, configuration, the control scripts and
the test program keep no state that another part depends on; they are listed in
`PROJECT.json` and not modelled.

What must hold: the queue never loses, doubles or misorders a worker, never hands
out one that is silent or stopping, and evicts only those; the balancer settles
each request once and leaves with nothing in hand; the endpoint is in zookeeper
while the balancer serves; the proxy uses the endpoints zookeeper lists, each in
turn, and drops a connection only when it is old; every call is answered, to the
client that made it; a broken connection is replaced under no one's feet; the log
keeps its latest lines in bounded space. `PROJECT.json` lists the hazards line by
line, with the properties that cover each.

## Modules

| module | models | role |
|---|---|---|
| `WorkerPool` | `queue/` without the heap | abstract specification of the queue |
| `PriorityQueue` | `queue/priority_queue.go` callbacks; `container/heap` | operators on a heap of references |
| `PPQueue` | `queue/ppqueue.go` and `NextWorker`, `HasNextWorker` | detailed queue; `ImplementsPool` is `WorkerPool!Spec` under a refinement mapping |
| `LoadBalancer` | the loop of `rpc_lb.go`, workers, proxies | composes `WorkerPool` (`Pool == INSTANCE WorkerPool`) with the loop |
| `Registration` | `rpc_lb.go` and `topology.go` against zookeeper | main and monitor goroutines, sessions |
| `ActiveArea` | `back_socket.go` without sockets, positions and locks | abstract specification of the socket table |
| `BackSockets` | `back_socket.go` under the goroutines of `service.go` | watcher, purger and main loop interleaved; `ImplementsActiveArea` |
| `Discovery` | `service.go`, the watches of `topology.go` | the table goroutine, a watcher per service, zookeeper |
| `Rpc` | both loops, frame by frame, `utils.go`, `thrift_expection.go` | composes clients, proxies, balancers and workers |
| `ZkConn` | `utils/zk.go` | users of both instances and late resets |
| `LogFile` | `rolling.go`, `bytesize.go` | a process and the disk it leaves behind |
| `...Proofs` | | theorems |
| `MC...` | | small constants for TLC |

Operators commented "Mutant" are plausible mistakes in the definition that follows
them. No specification uses them: `PROJECT.json` names for each property the
mutant under which TLC finds it violated, which shows what the property catches.

### The queue

A `Worker` is an object: `PPQueue` has a memory `obj`, the map `id2item` and the
slice `WorkerQueue` of references into it, so that a worker queued twice, or a
`Worker` in one structure and not in the other, can be expressed. `Swap`, `Push` and `Pop`
maintain `index`; `Up` and `Down` are `container/heap`. One call is one action:
the queue belongs to one goroutine. Its loops are recursive functions of the number of
turns made (`UpTurn`, `DownTurn`, `DropTurn`, `PurgeTurn`), given as many turns as they
can need; a turn past the end changes nothing. `Expire` is kept as `ttl`, its distance to
now, since the code only asks `After` and `Before`; `ttl = 0` is the instant at
which neither holds. A `Tick` is a `HEARTBEAT_INTERVAL`. `WorkerPool` says the
same with sets: `registered` (the keys of the map), `queued` (`index` valid),
`power`, `ttl`. Heap order makes ties arbitrary, so its `NextWorker` may drop any
stale workers level with the one it finds, and must drop those above it.
`handed`, `silence` and `stopped` are history: what the last call returned, the
time since a worker was heard from, who announced STOP.

### The balancer

`pc` is the place in the loop. `Poll` computes what is readable; `RecvBackend` and
`RecvFrontend` handle one message each, backend first, as the loop over `sockets`
does; `RecvFails` leaves the message where it is, and counts it as valid all the
same if it is the frontend's (line 339). A `Poll` that fails skips the turn. `Check` is the test of `suideTime`; the three `Select` actions are the
cases of the `select`. Workers and proxies are external, and as free as the loop
must bear: a worker sends READY, heartbeats with what it has left when it sends them, replies
and STOP, and crashes at any point; a proxy sends until `Notice` ticks after the
endpoint is gone. Each worker's messages stay in order, as on one zeromq
connection; those of different workers and the frontend do not. A request to a
worker that is gone is lost, as a ROUTER socket does. The exit can keep its promise
only if the loop, once told to stop, keeps up with its sockets within a heartbeat
interval: `late` records that it did not.

### Registration

`pc["main"]` and `pc["monitor"]` name the zookeeper call each goroutine makes
next; `AddServiceEndPoint` is three calls, each of which fails, unnoticed, when the
client is not connected. Sessions expire `SessionTimeout` seconds after zookeeper
last heard of them and take the endpoint they own with them; a client that comes
back after that gets a new session and `EventNotWatching` on the watch it had.
A process may crash anywhere and another start while the old session lives.

### The proxy's sockets

The watcher's and the purger's loops are a step per round, between lock and
unlock; `PurgeLoad` and `PurgeTest` are the two reads of the test made without
the lock, in either order; `NextSocket` and `SendMessage` are apart, since the
lock is released between them. The order in which `UpdateEndpointAddrs` meets the
addresses of a map is arbitrary. `ActiveArea` knows a set of addresses, the one
picked and the latest picks. An update takes effect there at the first step of the
watcher that makes active area and argument differ (`AreaChanges`); the purger is
all stuttering.

### Discovery

`tablePc` and `pc[s]` are the places of the table goroutine and of the watcher of
service `s`. A watch is `set` until the first change after it; it then has `fired`,
or is `due` to when the client is connected again. A call made while it is not
connected fails: `WatchChildren` then leaves `names` or `todo` empty and no watch,
the reading of an endpoint is passed over (`skipped` remembers that), and
`NewBackService` panics. `UpdateEndpointAddrs` assigns what was read to `active`:
this is what `ActiveIsListed` says of `BackSockets`, and all that is used of it.

### A call from end to end

A message is a sequence of frames, an identity, a service, an empty frame, a time
stamp or data. `inbox` holds messages by the socket that will receive them;
messages of one socket are taken in any order, which covers the order of its peers.
A ROUTER's send looks up the identity in front and drops the message if nobody has
it, as zeromq does. Which balancer and worker take a request is left open:
`BackSockets`, `WorkerPool` decide that. `Relisted` gives an address a new socket
while the old one stays in the poller. Clients at different proxies have the same
name, which is legal and must not matter.

A socket of a proxy is `proxy-<pid>-<seq>` to a balancer (`Identity`,
`back_socket.go:52`): nothing in that names the host. `Pids` gives the process ids each
proxy may have, and a restarted proxy takes any of its own, perhaps the one it had.
Whether two proxies may have the same is `PidsAreDistinct`: an assumption, named and
not an `ASSUME` of the module, since neither program checks it and proxies run on
every client host. A ROUTER that already has a peer of an identity ignores the next,
as zeromq does unless it is told to hand over (`refused`): what is sent on that socket is
not read. The run has distinct process ids; what happens with equal ones is below, under
the disagreements.

### The zookeeper connection

`on[u]` is the connection a call holds while it is under way. A writer that waits
keeps new readers out, as `sync.RWMutex` does; what is done under the write lock
is one step. `late` is any of the goroutines an unsafe call starts to reset the
connection. The errors of a call are those of its connection when that is broken,
and otherwise those of the node, among them one, a bad version, that
`isConnectionError` takes for the former.

### The log

`disk` outlives the process: a restart (`End`, `NewRollingFile`) sees which
fragments exist, an operator may remove some in between. Sizes are of two's
complement words, from `-Half` to `Half - 1` (`Half` is 2^63 in the code), and units
are `UnitBits` apart, so that sizes overflow in the instance as 64 bits do.

## Runs

| run | configuration | shows |
|---|---|---|
| pool | 3 workers, `Expiry` 2, priorities -1..1, fair | stopped workers stay out, work goes to live workers, only silent or stopping ones leave, and silent ones do |
| queue | 3 workers, 4 objects, `Expiry` 1, priorities -2..2 | indexes, map and heap in step; `PPQueue` implements `WorkerPool` |
| back_sockets | 3 addresses, 3 sockets, 1 second | positions, one socket per listed address, round robin, only old sockets dropped; implements `ActiveArea` |
| back_sockets_live | 1 address, 3 sockets, fair | every offline socket is purged |
| balancer | 1 worker, 2 requests, 3 messages waiting, delays of 1 tick, proxies hear within 2 | each request is in one place; a stopping worker stays out; nothing in hand at the exit |
| balancer_live | 1 request, 2 messages waiting, fair | requests are settled; a balancer told to stop exits |
| registration | 3 sessions, timeout 2, fair | a good registration is not taken away by the process that made it; a start, or an expiry that is seen, ends registered; the dead are delisted |
| registration_expire | 3 sessions, timeout 1, fair | violated: an expiry with no watch set is never repaired |
| discovery | 2 services, one of them with 2 addresses, fair | while watches are set the proxy knows every service and uses the listed endpoints; lookups return; differences do not last |
| rpc | 2 clients, 2 proxies with distinct process ids (one with time stamps), 2 balancers, 2 workers, 3 calls (one of a service that is not there), 2 sockets a proxy, 1 failure, fair | answers reach their client, in the same envelope, and every call gets one |
| zkconn | safe and unsafe users, 2 connections, 2 retries, 1 late reset, fair | no call on a closed connection, one connection open, calls end, a broken connection is replaced |
| logfile | 2 fragments, 8 lines of 1 or 2 bytes, words of 8 bits (`Half` 128), 3 stops | fragments bounded and whole, the latest lines kept |

### Where the code disagrees with its comments

`registration_expire` is a finding, quoted in `PROJECT.json`. These follow from a
definition of the modules, as read off the model or seen in counterexamples while
it was written, and have no run of their own:

* A watch that could not be set is never set again. `service.go:151` says it is
  enough to watch again, but when the connection is lost between an event and
  `WatchChildren`, there is no watch after it, and the goroutine waits for an
  event that cannot come, connected or not (`CutOff` in `Discovery`, which
  `FollowsZookeeper` must exempt). The endpoints of the service are gone from the
  proxy until it is restarted.
* `NewBackService` panics in a goroutine when zookeeper cannot be read, and ends a
  proxy that is not to be killed lightly (`rpc_proxy.go:40-41`).
* `back_socket.go:50` says of the identity that it has a problem, and it has one. With
  `Pids <- MCSamePids` in `MCRpc.cfg` (two proxies on two hosts, either of which may
  have the process id of the other), TLC refutes both properties that assume distinct
  ones. `RepliesReachTheirClient`: a proxy asks, and restarts; another with its process id
  connects to the same balancer as its first socket; the answer goes to that proxy,
  and to its client if it has the same name. `rpc_lb.go:332` says that such an answer is
  lost. `CallsAreAnswered`, without a failure (`MaxFaults` 0): both proxies are
  connected, the balancer ignores the second, and its calls get no answer, nor an error,
  for good. Without a failure no answer goes astray. `AnswersAreWrapped` and the invariants
  `IInv` and `OpenInv` hold in that instance too.
* A purged socket is neither closed nor taken out of the poller (`polled` in
  `BackSockets` never shrinks), though `back_socket.go` 68 and 140 speak of closing.
* A heartbeat with no capacity left adds one to the priority (`UpdatePower` with 0),
  though `rpc_lb.go:311` calls the number the capacity left.
* The monitor may list the endpoint again after the exit deleted it (`Registration`:
  `ReceiveEvent` while main is leaving), against `src/README.md:45`. And the session
  timeout of 30 seconds (`topology.go:82`) is how long a crashed balancer stays
  listed, where line 46 says about 5.
* `NextWorker` drops expired workers from the heap and leaves them in `id2item`,
  where no purge sees them (`ppqueue.go:46` says the purge is included).
* The exit comes 3 seconds after the last message even if a slower worker still has
  a request: `ExitsWithNothingInHand` must ask for `ServiceTime` within `Grace`
  (`WithinGrace`), where `rpc_lb.go:411` has no condition.
* `zk.go` 17-18 promises retries over a connection rebuilt automatically. The retries
  do not wait: all eleven fit in the second in which resets are dropped, and then
  the process exits (`GiveUp` with `young` all along). `isConnectionError` lists
  `ErrNodeExists` twice, and takes a bad version for a broken connection.
* A restart with all fragments present truncates fragment 0, be it the newest
  (`FirstMissing`); so does, on the next write, a fragment that could not be opened.

**Bounds.** Three workers give a heap node two children. `PowerCap`
stops priorities at or past what workers report, below zero included: a worker
gets work at negative priority too. `Expiry` 1 or 2 stands for 3: what counts is
before, at and after. Three sockets are three active ones, or one active and two
waiting, the least at which a removal moves another socket. One worker and two
requests are enough in the balancer for a heartbeat overtaken by a request and a
STOP overtaken by a reply; what several workers do to each other is in the queue's
runs. `QueueCap` only limits how far a worker is ahead of the loop. In discovery one service
must change while another is added, and one address while another is read: hence
two services, and two addresses of one. In rpc the first proxy has two process ids, so that it may restart with
another or with its own; a second client of the same name, a second proxy, balancer and
worker are each somebody an answer could go to by mistake; `MaxSockets` 2 gives an
address a second socket, `MaxFaults` 1 lets one process fail. In zkconn two
connections are the one that is closed and the one that replaces it, and two retries
make a safe call fail three times; `MaxResets` bounds the goroutines that wait. In logfile
two fragments are the programs' own number, and 8 lines go round them twice. Symmetry is
used in safety runs only, over values no definition tells apart. `CHECK_DEADLOCK FALSE`
is set where the system may stop: a balancer that exited, a proxy that panicked, a
process after `Fatal`, all calls answered, all lines written.

**Fairness.** Time passes; goroutines that can run do; `time.Tick` keeps a value
ready until it is read. `select` picks at random among ready cases, so the
heartbeat and signal cases get strong fairness; so do the peers of a ROUTER socket,
read in turn, a frontend whose `RecvMessage` does not fail every time, and a goroutine waiting for Go's mutexes (a reader that waits gets in
when the writer leaves, a writer keeps new readers out). A worker with a request
answers it or goes down. Nothing obliges clients to ask, zookeeper to list, a
network to heal or a process to restart: the properties of `Registration` and
`Discovery` that need a connection that holds say so, and `BrokenIsReplaced` is about
connections on which somebody goes on calling.

## Proofs

All are for any value of the constants that meets the named assumption of the module:
the nil value is not a worker, address or session; sizes and times are natural numbers,
liveness and timeout positive; in `Rpc`, each client has a proxy at which nobody else
has its name (a ROUTER socket gives its peers different identities) and each request a
client. Two theorems of `RpcProofs` need `PidsAreDistinct` besides, and say so where they
are stated. Each theorem follows from one inductive invariant, `IInv` of its module (`ConnIInv` in `ZkConn`), which
TLC evaluated on the instance of the runs before it was proved. The safety properties
of every run are stated by a theorem, and so are the refinements of `ActiveArea` and
`WorkerPool`: what is proved of the pool holds of the heap of pointers, and of the loop.

* `WorkerPoolProofs`: `TypeCorrect`, `StoppedWorkersStayOut`, `HandedWorkersAreLive`,
  `LiveWorkersAreKept`. The pool decides by `ttl`, the properties speak of
  `silence`; `TimersCountSilence` ties the two and makes them inductive.
* `PPQueueProofs`: `QueueInvariant`, `IndicesAreRight`, `MapAndSliceInStep`,
  `HeapStaysOrdered`, `Refinement`; for any number of workers and objects, so for a heap
  of any size. A property of a loop is proved of each number of turns, by taking the
  least number at which it would fail. `Good` is a heap between calls: laid out
  (`index` is the position, for exactly the objects in the slice) and ordered. A loop
  of `container/heap` keeps the order but for one place: in `OrderedBut` the place `Up` is
  at may be above its parent, in `SinkingAt` the place `Down` is at may be below its
  children, and in both its parent is above its children. Each turn of `Up` takes the
  place down by one at least, each of `Down` up by one, each of `DropTurn` shortens
  the slice: they end within the turns they are given. `IInv` adds to `Good`
  and `OneObjectPerWorker` that objects nobody reaches are `Blank`, so that a new
  `Worker` is in no structure, and that `silence` is 0 out of `id2item`. For the
  refinement each heap operation gets a lemma that says what it does to the set of
  queued objects and to the fields but `index`; a removal of the top takes out a worker
  of the highest power, which is what `WorkerPool` asks of `NextWorker`.
* `LoadBalancerProofs`: `TypeCorrect`, `RequestsAreConserved`, `StoppedWorkersStayOut`,
  `LoopExitsClean`. `Conserved` counts the places of a request, and lemmas say what
  each way of moving one does to the set of its places. `StoppingStaysOut` speaks of a
  STOP that is handled; inductive is where the STOP is until then (`StopAhead`: in the
  worker's messages, with no READY behind it) and that nothing lets the worker in
  afterwards (`Out`). For the exit the invariant has to compare three clocks,
  `GraceSpent`: the grace left and the age of each request in hand add up to the grace
  period at least, as do the grace left and the time since the endpoint was delisted,
  so that when it has run out there is no request in hand and none to come.
  `LoopUsesThePool` is the composition: the loop does to its queue only what
  `WorkerPool` allows, i.e. `LoadBalancer` implements it (every step of the loop is one of
  the pool or leaves it alone; that arguments are in range needs `TypeOK` of the
  messages). The theorems of `WorkerPoolProofs`, instantiated, then hold in the loop:
  `LoopHandsToTheLive`, `LoopKeepsTheLive`.
* `RpcProofs`: `MessagesKeepTheirWay`, `AnswersFindTheirClient`, `EnvelopesAreOneKind`,
  `NoCallIsDropped`.
  The properties are about what clients received; the invariant says for each of the six
  kinds of place where a message can be what its frames are (`AtProxy` to `AtClient`),
  and `Once`, that a request has a single message, under way or received. The time stamps
  make messages of any length: `Stamps` describes them without counting. Lemmas first
  say what the operators on frames (`Unwrap`, `TrimLeftEmptyMsg`, `Stamped`,
  `InPlaceOfData`, taking the head off) do to such a sequence; then each action takes a
  message of one kind to one of the next. An identity names a process id of the caller's
  proxy (`IsProxyId`), and need not be unique over time: a proxy that restarts with its
  process id gets its old identities back. `AnswersFindTheirClient` and `NoCallIsDropped`
  have the hypothesis `PidsAreDistinct`, which nothing in the code provides; then an identity
  tells the proxy (`IdsTell`), and in `IInv` the places after the balancer (`AtDealer`,
  `AtClient`, `Delivered`) are those of the caller. `MessagesKeepTheirWay` and
  `EnvelopesAreOneKind` do not have it: for any process ids the frames of a message are
  what they are said to be, and a request has one message, since a balancer never
  has two peers of one identity (`NamedOnce`), whoever they are.
  `NoCallIsDropped` is the safety half of `CallsAreAnswered`: it needs more, since a
  ROUTER drops what names no peer. `OpenInv` says that the frame for the proxy names a
  socket connected to the very balancer the call went to (`WayOpen`), which holds
  because a proxy keeps a socket it no longer uses; a restart ends it, and counts the
  calls of that proxy as lost. Distinct process ids are needed for the first step: no
  socket is `refused`. What remains to TLC is that each message moves on.
* `BackSocketsProofs`: `IndexesArePositions`, `ActiveAreaIsListed`, `YoungSocketsAreKept`.
  `IInv` adds what the loops have established so far (`LoopsOK`): which addresses
  are met, that positions before `j` are listed, that the purger starts at or past
  `Active` and only it changes the slice meanwhile. Lemmas say what `swap` does to positions.
  `RequestsGoRoundRobin` has an invariant of its own on top, `PicksInv`: the latest picks
  are the sockets up to `Current`, going back round the active area.
  `TableImplementsActiveArea` maps each step: under the mapping an update takes place
  when active area and argument first differ, and the rest of the watcher's loop, the
  purger and the positions stutter.
* `UtilsProofs`, of `LogFile`: `LogIsBounded`, `LogIsWhole`, `LatestLinesAreKept`. `IInv` says that a
  fragment is an interval of the lines written (`IsPiece`), the current one the last, and
  `LeftBehind`: a fragment of this process that was left is as many full fragments behind
  in bytes as it is in the ring. That is what makes truncating the next one harmless.
* `RegistrationProofs`: `RegistrationTypes`, `EndpointsAreKept`. `IInv` adds that the
  monitor is on its way to delete only while the endpoint belongs to another
  session than the current one.
* `DiscoveryProofs`: `AllServicesAreKnown`, `EndpointsAreCurrent`. `IInv` adds what
  holds while a goroutine reads (`ReadInPart`): as long as its watch is set, the
  entries handled, those still to be handled and those whose read failed make up the
  list in zookeeper. Any change takes the watch, and with it the obligation.
* `UtilsProofs`, of `ZkConn`: `CallsAreOnOpenConnections`, `OneConnectionIsOpen`. The two are
  inductive together: a call starts on an instance's connection, which is the open
  one, and a reset replaces it only with no reader.

Model-checked only: liveness, which is out of the prover's reach: `SilentAreEvicted`,
`EveryRequestSettled`, `StopsWhenTold`, `WaitingArePurged`, `RegistersAgain`, `GoneIsDelisted`,
`StaysRegistered` (violated), `LookupsReturn`, `FollowsZookeeper`, `CallsAreAnswered`, `CallsEnd`,
`BrokenIsReplaced`. Every other property of a run is a theorem. `CallsAreAnswered` is checked for distinct
process ids, and false for equal ones.

## Not modelled

The SIGKILL branch (no
process can catch it); the heartbeats the balancer sends to workers; `UpdateItem`
of the queue, which has no caller; `Close` and `Seq2Str` of the zookeeper
connection; zookeeper and zeromq themselves, as far as the code relies on them
they are external actions. The endpoint is named by its frontend address: two
balancers with one address are not considered. `control_lb.sh` waits a second
where the balancer takes three to leave; it is a comparison of constants. The
logger (599 lines) formats lines, with levels and stack traces, and passes each to
`rollingFile` in one `Write`. Configuration, command lines, error values, counters
and colours have no protocol. In the configuration, `zk_session_timeout` is read and never used.

## Plan

The modules above cover every part with state of its own. What is left:

* Model: the composition of `Registration` and `Discovery` through one zookeeper,
   so that a balancer that exits is seen to leave every proxy before it stops
   reading (`Notice` of `LoadBalancer` stands for that now).
