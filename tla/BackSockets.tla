---------------------------- MODULE BackSockets ----------------------------
(***************************************************************************)
(* proxy/back_socket.go: the proxy's sockets to the load balancers of one  *)
(* service, and the three goroutines of proxy/service.go and rpc_proxy.go  *)
(* that use them:                                                          *)
(*                                                                         *)
(*   the watcher  calls UpdateEndpointAddrs with what zookeeper lists;     *)
(*   the purger   calls PurgeEndpoints once a second;                      *)
(*   the main loop takes NextSocket for a request, then SendMessage.       *)
(*                                                                         *)
(* UpdateEndpointAddrs and PurgeEndpoints hold the write lock, NextSocket  *)
(* the read lock.  Only the main loop calls NextSocket, so its write of    *)
(* Current under the read lock meets no other.  PurgeEndpoints also reads  *)
(* Active and len(Sockets) before it locks, and the main loop uses the     *)
(* socket after it unlocked: there the goroutines interleave.              *)
(*                                                                         *)
(* Positions are Go's, from 0: position i holds Sockets[i + 1].            *)
(***************************************************************************)
EXTENDS Integers, Sequences, FiniteSets

CONSTANTS
  Addrs,           \* the addresses endpoints register in zookeeper
  Ids,             \* bound: the BackSockets reachable or polled at once
  None,
  OfflineSeconds   \* what markedOfflineTime must exceed before a purge: 5

ASSUME BackSocketsAssumption ==
  /\ None \notin Ids \cup Addrs \cup {"watcher", "purger"}
  /\ OfflineSeconds \in Nat

VARIABLES
  Sockets, Active, Current,  \* the fields of BackSockets
  Addr, index,               \* fields of each BackSocket
  offline,   \* seconds since markedOfflineTime; 0 while in the active area
  polled,    \* the BackSockets connected: their zmq socket is in the poller
  writer,    \* the goroutine that holds the write lock, or None
  addrSet,   \* the argument of the latest UpdateEndpointAddrs
  todo,      \* what the first loop of UpdateEndpointAddrs has not met of it
  j,         \* the loop variable of its second loop
  purge,     \* the purger: "idle", "loaded", "locking", "purging"
  seen,      \* what the unlocked test of PurgeEndpoints loaded first
  i,         \* the loop variable of PurgeEndpoints
  held,      \* the socket the main loop is about to send on, or None
  recent     \* history: the latest picks, since the active area changed

area == <<Sockets, Active, Addr, index, offline>>
loops == <<todo, j, purge, seen, i>>
vars == <<area, loops, Current, polled, writer, addrSet, held, recent>>

At(n) == Sockets[n + 1]

Listed == {Sockets[n] : n \in DOMAIN Sockets}
ActiveSockets == {Sockets[n] : n \in 1..Active}
ActiveAddrs == {Addr[s] : s \in ActiveSockets}
Waiting == {Sockets[n] : n \in (Active + 1)..Len(Sockets)}

\* Nothing refers to the BackSocket any more, or does yet.
Free(s) == s \notin Listed \cup polled \cup {held}

Init ==
  /\ Sockets = <<>>
  /\ Active = 0
  /\ Current = 0
  /\ Addr = [s \in Ids |-> None]
  /\ index = [s \in Ids |-> -1]
  /\ offline = [s \in Ids |-> 0]
  /\ polled = {}
  /\ writer = None
  /\ addrSet = {}
  /\ todo = {}
  /\ j = 0
  /\ purge = "idle"
  /\ seen = [of |-> "Active", is |-> 0]
  /\ i = 0
  /\ held = None
  /\ recent = <<>>

-----------------------------------------------------------------------------
\* Mutant: t keeps its index.
SwapFirstIndex(f, s, t) == [f EXCEPT ![s] = f[t]]

(***************************************************************************)
(* swap, of two sockets of q: each goes to the position the other's index  *)
(* field names.                                                            *)
(***************************************************************************)
SwapIndex(f, s, t) == [f EXCEPT ![s] = f[t], ![t] = f[s]]

SwapSockets(q, f, s, t) == [q EXCEPT ![f[t] + 1] = s, ![f[s] + 1] = t]

\* Bound: an update is for no more new addresses than there are Ids to spare.
LockForUpdate(addrs) ==
  /\ writer = None
  /\ Cardinality({s \in Ids : Free(s)}) >= Cardinality(addrs \ ActiveAddrs)
  /\ writer' = "watcher"
  /\ addrSet' = addrs
  /\ todo' = addrs
  /\ j' = 0
  /\ UNCHANGED <<area, Current, polled, purge, seen, i, held, recent>>

\* Mutant: the new socket stays behind the ones that wait.
addEndpointLast(addr) ==
  /\ writer = "watcher"
  /\ addr \in todo
  /\ todo' = todo \ {addr}
  /\ \/ addr \in ActiveAddrs /\ UNCHANGED <<area, recent>>
     \/ /\ addr \notin ActiveAddrs
        /\ \E s \in Ids :
             /\ Free(s)
             /\ Sockets' = Append(Sockets, s)
             /\ index' = [index EXCEPT ![s] = Len(Sockets)]
             /\ Addr' = [Addr EXCEPT ![s] = addr]
             /\ offline' = [offline EXCEPT ![s] = 0]
        /\ Active' = Active + 1
        /\ recent' = <<>>
  /\ UNCHANGED <<Current, polled, writer, addrSet, j, purge, seen, i, held>>

(***************************************************************************)
(* One round of the loop over addrSet.  The new socket is appended, then   *)
(* changes places with the first one waiting.                              *)
(***************************************************************************)
addEndpoint(addr) ==
  /\ writer = "watcher"
  /\ addr \in todo
  /\ todo' = todo \ {addr}
  /\ \/ addr \in ActiveAddrs /\ UNCHANGED <<area, recent>>
     \/ /\ addr \notin ActiveAddrs
        /\ \E s \in Ids :
             LET longer == Append(Sockets, s)
                 placed == [index EXCEPT ![s] = Len(Sockets)]
                 first  == longer[Active + 1]
             IN /\ Free(s)
                /\ Sockets' = SwapSockets(longer, placed, first, s)
                /\ index' = SwapIndex(placed, first, s)
                /\ Addr' = [Addr EXCEPT ![s] = addr]
                /\ offline' = [offline EXCEPT ![s] = 0]
        /\ Active' = Active + 1
        /\ recent' = <<>>
  /\ UNCHANGED <<Current, polled, writer, addrSet, j, purge, seen, i, held>>

(***************************************************************************)
(* The second loop, from position j to the next address no longer listed.  *)
(* The socket that takes the place of the one marked is looked at next.    *)
(***************************************************************************)
AllListed(m, n) == \A k \in m..(n - 1) : Addr[At(k)] \in addrSet

\* Mutant: the socket that took the place of the one marked is passed over.
markOfflineAndSkip ==
  /\ writer = "watcher" /\ todo = {}
  /\ \E n \in j..(Active - 1) :
       LET s == At(n)
           last == At(Active - 1)
       IN /\ \A k \in j..(n - 1) : Addr[At(k)] \in addrSet
          /\ Addr[s] \notin addrSet
          /\ Sockets' = SwapSockets(Sockets, index, s, last)
          /\ index' = SwapIndex(index, s, last)
          /\ offline' = [offline EXCEPT ![s] = 0]
          /\ j' = n + 1
  /\ Active' = Active - 1
  /\ recent' = <<>>
  /\ UNCHANGED <<todo, purge, seen, i, Addr, Current, polled, writer, addrSet, held>>

markOffline ==
  /\ writer = "watcher" /\ todo = {}
  /\ \E n \in j..(Active - 1) :
       LET s == At(n)
           last == At(Active - 1)
       IN /\ AllListed(j, n)
          /\ Addr[s] \notin addrSet
          /\ Sockets' = SwapSockets(Sockets, index, s, last)
          /\ index' = SwapIndex(index, s, last)
          /\ offline' = [offline EXCEPT ![s] = 0]
          /\ j' = n
  /\ Active' = Active - 1
  /\ recent' = <<>>
  /\ UNCHANGED <<todo, purge, seen, i, Addr, Current, polled, writer, addrSet, held>>

UpdateDone ==
  /\ writer = "watcher" /\ todo = {}
  /\ AllListed(j, Active)
  /\ writer' = None
  /\ j' = 0
  /\ UNCHANGED <<area, Current, polled, addrSet, todo, purge, seen, i, held, recent>>

-----------------------------------------------------------------------------
(***************************************************************************)
(* The unlocked test Active == len(Sockets): two loads, in either order,   *)
(* with anything in between.                                               *)
(***************************************************************************)
PurgeLoad ==
  /\ purge = "idle"
  /\ purge' = "loaded"
  /\ seen' \in {[of |-> "Active", is |-> Active], [of |-> "len", is |-> Len(Sockets)]}
  /\ UNCHANGED <<area, Current, polled, writer, addrSet, todo, j, i, held, recent>>

\* Mutant: the test the other way round.
SeenUnequal == seen.is # IF seen.of = "Active" THEN Len(Sockets) ELSE Active

SeenEqual == seen.is = IF seen.of = "Active" THEN Len(Sockets) ELSE Active

PurgeTest ==
  /\ purge = "loaded"
  /\ purge' = IF SeenEqual THEN "idle" ELSE "locking"
  /\ seen' = [of |-> "Active", is |-> 0]
  /\ UNCHANGED <<area, Current, polled, writer, addrSet, todo, j, i, held, recent>>

LockForPurge ==
  /\ purge = "locking"
  /\ writer = None
  /\ writer' = "purger"
  /\ purge' = "purging"
  /\ i' = Active
  /\ UNCHANGED <<area, Current, polled, addrSet, todo, j, seen, held, recent>>

\* Mutant: at OfflineSeconds, not past them.
ExpiredEarly(s) == offline[s] >= OfflineSeconds

Expired(s) == offline[s] > OfflineSeconds

NoneExpired(m, n) == \A k \in m..(n - 1) : ~Expired(At(k))

(***************************************************************************)
(* The loop, from position i to the next expired socket, whose place is    *)
(* looked at again.  A socket dropped from the slice is neither closed nor *)
(* taken out of the poller; only a main loop that holds it reads it again, *)
(* and not its index or markedOfflineTime.                                 *)
(***************************************************************************)
PurgeDrop ==
  /\ purge = "purging"
  /\ \E n \in i..(Len(Sockets) - 1) :
       LET s == At(n)
           last == At(Len(Sockets) - 1)
       IN /\ NoneExpired(i, n)
          /\ Expired(s)
          /\ Sockets' = SubSeq(SwapSockets(Sockets, index, s, last), 1, Len(Sockets) - 1)
          /\ index' = [SwapIndex(index, s, last) EXCEPT ![s] = -1]
          /\ offline' = [offline EXCEPT ![s] = 0]
          /\ i' = n
  /\ UNCHANGED <<todo, j, purge, seen, Active, Addr, Current, polled, writer, addrSet,
                 held, recent>>

PurgeDone ==
  /\ purge = "purging"
  /\ NoneExpired(i, Len(Sockets))
  /\ writer' = None
  /\ purge' = "idle"
  /\ i' = 0
  /\ UNCHANGED <<area, Current, polled, addrSet, todo, j, seen, held, recent>>

-----------------------------------------------------------------------------
\* Mutant: the position moves on twice a turn.
TurnAfterNext == IF Current + 1 >= Active THEN 0 ELSE Current + 1

(***************************************************************************)
(* The main loop.  With Active = 0 NextSocket returns nil, and changes     *)
(* nothing: HandleRequest answers the client with an error.                *)
(***************************************************************************)
Turn == IF Current >= Active THEN 0 ELSE Current

\* The latest n elements of a sequence.
Latest(q, n) == IF Len(q) <= n THEN q ELSE SubSeq(q, Len(q) - n + 1, Len(q))

NextSocket ==
  /\ held = None
  /\ writer = None
  /\ Active > 0
  /\ held' = At(Turn)
  /\ Current' = Turn + 1
  /\ recent' = Latest(Append(recent, At(Turn)), Active)
  /\ UNCHANGED <<area, loops, polled, writer, addrSet>>

\* A first send connects; when that fails the request is dropped.
SendMessage ==
  /\ held # None
  /\ held' = None
  /\ \/ polled' = polled \cup {held}
     \/ held \notin polled /\ UNCHANGED polled
  /\ UNCHANGED <<area, loops, Current, writer, addrSet, recent>>

-----------------------------------------------------------------------------
(***************************************************************************)
(* A second goes by.  PurgeEndpoints reads the clock once, when it has     *)
(* locked, so the seconds that pass before it unlocks count afterwards.    *)
(***************************************************************************)
Tick ==
  /\ writer # "purger"
  /\ offline' = [s \in Ids |->
                   IF s \in Waiting /\ offline[s] <= OfflineSeconds
                   THEN offline[s] + 1 ELSE offline[s]]
  /\ UNCHANGED <<loops, Sockets, Active, Addr, index, Current, polled, writer, addrSet,
                 held, recent>>

Update ==
  \/ \E addrs \in SUBSET Addrs : LockForUpdate(addrs)
  \/ \E addr \in Addrs : addEndpoint(addr)
  \/ markOffline
  \/ UpdateDone

Purge ==
  \/ PurgeLoad
  \/ PurgeTest
  \/ LockForPurge
  \/ PurgeDrop
  \/ PurgeDone

Next == Update \/ Purge \/ NextSocket \/ SendMessage \/ Tick

Spec == Init /\ [][Next]_vars

(***************************************************************************)
(* Seconds pass, the ticker runs the purger, and the goroutines are        *)
(* scheduled; nothing makes zookeeper list anything or a client ask.  The  *)
(* write lock goes to a goroutine that keeps waiting for it.               *)
(***************************************************************************)
FairSpec ==
  /\ Spec
  /\ SF_vars(Tick)
  /\ WF_vars(PurgeLoad) /\ WF_vars(PurgeTest) /\ SF_vars(LockForPurge)
  /\ WF_vars(PurgeDrop \/ PurgeDone)
  /\ WF_vars((\E addr \in Addrs : addEndpoint(addr)) \/ markOffline \/ UpdateDone)

-----------------------------------------------------------------------------
(***************************************************************************)
(* Types of the state, and the structure of the slice that swap relies on: *)
(* no socket is listed twice, and each one's index is its position.        *)
(***************************************************************************)
TypeOK ==
  /\ Sockets \in Seq(Ids)
  /\ Active \in 0..Len(Sockets)
  /\ Current \in Nat
  /\ Addr \in [Ids -> Addrs \cup {None}]
  /\ index \in [Ids -> Int]
  /\ offline \in [Ids -> 0..(OfflineSeconds + 1)]
  /\ polled \subseteq Ids
  /\ writer \in {None, "watcher", "purger"}
  /\ todo \subseteq addrSet /\ addrSet \subseteq Addrs
  /\ j \in Nat
  /\ purge \in {"idle", "loaded", "locking", "purging"}
  /\ seen \in [of : {"Active", "len"}, is : Nat]
  /\ i \in Nat
  /\ held \in Ids \cup {None}
  /\ recent \in Seq(Ids)

(***************************************************************************)
(* swap, append and truncation keep index and position in step: every      *)
(* socket in the slice is at the position its index field names, so none   *)
(* is listed twice.                                                        *)
(***************************************************************************)
Positioned(q, f) == \A n \in DOMAIN q : f[q[n]] = n - 1

IndexIsPosition == Positioned(Sockets, index)

(***************************************************************************)
(* The active area is what zookeeper listed last: whenever no update is in *)
(* progress it has one socket for each address of addrSet and no other,    *)
(* however endpoints came, went and came back before.                      *)
(***************************************************************************)
OneSocketPerAddr ==
  \A m, n \in 1..Active : Addr[Sockets[m]] = Addr[Sockets[n]] => m = n

ActiveIsListed ==
  /\ OneSocketPerAddr
  /\ writer # "watcher" => ActiveAddrs = addrSet

\* What the loops have done so far, under the lock.
LoopsOK ==
  /\ purge = "purging" <=> writer = "purger"
  /\ purge = "purging" => Active <= i
  /\ writer # "watcher" => todo = {} /\ j = 0
  /\ todo # {} => j = 0
  /\ j <= Active /\ AllListed(0, j)
  /\ addrSet \ todo \subseteq ActiveAddrs

\* The inductive invariant of BackSocketsProofs.
IInv == TypeOK /\ IndexIsPosition /\ ActiveIsListed /\ LoopsOK

(***************************************************************************)
(* Requests go round robin: while the active area does not change, no      *)
(* socket gets a second request before every active one got one, whatever  *)
(* PurgeEndpoints does to the rest of the slice meanwhile.                 *)
(***************************************************************************)
RoundRobin == \A m, n \in DOMAIN recent : recent[m] = recent[n] => m = n

\* The inductive invariant of that: the latest picks are the sockets up to the
\* position Current, going back round the active area.  Nothing but the main
\* loop's own steps changes the address of the socket it holds.
PickedAt(n) ==
  LET back == Current - (Len(recent) - n)
  IN IF back >= 1 THEN back ELSE back + Active

RecentPicks ==
  recent # <<>> =>
    /\ Current \in 1..Active
    /\ Len(recent) <= Active
    /\ \A n \in DOMAIN recent : recent[n] = Sockets[PickedAt(n)]

PicksInv == RecentPicks /\ (held # None => Addr[held] \in Addrs)

(***************************************************************************)
(* PurgeEndpoints drops only sockets that were waiting for more than       *)
(* OfflineSeconds, and an address is never without a socket because of it: *)
(* a request picked before its endpoint went away has that long to go out. *)
(***************************************************************************)
OnlyOldSocketsDropped ==
  [][\A s \in Listed \ Listed' : s \in Waiting /\ offline[s] > OfflineSeconds]_vars

(***************************************************************************)
(* A socket marked offline leaves the slice in the end, although the test  *)
(* that decides whether to look is made without the lock.                  *)
(***************************************************************************)
WaitingArePurged == \A s \in Ids : s \in Waiting ~> s \notin Waiting

(***************************************************************************)
(* The table implements ActiveArea: whatever the purger does meanwhile,    *)
(* and though the watcher changes socket after socket, the main loop gets  *)
(* an address of the set listed last, each in its turn, and its socket     *)
(* stays a socket of that address until the request is sent.               *)
(***************************************************************************)
AreaChanges == writer = "watcher" /\ ActiveAddrs # addrSet

Area == INSTANCE ActiveArea WITH
  held <- IF held = None THEN None ELSE Addr[held],
  recent <- IF AreaChanges THEN <<>> ELSE [n \in DOMAIN recent |-> Addr[recent[n]]]

ImplementsActiveArea == Area!Spec
=============================================================================
