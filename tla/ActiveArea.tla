----------------------------- MODULE ActiveArea -----------------------------
(***************************************************************************)
(* What the table of sockets of a service promises to the goroutines that  *)
(* use it (proxy/back_socket.go), without sockets, positions or locks: the *)
(* watcher names the addresses requests may go to, the main loop is given  *)
(* one for each request, in turn, and sends to it.  BackSockets implements *)
(* this.                                                                   *)
(***************************************************************************)
EXTENDS Sequences, FiniteSets, Naturals

CONSTANTS
  Addrs,  \* the addresses endpoints register in zookeeper
  None

VARIABLES
  addrSet,  \* the addresses listed last
  held,     \* the address the main loop is about to send to, or None
  recent    \* history: the latest picks, since the addresses changed

vars == <<addrSet, held, recent>>

Init == addrSet = {} /\ held = None /\ recent = <<>>

UpdateEndpointAddrs(addrs) ==
  /\ addrSet' = addrs
  /\ recent' = IF addrs = addrSet THEN recent ELSE <<>>
  /\ UNCHANGED held

\* The latest n elements of a sequence.
Latest(q, n) == IF Len(q) <= n THEN q ELSE SubSeq(q, Len(q) - n + 1, Len(q))

\* No address gets a second request before each got one.
NextSocket(addr) ==
  /\ held = None
  /\ held' = addr
  /\ recent' = Latest(Append(recent, addr), Cardinality(addrSet))
  /\ \A m, n \in DOMAIN recent' : recent'[m] = recent'[n] => m = n
  /\ UNCHANGED addrSet

SendMessage ==
  /\ held # None
  /\ held' = None
  /\ UNCHANGED <<addrSet, recent>>

Next ==
  \/ \E addrs \in SUBSET Addrs : UpdateEndpointAddrs(addrs)
  \/ \E addr \in addrSet : NextSocket(addr)
  \/ SendMessage

Spec == Init /\ [][Next]_vars
=============================================================================
