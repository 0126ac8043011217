------------------------------ MODULE Discovery ------------------------------
(***************************************************************************)
(* proxy/service.go: how the proxy follows the services of a product and   *)
(* the load balancers of each through zookeeper, with the watches of       *)
(* zk/topology.go.  Its goroutines:                                        *)
(*                                                                         *)
(*   the table goroutine of NewBackServices watches the list of services   *)
(*   and adds a BackService for each new one, with the table locked;       *)
(*   each BackService has a watcher, which watches the endpoints of its    *)
(*   service, reads them one by one and calls UpdateEndpointAddrs;         *)
(*   the main loop looks a service up for each request, under the lock.    *)
(*                                                                         *)
(* UpdateEndpointAddrs makes the active area the set it is given: that is  *)
(* ActiveIsListed of BackSockets, and all that is kept of it here.         *)
(*                                                                         *)
(* Zookeeper and its client are external, as in Registration.  A call made *)
(* while the client is not connected fails.  A watch tells of the first    *)
(* change after it was set: at once, or when the client is connected       *)
(* again.  A client whose session has expired meanwhile gets a new one,    *)
(* and every watch it had set ends with EventNotWatching.                  *)
(***************************************************************************)
CONSTANTS
  Services,   \* the services of the product
  Addrs       \* for each service, the addresses its balancers register

VARIABLES
  dirs,       \* zookeeper: the services that have a node
  listed,     \* zookeeper: the endpoints of each service
  connected,  \* whether the client reaches zookeeper
  table,      \* the keys of BackServices.Services
  names,      \* services: what the table goroutine read, while it adds them
  tablePc,    \* "start", "lock", "add", "wait", "watch", or "panicked"
  tableWatch, \* its watch: "none", "set", "due", "fired"
  pc,         \* each watcher: "none", "read", "wait", "watch"
  watch,      \* its watch
  todo,       \* endpoints it has yet to read
  addrSet,    \* the addresses it has read in this round
  active,     \* its BackSockets: the addresses of the active area
  skipped,    \* history: endpoints left out since, though listed, a read failed
  asking      \* whether the main loop has a request whose service to look up

zk == <<dirs, listed, connected>>
tableVars == <<table, names, tablePc, tableWatch>>
watcherVars == <<pc, watch, todo, addrSet, active, skipped>>
vars == <<zk, tableVars, watcherVars, asking>>

Running == tablePc \notin {"start", "panicked"}

\* Mutant: the unlock is deferred to the end of the round.
LockedWholeRound == tablePc \in {"add", "wait", "watch"}

Locked == tablePc = "add"

Init ==
  /\ dirs \in SUBSET Services
  /\ listed = [s \in Services |-> {}]
  /\ connected = TRUE
  /\ table = {} /\ names = {} /\ tablePc = "start" /\ tableWatch = "none"
  /\ pc = [s \in Services |-> "none"]
  /\ watch = [s \in Services |-> "none"]
  /\ todo = [s \in Services |-> {}]
  /\ addrSet = [s \in Services |-> {}]
  /\ active = [s \in Services |-> {}]
  /\ skipped = [s \in Services |-> {}]
  /\ asking = FALSE

-----------------------------------------------------------------------------
(***************************************************************************)
(* The table goroutine.  The first WatchChildren is NewBackServices' own,  *)
(* before the proxy serves anyone; when it fails the program does not      *)
(* start.                                                                  *)
(***************************************************************************)
Start ==
  /\ tablePc = "start"
  /\ IF connected
     THEN tablePc' = "lock" /\ names' = dirs /\ tableWatch' = "set"
     ELSE tablePc' = "panicked" /\ UNCHANGED <<names, tableWatch>>
  /\ UNCHANGED <<zk, table, watcherVars, asking>>

LockTable ==
  /\ tablePc = "lock"
  /\ tablePc' = "add"
  /\ UNCHANGED <<zk, table, names, tableWatch, watcherVars, asking>>

(***************************************************************************)
(* addBackService: NewBackService reads the endpoints itself, with a panic *)
(* when that fails, and starts the watcher with what it read.              *)
(***************************************************************************)
NewBackService(s) ==
  /\ tablePc = "add"
  /\ s \in names \ table
  /\ IF connected
     THEN /\ table' = table \cup {s}
          /\ pc' = [pc EXCEPT ![s] = "read"]
          /\ watch' = [watch EXCEPT ![s] = "set"]
          /\ todo' = [todo EXCEPT ![s] = listed[s]]
          /\ UNCHANGED tablePc
     ELSE tablePc' = "panicked" /\ UNCHANGED <<table, pc, watch, todo>>
  /\ UNCHANGED <<zk, names, tableWatch, addrSet, active, skipped, asking>>

UnlockTable ==
  /\ tablePc = "add"
  /\ names \subseteq table
  /\ tablePc' = "wait"
  /\ names' = {}
  /\ UNCHANGED <<zk, table, tableWatch, watcherVars, asking>>

TableEvent ==
  /\ tablePc = "wait"
  /\ tableWatch = "fired"
  /\ tablePc' = "watch"
  /\ tableWatch' = "none"
  /\ UNCHANGED <<zk, table, names, watcherVars, asking>>

\* Mutant: the new list is assigned to a variable of the loop's own.
WatchServicesShadowed ==
  /\ tablePc = "watch"
  /\ tablePc' = "lock"
  /\ tableWatch' = IF connected THEN "set" ELSE "none"
  /\ UNCHANGED <<zk, table, names, watcherVars, asking>>

\* When WatchChildren fails the list is nil and no watch is set.
WatchServices ==
  /\ tablePc = "watch"
  /\ tablePc' = "lock"
  /\ IF connected THEN names' = dirs /\ tableWatch' = "set"
                  ELSE names' = {} /\ tableWatch' = "none"
  /\ UNCHANGED <<zk, table, watcherVars, asking>>

-----------------------------------------------------------------------------
(***************************************************************************)
(* The watcher of a service.  GetServiceEndPoint fails for an endpoint     *)
(* that is gone, and for any while the client is not connected; its error  *)
(* is ignored and the endpoint left out.                                   *)
(***************************************************************************)
GetServiceEndPoint(s) ==
  /\ Running /\ pc[s] = "read"
  /\ \E a \in todo[s] :
       /\ todo' = [todo EXCEPT ![s] = @ \ {a}]
       /\ addrSet' = [addrSet EXCEPT ![s] = IF connected THEN @ \cup ({a} \cap listed[s]) ELSE @]
       /\ skipped' = [skipped EXCEPT ![s] = IF connected THEN @ ELSE @ \cup ({a} \cap listed[s])]
  /\ UNCHANGED <<zk, tableVars, pc, watch, active, asking>>

\* Mutant: the addresses read are added, and none is taken offline.
UpdateAdds(s) ==
  /\ Running /\ pc[s] = "read" /\ todo[s] = {}
  /\ active' = [active EXCEPT ![s] = @ \cup addrSet[s]]
  /\ addrSet' = [addrSet EXCEPT ![s] = {}]
  /\ pc' = [pc EXCEPT ![s] = "wait"]
  /\ UNCHANGED <<zk, tableVars, watch, todo, skipped, asking>>

UpdateEndpointAddrs(s) ==
  /\ Running /\ pc[s] = "read" /\ todo[s] = {}
  /\ active' = [active EXCEPT ![s] = addrSet[s]]
  /\ addrSet' = [addrSet EXCEPT ![s] = {}]
  /\ pc' = [pc EXCEPT ![s] = "wait"]
  /\ UNCHANGED <<zk, tableVars, watch, todo, skipped, asking>>

Event(s) ==
  /\ Running /\ pc[s] = "wait"
  /\ watch[s] = "fired"
  /\ pc' = [pc EXCEPT ![s] = "watch"]
  /\ watch' = [watch EXCEPT ![s] = "none"]
  /\ UNCHANGED <<zk, tableVars, todo, addrSet, active, skipped, asking>>

\* Mutant: the new list is assigned to a variable of the loop's own.
WatchChildrenShadowed(s) ==
  /\ Running /\ pc[s] = "watch"
  /\ pc' = [pc EXCEPT ![s] = "read"]
  /\ skipped' = [skipped EXCEPT ![s] = {}]
  /\ todo' = [todo EXCEPT ![s] = active[s]]
  /\ watch' = [watch EXCEPT ![s] = IF connected THEN "set" ELSE "none"]
  /\ UNCHANGED <<zk, tableVars, addrSet, active, asking>>

\* When WatchChildren fails, no endpoint is left and no watch is set.
WatchChildren(s) ==
  /\ Running /\ pc[s] = "watch"
  /\ pc' = [pc EXCEPT ![s] = "read"]
  /\ skipped' = [skipped EXCEPT ![s] = {}]
  /\ IF connected
     THEN /\ todo' = [todo EXCEPT ![s] = listed[s]]
          /\ watch' = [watch EXCEPT ![s] = "set"]
     ELSE UNCHANGED <<todo, watch>>
  /\ UNCHANGED <<zk, tableVars, addrSet, active, asking>>

-----------------------------------------------------------------------------
(***************************************************************************)
(* The main loop: GetBackService waits for the lock of the table.          *)
(***************************************************************************)
Ask ==
  /\ Running /\ ~asking
  /\ asking' = TRUE
  /\ UNCHANGED <<zk, tableVars, watcherVars>>

GetBackService ==
  /\ Running /\ asking
  /\ ~Locked
  /\ asking' = FALSE
  /\ UNCHANGED <<zk, tableVars, watcherVars>>

-----------------------------------------------------------------------------
(***************************************************************************)
(* Zookeeper, its client and the network.  Balancers come and go; the node *)
(* of a service is made by its first balancer, and nobody removes it.      *)
(***************************************************************************)
Told(w) == IF w # "set" THEN w ELSE IF connected THEN "fired" ELSE "due"

TellTable == tableWatch' = Told(tableWatch)
Tell(s) == watch' = [watch EXCEPT ![s] = Told(watch[s])]

AddService(s) ==
  /\ s \notin dirs
  /\ dirs' = dirs \cup {s}
  /\ TellTable
  /\ UNCHANGED <<listed, connected, table, names, tablePc, watcherVars, asking>>

Register(s, a) ==
  /\ s \in dirs /\ a \notin listed[s]
  /\ listed' = [listed EXCEPT ![s] = @ \cup {a}]
  /\ Tell(s)
  /\ UNCHANGED <<dirs, connected, tableVars, pc, todo, addrSet, active, skipped, asking>>

Deregister(s, a) ==
  /\ a \in listed[s]
  /\ listed' = [listed EXCEPT ![s] = @ \ {a}]
  /\ Tell(s)
  /\ UNCHANGED <<dirs, connected, tableVars, pc, todo, addrSet, active, skipped, asking>>

Disconnect ==
  /\ connected
  /\ connected' = FALSE
  /\ UNCHANGED <<dirs, listed, tableVars, watcherVars, asking>>

\* doWatch passes on whatever ends a watch.
doWatch(w, ends) == IF w \in ends THEN "fired" ELSE w

Reconnect ==
  /\ ~connected
  /\ connected' = TRUE
  /\ \E ends \in {{"due"}, {"due", "set"}} :
       /\ tableWatch' = doWatch(tableWatch, ends)
       /\ watch' = [s \in Services |-> doWatch(watch[s], ends)]
  /\ UNCHANGED <<dirs, listed, table, names, tablePc, pc, todo, addrSet, active, skipped, asking>>

Table ==
  \/ Start \/ LockTable \/ UnlockTable \/ TableEvent \/ WatchServices
  \/ \E s \in Services : NewBackService(s)

Watcher(s) ==
  GetServiceEndPoint(s) \/ UpdateEndpointAddrs(s) \/ Event(s) \/ WatchChildren(s)

Next ==
  \/ Table
  \/ Ask \/ GetBackService
  \/ \E s \in Services :
       \/ Watcher(s)
       \/ AddService(s)
       \/ \E a \in Addrs[s] : Register(s, a) \/ Deregister(s, a)
  \/ Disconnect \/ Reconnect

Spec == Init /\ [][Next]_vars

\* Goroutines run, calls return, and the lock goes to whoever keeps waiting.
FairSpec ==
  /\ Spec
  /\ WF_vars(Table)
  /\ SF_vars(GetBackService)
  /\ \A s \in Services : WF_vars(Watcher(s))

-----------------------------------------------------------------------------
WatchStates == {"none", "set", "due", "fired"}

(***************************************************************************)
(* Types of the state; a service has a watcher once it is in the table,    *)
(* and nothing is active before.                                           *)
(***************************************************************************)
TypeOK ==
  /\ dirs \subseteq Services /\ table \subseteq Services /\ names \subseteq Services
  /\ connected \in BOOLEAN
  /\ tablePc \in {"start", "lock", "add", "wait", "watch", "panicked"}
  /\ tableWatch \in WatchStates
  /\ watch \in [Services -> WatchStates]
  /\ pc \in [Services -> {"none", "read", "wait", "watch"}]
  /\ asking \in BOOLEAN
  /\ DOMAIN listed = Services /\ DOMAIN todo = Services /\ DOMAIN addrSet = Services
  /\ DOMAIN active = Services /\ DOMAIN skipped = Services
  /\ \A s \in Services :
       /\ listed[s] \cup todo[s] \cup addrSet[s] \cup active[s] \cup skipped[s] \subseteq Addrs[s]
       /\ s \in table <=> pc[s] # "none"
       /\ s \notin table => watch[s] = "none" /\ active[s] = {}

(***************************************************************************)
(* The list is read and the watch set in one call, and each event leads to *)
(* another: while the table goroutine waits for a watch that has nothing   *)
(* to tell, every service in zookeeper is in the table, whatever changed   *)
(* while it was adding the services before.                                *)
(***************************************************************************)
ServicesKnown == tablePc = "wait" /\ tableWatch = "set" => dirs \subseteq table

(***************************************************************************)
(* The same of each service: while its watcher waits for a watch that has  *)
(* nothing to tell, requests go to the endpoints in zookeeper and to no    *)
(* other, but for those whose read failed when the connection broke,       *)
(* though balancers came and went while the watcher read the others.       *)
(***************************************************************************)
EndpointsCurrent ==
  \A s \in table :
    pc[s] = "wait" /\ watch[s] = "set" => active[s] = listed[s] \ skipped[s]

(***************************************************************************)
(* A request does not wait for ever for the table, which is locked while   *)
(* the table goroutine reads zookeeper.                                    *)
(***************************************************************************)
LookupsReturn == asking ~> ~asking \/ ~Running

\* A watch that could not be set: no event will come.
CutOff(s) == \/ pc[s] = "wait" /\ watch[s] = "none"
             \/ tablePc = "wait" /\ tableWatch = "none"

(***************************************************************************)
(* Zookeeper is followed: an address that is listed and not in use, or in  *)
(* use and not listed, does not stay so while the connection holds, unless *)
(* a call failed before.                                                   *)
(***************************************************************************)
Differs(s, a) == (a \in listed[s]) # (a \in active[s])

FollowsZookeeper ==
  \A s \in Services : \A a \in Addrs[s] :
    Differs(s, a) ~>
      (~Differs(s, a) \/ a \in skipped[s] \/ CutOff(s) \/ ~connected \/ ~Running)

(***************************************************************************)
(* The inductive invariant of DiscoveryProofs: while a watch is set, what  *)
(* a goroutine has read and what it has yet to handle make up the list in  *)
(* zookeeper.  It has no watch before the first call and between an event  *)
(* and the next call.                                                      *)
(***************************************************************************)
ReadInPart ==
  /\ tablePc \in {"start", "watch"} => tableWatch = "none"
  /\ tablePc \in {"lock", "add"} /\ tableWatch = "set" => names = dirs
  /\ \A s \in Services :
       /\ pc[s] = "watch" => watch[s] = "none"
       /\ pc[s] # "read" => todo[s] = {} /\ addrSet[s] = {}
       /\ pc[s] = "none" => skipped[s] = {}
       /\ pc[s] = "read" /\ watch[s] = "set" =>
            /\ todo[s] \subseteq listed[s] \ skipped[s]
            /\ addrSet[s] = listed[s] \ (skipped[s] \cup todo[s])

IInv == TypeOK /\ ReadInPart /\ ServicesKnown /\ EndpointsCurrent
=============================================================================
