--------------------------- MODULE DiscoveryProofs ---------------------------
(***************************************************************************)
(* Theorems about Discovery, for any services and addresses.  A goroutine  *)
(* that waits is current because of what it carried while it read: as long *)
(* as its watch is set, the list it got when it set the watch is the one   *)
(* in zookeeper, and each entry is handled, still to be handled, or was    *)
(* left out when the connection broke.                                     *)
(***************************************************************************)
EXTENDS Discovery, TLAPS

LEMMA InitIInv == Init => IInv
BY DEF Init, IInv, TypeOK, WatchStates, ReadInPart, ServicesKnown, EndpointsCurrent

\* The steps of the table goroutine that leave the watchers alone.
LEMMA TableIInv ==
  ASSUME IInv, Start \/ LockTable \/ UnlockTable \/ TableEvent \/ WatchServices
  PROVE  IInv'
<1> USE DEF IInv, TypeOK, WatchStates, ReadInPart, ServicesKnown, EndpointsCurrent,
            zk, watcherVars
<1>1. CASE Start
  BY <1>1 DEF Start
<1>2. CASE LockTable
  BY <1>2 DEF LockTable
<1>3. CASE UnlockTable
  BY <1>3 DEF UnlockTable
<1>4. CASE TableEvent
  BY <1>4 DEF TableEvent
<1>5. CASE WatchServices
  BY <1>5 DEF WatchServices
<1> QED
  BY <1>1, <1>2, <1>3, <1>4, <1>5

\* A new service starts with the list its watch was set on.
LEMMA NewServiceIInv ==
  ASSUME IInv, NEW s \in Services, NewBackService(s)
  PROVE  IInv'
<1> USE DEF IInv, NewBackService, zk
<1>1. TypeOK'
  BY DEF TypeOK, WatchStates
<1>2. ReadInPart'
  BY DEF TypeOK, ReadInPart
<1>3. ServicesKnown' /\ EndpointsCurrent'
  BY DEF TypeOK, ServicesKnown, EndpointsCurrent
<1> QED
  BY <1>1, <1>2, <1>3

LEMMA WatcherIInv ==
  ASSUME IInv, NEW s \in Services, Watcher(s)
  PROVE  IInv'
<1> USE DEF IInv, TypeOK, WatchStates, ReadInPart, ServicesKnown, EndpointsCurrent,
            zk, tableVars
<1>1. CASE GetServiceEndPoint(s)
  BY <1>1 DEF GetServiceEndPoint
<1>2. CASE UpdateEndpointAddrs(s)
  BY <1>2 DEF UpdateEndpointAddrs
<1>3. CASE Event(s)
  BY <1>3 DEF Event
<1>4. CASE WatchChildren(s)
  BY <1>4 DEF WatchChildren
<1> QED
  BY <1>1, <1>2, <1>3, <1>4 DEF Watcher

\* A change in zookeeper takes the watch that was set on what it changes.
LEMMA ChangeIInv ==
  ASSUME IInv, NEW s \in Services,
         \/ AddService(s)
         \/ \E a \in Addrs[s] : Register(s, a) \/ Deregister(s, a)
  PROVE  IInv'
<1> USE DEF IInv, TypeOK, WatchStates, ReadInPart, ServicesKnown, EndpointsCurrent,
            tableVars, watcherVars, Told, TellTable, Tell
<1>1. CASE AddService(s)
  BY <1>1 DEF AddService
<1>2. ASSUME NEW a \in Addrs[s], Register(s, a) PROVE IInv'
  BY <1>2 DEF Register
<1>3. ASSUME NEW a \in Addrs[s], Deregister(s, a) PROVE IInv'
  BY <1>3 DEF Deregister
<1> QED
  BY <1>1, <1>2, <1>3

LEMMA ConnectionIInv == ASSUME IInv, Disconnect \/ Reconnect PROVE IInv'
<1> USE DEF IInv, TypeOK, WatchStates, ReadInPart, ServicesKnown, EndpointsCurrent
<1>1. CASE Disconnect
  BY <1>1 DEF Disconnect, tableVars, watcherVars
<1>2. CASE Reconnect
  BY <1>2 DEF Reconnect, doWatch
<1> QED
  BY <1>1, <1>2

LEMMA StepIInv == IInv /\ [Next]_vars => IInv'
<1> SUFFICES ASSUME IInv, [Next]_vars PROVE IInv'
  OBVIOUS
<1>1. CASE Table
  BY <1>1, TableIInv, NewServiceIInv DEF Table
<1>2. CASE \E s \in Services : Watcher(s)
  BY <1>2, WatcherIInv
<1>3. CASE \E s \in Services :
             AddService(s) \/ \E a \in Addrs[s] : Register(s, a) \/ Deregister(s, a)
  BY <1>3, ChangeIInv
<1>4. CASE Disconnect \/ Reconnect
  BY <1>4, ConnectionIInv
<1>5. CASE Ask \/ GetBackService \/ UNCHANGED vars
  BY <1>5 DEF Ask, GetBackService, vars, zk, tableVars, watcherVars, IInv, TypeOK,
              ReadInPart, ServicesKnown, EndpointsCurrent
<1> QED
  BY <1>1, <1>2, <1>3, <1>4, <1>5 DEF Next

(***************************************************************************)
(* The inductive invariant holds in every reachable state.                 *)
(***************************************************************************)
THEOREM DiscoveryInvariant == Spec => []IInv
  BY InitIInv, StepIInv, PTL DEF Spec

(***************************************************************************)
(* While the table goroutine waits for a watch that has nothing to tell,   *)
(* every service in zookeeper is in the table.                             *)
(***************************************************************************)
THEOREM AllServicesAreKnown == Spec => []ServicesKnown
<1>1. IInv => ServicesKnown
  BY DEF IInv
<1> QED
  BY <1>1, DiscoveryInvariant, PTL

(***************************************************************************)
(* While a watcher waits for a watch that has nothing to tell, the active  *)
(* area has the endpoints in zookeeper and no other, but for those whose   *)
(* read failed when the connection broke.                                  *)
(***************************************************************************)
THEOREM EndpointsAreCurrent == Spec => []EndpointsCurrent
<1>1. IInv => EndpointsCurrent
  BY DEF IInv
<1> QED
  BY <1>1, DiscoveryInvariant, PTL
=============================================================================
