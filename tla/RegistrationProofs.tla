------------------------- MODULE RegistrationProofs -------------------------
(***************************************************************************)
(* Theorems about Registration, for any sessions and timeout.  What has to *)
(* be carried along is that the monitor is at its delete, or about to be,  *)
(* only while the endpoint belongs to a session other than the current     *)
(* one: that is why its delete never takes a registration that is good.    *)
(***************************************************************************)
EXTENDS Registration, TLAPS

LEMMA InitIInv == Init => IInv
<1> SUFFICES ASSUME Init PROVE IInv
  OBVIOUS
<1>1. pc["main"] = "off" /\ pc["monitor"] = "off"
  BY DEF Init, Threads
<1>2. TypeOK
  <2>1. pc \in [Threads -> Places]
    BY DEF Init, Places
  <2>2. age \in [Sessions -> 0..SessionTimeout]
    BY RegistrationAssumption DEF Init
  <2> QED
    BY <1>1, <2>1, <2>2 DEF Init, TypeOK
<1> QED
  BY <1>1, <1>2 DEF Init, IInv, Calls

\* The steps of AddServiceEndPoint and DeleteServiceEndPoint, by either thread.
LEMMA AddIInv ==
  ASSUME IInv, NEW who \in Threads, Add(who)
  PROVE  IInv'
<1> USE RegistrationAssumption
    DEF IInv, TypeOK, Calls, Places, Threads, Works, Goto, client, zk
<1>1. CASE CreateDir(who)
  BY <1>1 DEF CreateDir
<1>2. CASE Clear(who)
  BY <1>2 DEF Clear
<1>3. CASE Create(who)
  BY <1>3 DEF Create
<1>4. CASE Delete(who)
  BY <1>4 DEF Delete
<1> QED
  BY <1>1, <1>2, <1>3, <1>4 DEF Add

LEMMA MonitorIInv == IInv /\ Monitor => IInv'
<1> SUFFICES ASSUME IInv, Monitor PROVE IInv'
  OBVIOUS
<1>1. CASE Add("monitor")
  BY <1>1, AddIInv DEF Threads
<1> USE RegistrationAssumption
    DEF IInv, TypeOK, Calls, Places, Threads, Works, Goto, client, zk, isAlive
<1>2. CASE WatchNode
  BY <1>2 DEF WatchNode
<1>3. CASE Sleep
  BY <1>3 DEF Sleep
<1>4. CASE ReceiveEvent
  BY <1>4 DEF ReceiveEvent, EventWaits
<1>5. CASE CheckAlive
  BY <1>5 DEF CheckAlive
<1> QED
  BY <1>1, <1>2, <1>3, <1>4, <1>5 DEF Monitor

LEMMA MainIInv == IInv /\ Main => IInv'
<1> SUFFICES ASSUME IInv, Main PROVE IInv'
  OBVIOUS
<1>1. CASE Add("main")
  BY <1>1, AddIInv DEF Threads
<1> USE RegistrationAssumption
    DEF IInv, TypeOK, Calls, Places, Threads, Goto, client, zk, isAlive
<1>2. CASE Start
  BY <1>2 DEF Start
<1>3. CASE Signal
  BY <1>3 DEF Signal
<1>4. CASE Exit \/ Crash
  BY <1>4 DEF Exit, Crash, End
<1> QED
  BY <1>1, <1>2, <1>3, <1>4 DEF Main

LEMMA SurroundingsIInv == IInv /\ Surroundings => IInv'
<1> SUFFICES ASSUME IInv, Surroundings PROVE IInv'
  OBVIOUS
<1> USE RegistrationAssumption
    DEF IInv, TypeOK, Calls, Places, Threads, Works, client, zk
<1>1. CASE Disconnect
  BY <1>1 DEF Disconnect
<1>2. CASE Reconnect
  BY <1>2 DEF Reconnect
<1>3. CASE DirChanges
  BY <1>3 DEF DirChanges
<1>4. ASSUME NEW s \in Sessions, Expire(s) PROVE IInv'
  BY <1>4 DEF Expire
<1>5. CASE Tick
  BY <1>5 DEF Tick, Heard
<1> QED
  BY <1>1, <1>2, <1>3, <1>4, <1>5 DEF Surroundings

LEMMA StepIInv == IInv /\ [Next]_vars => IInv'
<1>1. IInv /\ UNCHANGED vars => IInv'
  BY DEF IInv, TypeOK, vars, client, zk
<1> QED
  BY <1>1, MonitorIInv, MainIInv, SurroundingsIInv DEF Next

(***************************************************************************)
(* The inductive invariant holds in every reachable state.                 *)
(***************************************************************************)
THEOREM RegistrationInvariant == Spec => []IInv
  BY InitIInv, StepIInv, PTL DEF Spec

(***************************************************************************)
(* The state is well typed, and the endpoint always belongs to a session   *)
(* that zookeeper keeps.                                                   *)
(***************************************************************************)
THEOREM RegistrationTypes == Spec => []TypeOK
<1>1. IInv => TypeOK
  BY DEF IInv
<1> QED
  BY <1>1, RegistrationInvariant, PTL

\* Only the threads' clear and delete, and an expiry, take an endpoint away.
LEMMA AddKeeps ==
  ASSUME IInv, NEW who \in Threads, Add(who),
         owner = mine, mine # None, isAlive'
  PROVE  owner' = mine
<1> USE DEF IInv, TypeOK, Calls, Places, Threads, Goto, client, zk, isAlive
<1>1. CASE CreateDir(who)
  BY <1>1 DEF CreateDir
<1>2. CASE Clear(who)
  BY <1>2 DEF Clear
<1>3. CASE Create(who)
  BY <1>3 DEF Create
<1>4. CASE Delete(who)
  BY <1>4 DEF Delete
<1> QED
  BY <1>1, <1>2, <1>3, <1>4 DEF Add

LEMMA ExpireKeeps ==
  ASSUME IInv, NEW s \in Sessions, Expire(s), owner = mine, mine # None, connected'
  PROVE  owner' = mine
  BY RegistrationAssumption DEF IInv, TypeOK, Expire, client

LEMMA StepKeeps ==
  ASSUME IInv, [Next]_vars, owner = mine, mine # None, isAlive', connected', mine' = mine
  PROVE  owner' = mine
<1>1. CASE Add("main") \/ Add("monitor")
  BY <1>1, AddKeeps DEF Threads
<1>2. CASE \E s \in Sessions : Expire(s)
  BY <1>2, ExpireKeeps
<1>3. CASE WatchNode \/ Sleep \/ ReceiveEvent \/ CheckAlive
  BY <1>3 DEF WatchNode, Sleep, ReceiveEvent, CheckAlive, client, zk
<1>4. CASE Start \/ Signal \/ Exit \/ Crash
  BY <1>4 DEF Start, Signal, Exit, Crash, End, client, zk
<1>5. CASE Disconnect \/ Reconnect \/ DirChanges \/ Tick
  BY <1>5 DEF Disconnect, Reconnect, DirChanges, Tick, client, zk
<1>6. CASE UNCHANGED vars
  BY <1>6 DEF vars, zk
<1> QED
  BY <1>1, <1>2, <1>3, <1>4, <1>5, <1>6 DEF Next, Main, Monitor, Surroundings

(***************************************************************************)
(* No step takes the endpoint from a process that is alive, connected and  *)
(* in the session it registered with.                                      *)
(***************************************************************************)
THEOREM EndpointsAreKept == Spec => KeepsItsEndpoint
<1>1. IInv /\ [Next]_vars =>
        [owner = mine /\ mine # None /\ isAlive' /\ connected' /\ mine' = mine
           => owner' = mine]_vars
  BY StepKeeps
<1> QED
  BY <1>1, RegistrationInvariant, PTL DEF Spec, KeepsItsEndpoint
=============================================================================
