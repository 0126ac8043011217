---------------------------- MODULE Registration ----------------------------
(***************************************************************************)
(* How a load balancer stands in zookeeper: demo/rpc_lb.go registers its   *)
(* endpoint at start, a monitor goroutine registers it again when the      *)
(* session expires, and the main loop takes it out on SIGTERM, all of them *)
(* through zk/topology.go.  The errors of those calls are ignored.         *)
(*                                                                         *)
(* Zookeeper and its client are external.  The endpoint is an ephemeral    *)
(* node: it goes with the session that created it.  A process that lives   *)
(* keeps its session as long as it is connected.  A client that finds its  *)
(* session expired opens another, and tells the watch it had set, if any,  *)
(* EventNotWatching.  A call made while the client is not connected fails. *)
(*                                                                         *)
(* pc gives each thread the next zookeeper call it makes, or what it waits *)
(* for.  isAlive is pc["main"] = "serving": main clears it as it turns to  *)
(* the delete.  A Tick is a second.                                        *)
(***************************************************************************)
EXTENDS Integers, FiniteSets

CONSTANTS
  Sessions,        \* bound: sessions that may be known at once
  None,
  SessionTimeout   \* the second argument of ConnectToZk: 30

ASSUME RegistrationAssumption ==
  /\ None \notin Sessions
  /\ SessionTimeout \in Nat \ {0}

VARIABLES
  pc,         \* what "main" and "monitor" do next
  mine,       \* the session of the process, None while there is no process
  connected,  \* whether the client reaches zookeeper
  watch,      \* the monitor's watch: "none", "set", "changed", "expired"
  live,       \* the sessions zookeeper keeps
  age,        \* ticks since zookeeper last heard of a session
  dir,        \* whether the node of the service exists
  owner       \* the session that created the endpoint, None without endpoint

client == <<mine, connected, watch>>
zk == <<live, age, dir, owner>>
vars == <<pc, client, zk>>

Threads == {"main", "monitor"}

Alive == pc["main"] \in {"dir", "clear", "create", "serving"}
isAlive == pc["main"] = "serving"

Works == connected /\ mine \in live

Goto(who, where) == pc' = [pc EXCEPT ![who] = where]

Init ==
  /\ pc = [who \in Threads |-> "off"]
  /\ mine = None /\ connected = FALSE /\ watch = "none"
  /\ live = {} /\ age = [s \in Sessions |-> 0]
  /\ dir = FALSE /\ owner = None

-----------------------------------------------------------------------------
(***************************************************************************)
(* AddServiceEndPoint, a step for each call it makes, for either thread.   *)
(***************************************************************************)
CreateDir(who) ==
  /\ pc[who] = "dir"
  /\ Goto(who, "clear")
  /\ dir' = (dir \/ Works)
  /\ UNCHANGED <<client, live, age, owner>>

\* Mutant: the node of an earlier session stays.
ClearNothing(who) ==
  /\ pc[who] = "clear"
  /\ Goto(who, "create")
  /\ UNCHANGED <<client, zk>>

\* A node left by an earlier session is deleted first.
Clear(who) ==
  /\ pc[who] = "clear"
  /\ Goto(who, "create")
  /\ owner' = IF Works THEN None ELSE owner
  /\ UNCHANGED <<client, live, age, dir>>

\* Mutant: a node that is not ephemeral.
CreatePersistent(who) ==
  /\ pc[who] = "create"
  /\ pc' = IF who = "main" THEN [pc EXCEPT !["main"] = "serving", !["monitor"] = "watch"]
                           ELSE [pc EXCEPT !["monitor"] = "check"]
  /\ owner' = IF Works /\ dir /\ owner = None THEN "nobody" ELSE owner
  /\ UNCHANGED <<client, live, age, dir>>

\* Afterwards main starts the monitor; the monitor goes on with its loop.
Create(who) ==
  /\ pc[who] = "create"
  /\ pc' = IF who = "main" THEN [pc EXCEPT !["main"] = "serving", !["monitor"] = "watch"]
                           ELSE [pc EXCEPT !["monitor"] = "check"]
  /\ owner' = IF Works /\ dir /\ owner = None THEN mine ELSE owner
  /\ UNCHANGED <<client, live, age, dir>>

\* DeleteServiceEndPoint: the monitor goes on to register, main to its end.
Delete(who) ==
  /\ pc[who] = "delete"
  /\ Goto(who, IF who = "main" THEN "leaving" ELSE "dir")
  /\ owner' = IF Works THEN None ELSE owner
  /\ UNCHANGED <<client, live, age, dir>>

-----------------------------------------------------------------------------
(***************************************************************************)
(* The monitor.  WatchNode fails as well while the service has no node.    *)
(***************************************************************************)
WatchNode ==
  /\ pc["monitor"] = "watch"
  /\ IF Works /\ dir THEN watch' = "set" /\ Goto("monitor", "wait")
                     ELSE UNCHANGED watch /\ Goto("monitor", "sleep")
  /\ UNCHANGED <<mine, connected, zk>>

Sleep ==
  /\ pc["monitor"] = "sleep"
  /\ Goto("monitor", "check")
  /\ UNCHANGED <<client, zk>>

\* doWatch passes on every event, whatever it says, and the watch is over.
EventWaits == watch \in {"changed", "expired"}

\* Mutant: every event taken for an expired session.
ReceiveAnyEvent ==
  /\ pc["monitor"] = "wait"
  /\ EventWaits
  /\ Goto("monitor", "delete")
  /\ watch' = "none"
  /\ UNCHANGED <<mine, connected, zk>>

\* Any event ends the watch; one that says the session expired is acted on.
ReceiveEvent ==
  /\ pc["monitor"] = "wait"
  /\ EventWaits
  /\ Goto("monitor", IF watch = "expired" THEN "delete" ELSE "check")
  /\ watch' = "none"
  /\ UNCHANGED <<mine, connected, zk>>

CheckAlive ==
  /\ pc["monitor"] = "check"
  /\ Goto("monitor", IF isAlive THEN "watch" ELSE "done")
  /\ UNCHANGED <<client, zk>>

-----------------------------------------------------------------------------
(***************************************************************************)
(* The process: it starts with a session of its own, may be killed at any  *)
(* point, and when told to stop takes its endpoint out and leaves later.   *)
(***************************************************************************)
Start ==
  /\ pc["main"] = "off"
  /\ \E s \in Sessions \ live :
       /\ mine' = s
       /\ live' = live \cup {s}
       /\ age' = [age EXCEPT ![s] = 0]
  /\ connected' = TRUE
  /\ Goto("main", "dir")
  /\ UNCHANGED <<watch, dir, owner>>

Signal ==
  /\ isAlive
  /\ Goto("main", "delete")
  /\ UNCHANGED <<client, zk>>

End ==
  /\ pc' = [who \in Threads |-> "off"]
  /\ mine' = None /\ connected' = FALSE /\ watch' = "none"
  /\ UNCHANGED zk

Exit == pc["main"] = "leaving" /\ End

Crash == pc["main"] # "off" /\ End

-----------------------------------------------------------------------------
(***************************************************************************)
(* Zookeeper, its client, the network and the clock.                       *)
(***************************************************************************)
Disconnect ==
  /\ connected
  /\ connected' = FALSE
  /\ UNCHANGED <<pc, mine, watch, zk>>

Reconnect ==
  /\ mine # None /\ ~connected
  /\ connected' = TRUE
  /\ \/ /\ mine \in live
        /\ age' = [age EXCEPT ![mine] = 0]
        /\ UNCHANGED <<mine, watch, live>>
     \/ /\ mine \notin live
        /\ \E s \in Sessions \ (live \cup {mine}) :
             /\ mine' = s
             /\ live' = live \cup {s}
             /\ age' = [age EXCEPT ![s] = 0]
        /\ watch' = IF watch = "set" THEN "expired" ELSE watch
  /\ UNCHANGED <<pc, dir, owner>>

\* An operator writes to the node of the service.
DirChanges ==
  /\ watch = "set" /\ Works
  /\ watch' = "changed"
  /\ UNCHANGED <<pc, mine, connected, zk>>

Expire(s) ==
  /\ s \in live /\ age[s] >= SessionTimeout
  /\ live' = live \ {s}
  /\ age' = [age EXCEPT ![s] = 0]
  /\ owner' = IF owner = s THEN None ELSE owner
  /\ UNCHANGED <<pc, client, dir>>

Heard(s) == connected /\ s = mine

Tick ==
  /\ \A s \in live : age[s] < SessionTimeout
  /\ \E s \in live : ~Heard(s)
  /\ age' = [s \in Sessions |-> IF s \in live /\ ~Heard(s) THEN age[s] + 1 ELSE 0]
  /\ UNCHANGED <<pc, client, live, dir, owner>>

Add(who) == CreateDir(who) \/ Clear(who) \/ Create(who) \/ Delete(who)

Monitor == Add("monitor") \/ WatchNode \/ Sleep \/ ReceiveEvent \/ CheckAlive

Main == Add("main") \/ Start \/ Signal \/ Exit \/ Crash

Surroundings ==
  Disconnect \/ Reconnect \/ DirChanges \/ (\E s \in Sessions : Expire(s)) \/ Tick

Next == Main \/ Monitor \/ Surroundings

Spec == Init /\ [][Next]_vars

(***************************************************************************)
(* The goroutines are scheduled, time passes, and a session nobody keeps   *)
(* expires.  Nothing promises that the network comes back, that a process  *)
(* starts again, or that it is told to stop.                               *)
(***************************************************************************)
FairSpec ==
  /\ Spec
  /\ WF_vars(Monitor) /\ WF_vars(Add("main"))
  /\ WF_vars(Tick) /\ \A s \in Sessions : WF_vars(Expire(s))

-----------------------------------------------------------------------------
(***************************************************************************)
(* Types; the endpoint belongs to a session zookeeper keeps.               *)
(***************************************************************************)
Calls == {"dir", "clear", "create", "delete"}
Places == Calls \cup {"off", "serving", "leaving", "watch", "wait", "sleep", "check", "done"}

TypeOK ==
  /\ pc \in [Threads -> Places]
  /\ pc["main"] \in Calls \cup {"off", "serving", "leaving"}
  /\ mine \in Sessions \cup {None}
  /\ connected \in BOOLEAN /\ dir \in BOOLEAN
  /\ watch \in {"none", "set", "changed", "expired"}
  /\ live \subseteq Sessions
  /\ age \in [Sessions -> 0..SessionTimeout]
  /\ owner \in live \cup {None}

(***************************************************************************)
(* The monitor repairs registrations, it does not break them: while the    *)
(* process is alive, connected and in the session it registered with, no   *)
(* step takes its endpoint away, whatever the monitor is told.             *)
(***************************************************************************)
KeepsItsEndpoint ==
  [][owner = mine /\ mine # None /\ isAlive' /\ connected' /\ mine' = mine
       => owner' = mine]_vars

\* The inductive invariant of RegistrationProofs.
IInv ==
  /\ TypeOK
  /\ mine = None <=> pc["main"] = "off"
  /\ connected => mine # None /\ age[mine] = 0
  /\ pc["monitor"] # "off" => pc["main"] \in {"serving", "delete", "leaving"}
  /\ watch # "none" => pc["monitor"] = "wait"
  /\ pc["monitor"] \in Calls \/ watch = "expired" => owner # mine

(***************************************************************************)
(* A process that starts, or that learns from its watch that its session   *)
(* expired, owns the endpoint in the end if its connection holds from then *)
(* on: a node that an earlier process or session left behind, which would  *)
(* vanish with that session, does not stand in for it                      *)
(* (zk/topology.go:136, the gotcha with ephemeral nodes).                  *)
(***************************************************************************)
RegistersAgain ==
  [](pc["main"] = "dir" \/ (watch = "expired" /\ Alive)
       => (<>(owner = mine \/ ~Alive) \/ ~[]connected))

(***************************************************************************)
(* The endpoint of a process that is gone leaves zookeeper, unless another *)
(* process starts.                                                         *)
(***************************************************************************)
GoneIsDelisted == pc["main"] = "off" ~> (owner = None \/ pc["main"] # "off")

(***************************************************************************)
(* "Session过期了，则需要删除之前的数据，因为这个数据的Owner不是当前的Session"       *)
(* (demo/rpc_lb.go:230: once the session expired the data must be deleted, *)
(* their owner not being the current session; it then registers anew).  A  *)
(* process that owned its endpoint while serving owns it again and again,  *)
(* as long as it serves and if its connection holds from some point on.    *)
(***************************************************************************)
StaysRegistered ==
  [](isAlive /\ owner = mine
       => ([]<>(owner = mine) \/ <>~isAlive \/ ~<>[]connected))
=============================================================================
