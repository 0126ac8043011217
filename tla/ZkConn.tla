------------------------------- MODULE ZkConn -------------------------------
(***************************************************************************)
(* utils/zk.go: a zookeeper connection that is rebuilt when it breaks.     *)
(* The builder holds one connection, shared by two instances.  A call      *)
(* through the safe one tries again after each connection error, with a    *)
(* resetConnection before; a call through the unsafe one returns the       *)
(* error, and starts a goroutine that does.  Calls hold the read lock, and *)
(* resetConnection the write lock.                                         *)
(*                                                                         *)
(* What is done under the write lock is one action: nobody reads the       *)
(* connection without the lock.  The connection, the server behind it and  *)
(* the builder's function are external: a connection breaks and may come   *)
(* back by itself, and the function may fail.                              *)
(***************************************************************************)
EXTENDS Integers, FiniteSets

CONSTANTS
  Safe, Unsafe,   \* the users of either instance
  Conns,          \* the connections there are; closed ones are used again
  None,
  retryMaxOnOps,  \* 10
  MaxResets       \* bound: goroutines of unsafe calls that wait for the lock

Users == Safe \cup Unsafe

ASSUME ZkConnAssumption ==
  /\ None \notin Conns \cup Users \cup {"late"} /\ Safe \cap Unsafe = {}
  /\ retryMaxOnOps \in Nat /\ MaxResets \in Nat

VARIABLES
  connection, safeConn, unsafeConn,  \* of the builder, and of its two instances
  open,    \* the connections that are not closed
  broken,  \* those that do not reach zookeeper
  young,   \* whether createdOn is less than a second ago
  pc,      \* each user: "idle", "RLock", "call", "reset"
  on,      \* the connection its call is made on
  i,       \* the loop variable of a safe call
  writer,  \* who waits for the write lock or has it: it keeps new readers out
  resets,  \* goroutines of unsafe calls that have yet to reset
  fatal    \* log.Fatal: "no", "builder" or "retries"

builder == <<connection, safeConn, unsafeConn, open, young>>
calls == <<pc, on, i>>
connVars == <<builder, broken, calls, writer, resets, fatal>>

Running == fatal = "no"
Readers == {u \in Users : pc[u] = "call"}

\* The constructor returns after one reset, of a createdOn long ago.
NewConnBuilder ==
  \E c \in Conns :
    connection = c /\ safeConn = c /\ unsafeConn = c /\ open = {c}

ConnInit ==
  /\ NewConnBuilder
  /\ broken = {} /\ young = TRUE
  /\ pc = [u \in Users |-> "idle"]
  /\ on = [u \in Users |-> None] /\ i = [u \in Users |-> 0]
  /\ writer = None /\ resets = 0 /\ fatal = "no"

-----------------------------------------------------------------------------
\* Mutant: the new connection is given to one instance.
BuildForSafe(c) ==
  /\ connection' = c /\ safeConn' = c
  /\ open' = (open \ {connection}) \cup {c}
  /\ young' = TRUE
  /\ UNCHANGED <<unsafeConn, fatal>>

\* The builder's function made connection c, which may not reach zookeeper yet.
Build(c) ==
  /\ connection' = c /\ safeConn' = c /\ unsafeConn' = c
  /\ open' = (open \ {connection}) \cup {c}
  /\ young' = TRUE
  /\ UNCHANGED fatal

\* Mutant: the reset does not wait for the calls in progress.
LockAtOnce == TRUE

AllUnlocked == Readers = {}

\* Mutant: the test the other way round.
OldOnly == ~young

Recent == young

Lock(g) ==
  /\ writer = None
  /\ writer' = g
  /\ UNCHANGED <<builder, broken, calls, resets, fatal>>

resetConnection(g) ==
  /\ writer = g /\ AllUnlocked
  /\ writer' = None
  /\ \/ Recent /\ UNCHANGED <<builder, fatal>>
     \/ ~Recent /\ \E c \in Conns \ open : Build(c)
     \/ /\ ~Recent
        /\ open' = open \ {connection} /\ fatal' = "builder"
        /\ UNCHANGED <<connection, safeConn, unsafeConn, young>>

-----------------------------------------------------------------------------
(***************************************************************************)
(* A call.  The errors of a connection that works are about the node; a    *)
(* write may also be refused for its version or its rights, which          *)
(* isConnectionError takes for an error of the connection.                 *)
(***************************************************************************)
isConnectionError(err) == err \notin {"nil", "NoNode", "NodeExists", "NotEmpty"}

Results(u, errs) == IF on[u] \in broken THEN {"ConnectionClosed"} ELSE {"nil"} \cup errs
ReadResults(u) == Results(u, {"NoNode"})
WriteResults(u) == Results(u, {"NoNode", "NodeExists", "NotEmpty", "BadVersion"})

Start(u) ==
  /\ Running /\ pc[u] = "idle"
  /\ u \in Unsafe => resets < MaxResets
  /\ pc' = [pc EXCEPT ![u] = "RLock"]
  /\ i' = [i EXCEPT ![u] = 0]
  /\ UNCHANGED <<builder, broken, on, writer, resets, fatal>>

RLock(u) ==
  /\ Running /\ pc[u] = "RLock" /\ writer = None
  /\ pc' = [pc EXCEPT ![u] = "call"]
  /\ on' = [on EXCEPT ![u] = IF u \in Safe THEN safeConn ELSE unsafeConn]
  /\ UNCHANGED <<builder, broken, i, writer, resets, fatal>>

\* The call returns, and the read lock is given back.
Return(u, results, then) ==
  /\ Running /\ pc[u] = "call"
  /\ \E err \in results :
       pc' = [pc EXCEPT ![u] = IF isConnectionError(err) THEN then ELSE "idle"]
  /\ on' = [on EXCEPT ![u] = None]
  /\ UNCHANGED <<builder, broken, i, writer, fatal>>

SafeRead(u) ==
  u \in Safe /\ Return(u, ReadResults(u), "reset") /\ UNCHANGED resets

SafeWrite(u) ==
  u \in Safe /\ Return(u, WriteResults(u), "reset") /\ UNCHANGED resets

\* The goroutine that resets the connection goes its own way.
UnsafeCall(u, results) ==
  \/ /\ Return(u, {err \in results : isConnectionError(err)}, "idle")
     /\ resets' = resets + 1
  \/ /\ Return(u, {err \in results : ~isConnectionError(err)}, "idle")
     /\ UNCHANGED resets

UnsafeRead(u) == u \in Unsafe /\ UnsafeCall(u, ReadResults(u))

UnsafeWrite(u) == u \in Unsafe /\ UnsafeCall(u, WriteResults(u))

\* Mutant: the loop has no bound.
AgainForEver(u) ==
  pc' = [pc EXCEPT ![u] = "RLock"] /\ UNCHANGED i

Again(u) ==
  /\ i[u] < retryMaxOnOps
  /\ pc' = [pc EXCEPT ![u] = "RLock"]
  /\ i' = [i EXCEPT ![u] = @ + 1]

\* The reset after a connection error, and another round.
Retry(u) ==
  /\ Running /\ pc[u] = "reset"
  /\ resetConnection(u)
  /\ \/ fatal' = "no" /\ Again(u)
     \/ fatal' = "builder" /\ UNCHANGED <<pc, i>>
  /\ UNCHANGED <<broken, on, resets>>

\* The reset after the last round, and Fatal: whatever it did, the process ends.
GiveUp(u) ==
  /\ Running /\ pc[u] = "reset" /\ i[u] = retryMaxOnOps
  /\ writer = u /\ AllUnlocked
  /\ fatal' = "retries"
  /\ UNCHANGED <<builder, broken, calls, writer, resets>>

LateReset ==
  /\ Running /\ resets > 0
  /\ resetConnection("late")
  /\ resets' = resets - 1
  /\ UNCHANGED <<broken, calls>>

-----------------------------------------------------------------------------
Break == \E c \in open \ broken :
  broken' = broken \cup {c} /\ UNCHANGED <<builder, calls, writer, resets, fatal>>

\* A connection that comes back, or one that was closed and is made anew.
Mend == \E c \in broken :
  broken' = broken \ {c} /\ UNCHANGED <<builder, calls, writer, resets, fatal>>

Tick == young /\ young' = FALSE
          /\ UNCHANGED <<connection, safeConn, unsafeConn, open, broken, calls, writer, resets, fatal>>

Call(u) == SafeRead(u) \/ SafeWrite(u) \/ UnsafeRead(u) \/ UnsafeWrite(u)
LockForRetry(u) == Running /\ pc[u] = "reset" /\ Lock(u)
LockLate == Running /\ resets > 0 /\ Lock("late")

ConnNext ==
  \/ \E u \in Users : Start(u) \/ RLock(u) \/ Call(u)
                      \/ LockForRetry(u) \/ Retry(u) \/ GiveUp(u)
  \/ LockLate \/ LateReset \/ Break \/ Mend \/ Tick

ConnSpec == ConnInit /\ [][ConnNext]_connVars

(***************************************************************************)
(* Calls return, goroutines run, seconds pass.  Nobody who keeps waiting   *)
(* for a lock of sync.RWMutex waits for ever.                              *)
(***************************************************************************)
FairSpec ==
  /\ ConnSpec
  /\ SF_connVars(Tick)
  /\ SF_connVars(LockLate) /\ WF_connVars(LateReset)
  /\ \A u \in Users : /\ SF_connVars(RLock(u)) /\ WF_connVars(Call(u))
                      /\ SF_connVars(LockForRetry(u)) /\ WF_connVars(Retry(u) \/ GiveUp(u))

-----------------------------------------------------------------------------
(***************************************************************************)
(* A connection is closed under no call: each call in progress is on the   *)
(* builder's connection, and that is open, whoever resets it meanwhile.    *)
(***************************************************************************)
NoCallOnClosed ==
  \A u \in Users : pc[u] = "call" => on[u] = connection /\ on[u] \in open

(***************************************************************************)
(* However many calls fail at once, and whichever resets come late, one    *)
(* connection is open, and both instances use it.                          *)
(***************************************************************************)
OneConnection ==
  Running => open = {connection} /\ safeConn = connection /\ unsafeConn = connection

(***************************************************************************)
(* Every call returns, unless the process exits: no user waits for ever,   *)
(* for the lock or for a connection that works.                            *)
(***************************************************************************)
CallsEnd == \A u \in Users : pc[u] # "idle" ~> pc[u] = "idle" \/ ~Running

(***************************************************************************)
(* A connection that stays broken is replaced in the end if a call keeps   *)
(* failing on it, although the resets within a second of the last are      *)
(* dropped.                                                                *)
(***************************************************************************)
BrokenIsReplaced ==
  \A c \in Conns :
    (\A u \in Unsafe : []<>(pc[u] = "call")) =>
      (connection = c /\ c \in broken ~> connection # c \/ c \notin broken \/ ~Running)

\* The inductive invariant of UtilsProofs.
ConnTypeOK ==
  /\ connection \in Conns /\ open \subseteq Conns
  /\ pc \in [Users -> {"idle", "RLock", "call", "reset"}]
  /\ on \in [Users -> Conns \cup {None}]

ConnIInv == ConnTypeOK /\ NoCallOnClosed /\ OneConnection
=============================================================================
