------------------------- MODULE BackSocketsProofs -------------------------
(***************************************************************************)
(* Theorems about BackSockets, for any addresses, sockets and delay.       *)
(*                                                                         *)
(* swap finds the positions it writes through the index fields, so all     *)
(* rests on SwapMoves: on a slice whose indexes are positions, swap        *)
(* exchanges two positions and nothing else, and the indexes follow.       *)
(***************************************************************************)
EXTENDS BackSockets, FiniteSetTheorems, TLAPS

(***************************************************************************)
(* What swap does, of the sockets at positions m and n of a slice q.       *)
(***************************************************************************)
LEMMA SwapMoves ==
  ASSUME NEW q \in Seq(Ids), NEW f \in [Ids -> Int], Positioned(q, f),
         NEW m \in DOMAIN q, NEW n \in DOMAIN q
  PROVE  LET p == SwapSockets(q, f, q[m], q[n])
             g == SwapIndex(f, q[m], q[n])
         IN
         /\ p \in Seq(Ids) /\ Len(p) = Len(q)
         /\ p[m] = q[n] /\ p[n] = q[m]
         /\ \A k \in DOMAIN q : k # m /\ k # n => p[k] = q[k]
         /\ g \in [Ids -> Int] /\ Positioned(p, g)
<1> DEFINE p == SwapSockets(q, f, q[m], q[n])
           g == SwapIndex(f, q[m], q[n])
<1>1. f[q[m]] + 1 = m /\ f[q[n]] + 1 = n /\ q[m] \in Ids /\ q[n] \in Ids
  BY DEF Positioned
<1>2. p = [q EXCEPT ![n] = q[m], ![m] = q[n]]
  BY <1>1 DEF SwapSockets
<1>3. /\ p \in Seq(Ids) /\ Len(p) = Len(q) /\ DOMAIN p = DOMAIN q
      /\ p[m] = q[n] /\ p[n] = q[m]
      /\ \A k \in DOMAIN q : k # m /\ k # n => p[k] = q[k]
  BY <1>1, <1>2
<1>4. g \in [Ids -> Int]
  BY <1>1 DEF SwapIndex
<1>5. ASSUME NEW k \in DOMAIN q PROVE g[p[k]] = k - 1
  <2>1. \A a, b \in DOMAIN q : q[a] = q[b] => a = b
    BY DEF Positioned
  <2>2. CASE k # m /\ k # n
    BY <1>1, <1>3, <2>1, <2>2 DEF SwapIndex, Positioned
  <2>3. CASE k = m
    BY <1>1, <1>3, <2>1, <2>3 DEF SwapIndex, Positioned
  <2>4. CASE k = n
    BY <1>1, <1>3, <2>1, <2>4 DEF SwapIndex, Positioned
  <2> QED
    BY <2>2, <2>3, <2>4
<1> QED
  BY <1>3, <1>4, <1>5 DEF Positioned

\* So no socket gets lost.
LEMMA SwapKeepsAll ==
  ASSUME NEW q \in Seq(Ids), NEW f \in [Ids -> Int], Positioned(q, f),
         NEW m \in DOMAIN q, NEW n \in DOMAIN q
  PROVE  LET p == SwapSockets(q, f, q[m], q[n])
         IN  \A k \in DOMAIN q : \E l \in DOMAIN p : p[l] = q[k]
<1> DEFINE p == SwapSockets(q, f, q[m], q[n])
           g == SwapIndex(f, q[m], q[n])
<1>1. /\ p \in Seq(Ids) /\ Len(p) = Len(q)
      /\ p[m] = q[n] /\ p[n] = q[m]
      /\ \A k \in DOMAIN q : k # m /\ k # n => p[k] = q[k]
      /\ g \in [Ids -> Int] /\ Positioned(p, g)
  BY SwapMoves, Zenon
<1> HIDE DEF p, g
<1>2. DOMAIN p = DOMAIN q
  BY <1>1
<1> SUFFICES ASSUME NEW k \in DOMAIN q PROVE \E l \in DOMAIN p : p[l] = q[k]
  BY DEF p
<1> QED
  BY <1>1, <1>2

LEMMA InitIInv == Init => IInv
<1> SUFFICES ASSUME Init PROVE IInv
  OBVIOUS
<1> USE BackSocketsAssumption DEF Init
<1>1. TypeOK
  BY DEF TypeOK
<1>2. IndexIsPosition
  BY DEF IndexIsPosition, Positioned
<1>3. ActiveAddrs = {}
  BY DEF ActiveAddrs, ActiveSockets
<1>4. ActiveIsListed
  BY <1>3 DEF ActiveIsListed, OneSocketPerAddr
<1>5. LoopsOK
  BY DEF LoopsOK, AllListed
<1> QED
  BY <1>1, <1>2, <1>4, <1>5 DEF IInv

(***************************************************************************)
(* Steps that leave the slice and the loop of the watcher alone.           *)
(***************************************************************************)
LEMMA AreaKept ==
  ASSUME IInv, UNCHANGED <<Sockets, Active, Addr, index, addrSet, todo, j>>,
         writer = "watcher" <=> writer' = "watcher"
  PROVE  /\ IndexIsPosition' /\ ActiveIsListed'
         /\ (writer # "watcher" => todo = {} /\ j = 0)'
         /\ (todo # {} => j = 0)'
         /\ (j <= Active /\ AllListed(0, j))'
         /\ (addrSet \ todo \subseteq ActiveAddrs)'
<1>1. ActiveAddrs' = ActiveAddrs
  BY DEF ActiveAddrs, ActiveSockets
<1>2. AllListed(0, j)' <=> AllListed(0, j)
  BY DEF AllListed, At
<1> QED
  BY <1>1, <1>2 DEF IInv, IndexIsPosition, Positioned, ActiveIsListed, OneSocketPerAddr, LoopsOK

(***************************************************************************)
(* The steps of UpdateEndpointAddrs.                                       *)
(***************************************************************************)
LEMMA LockForUpdateIInv ==
  ASSUME IInv, NEW addrs \in SUBSET Addrs, LockForUpdate(addrs)
  PROVE  IInv'
<1> USE BackSocketsAssumption DEF LockForUpdate, area
<1>1. TypeOK'
  BY DEF IInv, TypeOK
<1>2. IndexIsPosition' /\ OneSocketPerAddr'
  BY DEF IInv, IndexIsPosition, Positioned, ActiveIsListed, OneSocketPerAddr
<1>3. ActiveIsListed'
  BY <1>2 DEF ActiveIsListed
<1>4. LoopsOK'
  BY DEF IInv, LoopsOK, AllListed, TypeOK
<1> QED
  BY <1>1, <1>2, <1>3, <1>4 DEF IInv

(***************************************************************************)
(* addEndpoint, for an address that has no active socket: the new socket s *)
(* ends the active area, and the others there stay in place.               *)
(***************************************************************************)
LEMMA AddedIsActive ==
  ASSUME IInv, NEW s \in Ids, s \notin Listed
  PROVE  LET longer == Append(Sockets, s)
             placed == [index EXCEPT ![s] = Len(Sockets)]
             first  == longer[Active + 1]
             p == SwapSockets(longer, placed, first, s)
             g == SwapIndex(placed, first, s)
         IN  /\ p \in Seq(Ids) /\ Len(p) = Len(Sockets) + 1
             /\ g \in [Ids -> Int] /\ Positioned(p, g)
             /\ p[Active + 1] = s
             /\ \A k \in 1..Active : p[k] = Sockets[k] /\ Sockets[k] # s
<1> DEFINE longer == Append(Sockets, s)
           placed == [index EXCEPT ![s] = Len(Sockets)]
           p == SwapSockets(longer, placed, longer[Active + 1], longer[Len(Sockets) + 1])
           g == SwapIndex(placed, longer[Active + 1], longer[Len(Sockets) + 1])
<1>1. /\ Sockets \in Seq(Ids) /\ Active \in 0..Len(Sockets) /\ index \in [Ids -> Int]
      /\ Positioned(Sockets, index)
  BY DEF IInv, TypeOK, IndexIsPosition
<1>2. /\ longer \in Seq(Ids) /\ Len(longer) = Len(Sockets) + 1
      /\ longer[Len(Sockets) + 1] = s
      /\ \A k \in DOMAIN Sockets : longer[k] = Sockets[k] /\ Sockets[k] # s
  BY <1>1 DEF Listed
<1>3. placed \in [Ids -> Int] /\ Positioned(longer, placed)
  BY <1>1, <1>2 DEF Positioned
<1>4. Active + 1 \in DOMAIN longer /\ Len(Sockets) + 1 \in DOMAIN longer
  BY <1>1, <1>2
<1> HIDE DEF longer, placed
<1>5. /\ p \in Seq(Ids) /\ Len(p) = Len(longer)
      /\ p[Active + 1] = longer[Len(Sockets) + 1]
      /\ \A k \in DOMAIN longer :
            k # Active + 1 /\ k # Len(Sockets) + 1 => p[k] = longer[k]
      /\ g \in [Ids -> Int] /\ Positioned(p, g)
  <2> DEFINE m == Active + 1
             n == Len(Sockets) + 1
  <2>1. m \in DOMAIN longer /\ n \in DOMAIN longer
    BY <1>4
  <2> HIDE DEF m, n
  <2>2. LET pp == SwapSockets(longer, placed, longer[m], longer[n])
            gg == SwapIndex(placed, longer[m], longer[n])
         IN
         /\ pp \in Seq(Ids) /\ Len(pp) = Len(longer)
         /\ pp[m] = longer[n] /\ pp[n] = longer[m]
         /\ \A k \in DOMAIN longer : k # m /\ k # n => pp[k] = longer[k]
         /\ gg \in [Ids -> Int] /\ Positioned(pp, gg)
    BY <1>2, <1>3, <2>1, SwapMoves, Zenon
  <2> QED
    BY <2>2 DEF m, n
<1> HIDE DEF p, g
<1>6. \A k \in 1..Active : p[k] = Sockets[k] /\ Sockets[k] # s
  <2> SUFFICES ASSUME NEW k \in 1..Active PROVE p[k] = Sockets[k] /\ Sockets[k] # s
    OBVIOUS
  <2>1. k \in DOMAIN Sockets /\ k \in DOMAIN longer /\ k # Active + 1 /\ k # Len(Sockets) + 1
    BY <1>1, <1>2
  <2> QED
    BY <1>2, <1>5, <2>1
<1>7. /\ p \in Seq(Ids) /\ Len(p) = Len(Sockets) + 1
      /\ g \in [Ids -> Int] /\ Positioned(p, g)
      /\ p[Active + 1] = s
  BY <1>2, <1>5
<1>8. /\ p = SwapSockets(longer, placed, longer[Active + 1], s)
      /\ g = SwapIndex(placed, longer[Active + 1], s)
  BY <1>2 DEF p, g
<1> QED
  BY <1>6, <1>7, <1>8 DEF longer, placed

LEMMA addEndpointIInv ==
  ASSUME IInv, NEW addr \in Addrs, addEndpoint(addr)
  PROVE  IInv'
<1> USE BackSocketsAssumption
<1>1. writer = "watcher" /\ writer' = "watcher" /\ addr \in todo /\ todo' = todo \ {addr}
      /\ UNCHANGED <<Current, polled, addrSet, j, purge, seen, i, held>>
  BY DEF addEndpoint
<1>2. CASE addr \in ActiveAddrs /\ UNCHANGED <<area, recent>>
  <2>1. UNCHANGED <<Sockets, Active, Addr, index, offline, recent>>
    BY <1>2 DEF area
  <2>2. ActiveAddrs' = ActiveAddrs /\ AllListed(0, j)' = AllListed(0, j)
    BY <1>1, <2>1 DEF ActiveAddrs, ActiveSockets, AllListed, At
  <2>3. TypeOK'
    BY <1>1, <2>1 DEF IInv, TypeOK
  <2>4. IndexIsPosition' /\ ActiveIsListed'
    BY <1>1, <2>1 DEF IInv, IndexIsPosition, Positioned, ActiveIsListed, OneSocketPerAddr
  <2>5. LoopsOK'
    BY <1>1, <1>2, <2>1, <2>2 DEF IInv, LoopsOK
  <2> QED
    BY <2>3, <2>4, <2>5 DEF IInv
<1>3. ASSUME addr \notin ActiveAddrs, NEW s \in Ids, s \notin Listed,
             Sockets' = SwapSockets(Append(Sockets, s), [index EXCEPT ![s] = Len(Sockets)],
                                    Append(Sockets, s)[Active + 1], s),
             index' = SwapIndex([index EXCEPT ![s] = Len(Sockets)],
                                Append(Sockets, s)[Active + 1], s),
             Addr' = [Addr EXCEPT ![s] = addr],
             offline' = [offline EXCEPT ![s] = 0],
             Active' = Active + 1,
             recent' = <<>>
      PROVE  IInv'
  <2>1. /\ Sockets' \in Seq(Ids) /\ Len(Sockets') = Len(Sockets) + 1
        /\ index' \in [Ids -> Int] /\ Positioned(Sockets', index')
        /\ Sockets'[Active + 1] = s
        /\ \A k \in 1..Active : Sockets'[k] = Sockets[k] /\ Sockets[k] # s
    BY <1>3, AddedIsActive
  <2>0. /\ addr \notin ActiveAddrs /\ Active' = Active + 1 /\ recent' = <<>>
        /\ Addr' = [Addr EXCEPT ![s] = addr] /\ offline' = [offline EXCEPT ![s] = 0]
    BY <1>3
  <2>2. Active \in 0..Len(Sockets) /\ Sockets \in Seq(Ids) /\ Addr \in [Ids -> Addrs \cup {None}]
    BY DEF IInv, TypeOK
  <2>3. TypeOK'
    BY <1>1, <2>0, <2>1, <2>2 DEF IInv, TypeOK
  <2>4. IndexIsPosition'
    BY <2>1 DEF IndexIsPosition, Positioned
  <2>5. /\ \A k \in 1..Active : Sockets[k] \in Ids /\ Addr'[Sockets'[k]] = Addr[Sockets[k]]
        /\ Addr'[Sockets'[Active + 1]] = addr
    BY <2>0, <2>1, <2>2
  <2>6. OneSocketPerAddr'
    <3>1. \A k \in 1..Active : Addr[Sockets[k]] # addr
      BY <2>0 DEF ActiveAddrs, ActiveSockets
    <3>2. \A k \in 1..(Active + 1) : k \in 1..Active \/ k = Active + 1
      BY <2>2
    <3>3. SUFFICES ASSUME NEW m \in 1..(Active + 1), NEW n \in 1..(Active + 1),
                          Addr'[Sockets'[m]] = Addr'[Sockets'[n]]
                   PROVE  m = n
      BY <2>0 DEF OneSocketPerAddr
    <3>4. CASE m \in 1..Active /\ n \in 1..Active
      BY <2>5, <3>3, <3>4 DEF IInv, ActiveIsListed, OneSocketPerAddr
    <3> QED
      BY <2>5, <3>1, <3>2, <3>3, <3>4
  <2>7. ActiveIsListed'
    BY <1>1, <2>6 DEF ActiveIsListed
  <2>8. ActiveAddrs \cup {addr} \subseteq ActiveAddrs'
    <3>1. \A k \in 1..Active : k \in 1..Active'
      BY <2>0, <2>2
    <3>2. Active + 1 \in 1..Active'
      BY <2>0, <2>2
    <3> QED
      BY <2>5, <3>1, <3>2 DEF ActiveAddrs, ActiveSockets
  <2>9. LoopsOK'
    BY <1>1, <2>0, <2>2, <2>8 DEF IInv, LoopsOK, AllListed, TypeOK
  <2> QED
    BY <2>3, <2>4, <2>7, <2>9 DEF IInv
<1> QED
  BY <1>2, <1>3 DEF addEndpoint, Free

LEMMA markOfflineIInv == IInv /\ markOffline => IInv'
<1> SUFFICES ASSUME IInv, markOffline,
                    NEW r \in j..(Active - 1),
                    AllListed(j, r), Addr[Sockets[r + 1]] \notin addrSet,
                    Sockets' = SwapSockets(Sockets, index, Sockets[r + 1],
                                           Sockets[Active - 1 + 1]),
                    index' = SwapIndex(index, Sockets[r + 1], Sockets[Active - 1 + 1]),
                    offline' = [offline EXCEPT ![Sockets[r + 1]] = 0],
                    j' = r
             PROVE  IInv'
  BY DEF markOffline, At
<1> USE BackSocketsAssumption
<1> DEFINE p == SwapSockets(Sockets, index, Sockets[r + 1], Sockets[Active])
           g == SwapIndex(index, Sockets[r + 1], Sockets[Active])
<1>1. /\ writer = "watcher" /\ todo = {} /\ AllListed(j, r)
      /\ Addr[Sockets[r + 1]] \notin addrSet
      /\ j' = r /\ Active' = Active - 1 /\ recent' = <<>>
      /\ offline' = [offline EXCEPT ![Sockets[r + 1]] = 0]
      /\ UNCHANGED <<todo, purge, seen, i, Addr, Current, polled, writer, addrSet, held>>
  BY DEF markOffline, At
<1>2. /\ Sockets \in Seq(Ids) /\ Active \in 0..Len(Sockets) /\ index \in [Ids -> Int]
      /\ Positioned(Sockets, index) /\ j \in Nat /\ j \in 0..Active
  BY DEF IInv, TypeOK, IndexIsPosition, LoopsOK
<1>3. /\ Active \in Int /\ Active - 1 + 1 = Active /\ DOMAIN Sockets = 1..Len(Sockets)
      /\ Len(Sockets) \in Nat /\ Active <= Len(Sockets) /\ j \in Nat /\ j \in 0..Active
  BY <1>2
<1>15. r \in Nat /\ j <= r /\ r < Active /\ Active' = Active - 1
  BY <1>1, <1>3
<1>4. Sockets' = p /\ index' = g
  BY <1>3
<1>5. r + 1 \in 1..Active /\ r + 1 \in DOMAIN Sockets /\ Active \in DOMAIN Sockets
  BY <1>3, <1>15
<1>6. /\ p \in Seq(Ids) /\ Len(p) = Len(Sockets)
      /\ p[r + 1] = Sockets[Active] /\ p[Active] = Sockets[r + 1]
      /\ \A k \in DOMAIN Sockets : k # r + 1 /\ k # Active => p[k] = Sockets[k]
      /\ g \in [Ids -> Int] /\ Positioned(p, g)
  <2> DEFINE m == r + 1
  <2>1. m \in DOMAIN Sockets
    BY <1>5
  <2> HIDE DEF m
  <2>2. LET pp == SwapSockets(Sockets, index, Sockets[m], Sockets[Active])
            gg == SwapIndex(index, Sockets[m], Sockets[Active])
        IN  /\ pp \in Seq(Ids) /\ Len(pp) = Len(Sockets)
            /\ pp[m] = Sockets[Active] /\ pp[Active] = Sockets[m]
            /\ \A k \in DOMAIN Sockets : k # m /\ k # Active => pp[k] = Sockets[k]
            /\ gg \in [Ids -> Int] /\ Positioned(pp, gg)
    BY <1>2, <1>5, <2>1, SwapMoves, Zenon
  <2> QED
    BY <2>2 DEF m
<1> HIDE DEF p, g
<1>7. TypeOK'
  <2>1. Active' \in 0..Len(Sockets')
    BY <1>3, <1>4, <1>6, <1>15
  <2>2. offline' \in [Ids -> 0..(OfflineSeconds + 1)]
    BY <1>1, <1>2, <1>5 DEF IInv, TypeOK
  <2> QED
    <3>1. Sockets' \in Seq(Ids) /\ index' \in [Ids -> Int] /\ j' \in Nat /\ recent' \in Seq(Ids)
      BY <1>1, <1>4, <1>6, <1>15
    <3>2. /\ Current' \in Nat /\ Addr' \in [Ids -> Addrs \cup {None}] /\ polled' \subseteq Ids
          /\ writer' \in {None, "watcher", "purger"}
          /\ todo' \subseteq addrSet' /\ addrSet' \subseteq Addrs
          /\ purge' \in {"idle", "loaded", "locking", "purging"}
          /\ seen' \in [of : {"Active", "len"}, is : Nat]
          /\ i' \in Nat /\ held' \in Ids \cup {None}
      BY <1>1 DEF IInv, TypeOK
    <3> QED
      BY <2>1, <2>2, <3>1, <3>2 DEF TypeOK
<1>8. IndexIsPosition'
  BY <1>4, <1>6 DEF IndexIsPosition, Positioned
<1>9. \A k \in 1..Active' : k \in 1..Active /\ k \in DOMAIN Sockets /\ k # Active
  BY <1>3, <1>15
<1>10. OneSocketPerAddr'
  <2> SUFFICES ASSUME NEW m \in 1..Active', NEW n \in 1..Active',
                      Addr[p[m]] = Addr[p[n]]
               PROVE  m = n
    BY <1>1, <1>4 DEF OneSocketPerAddr
  <2>1. \A a, b \in 1..Active : Addr[Sockets[a]] = Addr[Sockets[b]] => a = b
    BY DEF IInv, ActiveIsListed, OneSocketPerAddr
  <2>2. /\ m \in 1..Active /\ m \in DOMAIN Sockets /\ m # Active
        /\ n \in 1..Active /\ n \in DOMAIN Sockets /\ n # Active
        /\ Active \in 1..Active
    BY <1>2, <1>5, <1>9
  <2>3. p[m] = IF m = r + 1 THEN Sockets[Active] ELSE Sockets[m]
    BY <1>6, <2>2
  <2>4. p[n] = IF n = r + 1 THEN Sockets[Active] ELSE Sockets[n]
    BY <1>6, <2>2
  <2> QED
    BY <2>1, <2>2, <2>3, <2>4
<1>11. ActiveIsListed'
  BY <1>1, <1>10 DEF ActiveIsListed
\* Of the active addresses only the one marked, not listed, goes.
<1>12. addrSet \subseteq ActiveAddrs'
  <2> SUFFICES ASSUME NEW a \in addrSet PROVE \E k \in 1..Active' : Addr[p[k]] = a
    BY <1>1, <1>4 DEF ActiveAddrs, ActiveSockets
  <2>1. PICK m \in 1..Active : Addr[Sockets[m]] = a
    BY <1>1 DEF IInv, LoopsOK, ActiveAddrs, ActiveSockets
  <2>2. m # r + 1
    BY <1>1, <2>1
  <2>3. CASE m = Active
    <3>1. p[r + 1] = Sockets[Active] /\ r + 1 \in 1..Active'
      BY <1>3, <1>5, <1>6, <1>15, <2>2, <2>3
    <3> QED
      BY <2>1, <2>3, <3>1
  <2>4. CASE m # Active
    <3>1. m \in DOMAIN Sockets /\ m \in 1..Active'
      BY <1>3, <1>15, <2>4
    <3>2. p[m] = Sockets[m]
      BY <1>6, <2>2, <2>4, <3>1
    <3> QED
      BY <2>1, <3>1, <3>2
  <2> QED
    BY <2>3, <2>4
<1>13. AllListed(0, j)'
  <2> SUFFICES ASSUME NEW k \in 0..(r - 1) PROVE Addr[p[k + 1]] \in addrSet
    BY <1>1, <1>4 DEF AllListed, At
  <2>1. k + 1 \in DOMAIN Sockets /\ k + 1 # r + 1 /\ k + 1 # Active
    BY <1>3, <1>5, <1>15
  <2>2. p[k + 1] = Sockets[k + 1]
    BY <1>6, <2>1
  <2>3. k \in 0..(j - 1) \/ k \in j..(r - 1)
    BY <1>3, <1>15
  <2>4. AllListed(0, j) /\ AllListed(j, r)
    BY <1>1 DEF IInv, LoopsOK
  <2> QED
    BY <2>2, <2>3, <2>4 DEF AllListed, At
<1>14. LoopsOK'
  <2>1. j' <= Active'
    BY <1>1, <1>3, <1>15
  <2>2. writer # "purger" /\ purge # "purging"
    BY <1>1 DEF IInv, LoopsOK
  <2> QED
    BY <1>1, <1>12, <1>13, <2>1, <2>2 DEF LoopsOK
<1> QED
  BY <1>7, <1>8, <1>11, <1>14 DEF IInv

LEMMA UpdateDoneIInv == IInv /\ UpdateDone => IInv'
<1> SUFFICES ASSUME IInv, UpdateDone PROVE IInv'
  OBVIOUS
<1> USE BackSocketsAssumption DEF UpdateDone, area
<1>1. TypeOK'
  BY DEF IInv, TypeOK
<1>2. IndexIsPosition' /\ OneSocketPerAddr'
  BY DEF IInv, IndexIsPosition, Positioned, ActiveIsListed, OneSocketPerAddr
<1>3. ActiveAddrs = addrSet
  <2>1. addrSet \subseteq ActiveAddrs
    BY DEF IInv, LoopsOK
  <2>2. Active \in Int /\ j \in Int /\ 0 <= j
    BY DEF IInv, TypeOK
  <2>3. \A k \in 0..(Active - 1) : Addr[At(k)] \in addrSet
    <3>1. \A k \in 0..(Active - 1) : k \in 0..(j - 1) \/ k \in j..(Active - 1)
      BY <2>2
    <3> QED
      BY <3>1 DEF IInv, LoopsOK, AllListed
  <2>4. ASSUME NEW n \in 1..Active PROVE Addr[Sockets[n]] \in addrSet
    <3>1. n - 1 \in 0..(Active - 1) /\ n - 1 + 1 = n
      BY <2>2
    <3> QED
      BY <2>3, <3>1 DEF At
  <2> QED
    BY <2>1, <2>4 DEF ActiveAddrs, ActiveSockets
<1>4. ActiveIsListed'
  BY <1>2, <1>3 DEF ActiveIsListed, ActiveAddrs, ActiveSockets
<1>5. LoopsOK'
  <2>1. Active \in Nat /\ j' = 0 /\ todo' = {}
    BY DEF IInv, TypeOK
  <2>2. AllListed(0, j)'
    BY <2>1 DEF AllListed
  <2>3. (addrSet \ todo \subseteq ActiveAddrs)'
    BY <1>3 DEF ActiveAddrs, ActiveSockets
  <2>4. purge # "purging"
    BY DEF IInv, LoopsOK
  <2> QED
    BY <2>1, <2>2, <2>3, <2>4 DEF LoopsOK
<1> QED
  BY <1>1, <1>2, <1>4, <1>5 DEF IInv

(***************************************************************************)
(* The steps of PurgeEndpoints.                                            *)
(***************************************************************************)
LEMMA PurgeTestIInv == IInv /\ (PurgeLoad \/ PurgeTest) => IInv'
<1> SUFFICES ASSUME IInv, PurgeLoad \/ PurgeTest PROVE IInv'
  OBVIOUS
<1>1. /\ UNCHANGED <<Sockets, Active, Addr, index, offline>>
      /\ UNCHANGED <<Current, polled, writer, addrSet, todo, j, i, held, recent>>
      /\ purge # "purging" /\ purge' \in {"idle", "loaded", "locking"}
      /\ seen' \in [of : {"Active", "len"}, is : Nat]
  BY DEF PurgeLoad, PurgeTest, area, IInv, TypeOK
<1>2. TypeOK'
  BY <1>1 DEF IInv, TypeOK
<1>3. LoopsOK'
  BY <1>1, AreaKept DEF IInv, LoopsOK
<1> QED
  BY <1>1, <1>2, <1>3, AreaKept DEF IInv

LEMMA LockForPurgeIInv == IInv /\ LockForPurge => IInv'
<1> SUFFICES ASSUME IInv, LockForPurge PROVE IInv'
  OBVIOUS
<1> USE BackSocketsAssumption DEF LockForPurge, area
<1>1. TypeOK'
  BY DEF IInv, TypeOK
<1>2. LoopsOK'
  BY AreaKept DEF LoopsOK, IInv, TypeOK
<1> QED
  BY <1>1, <1>2, AreaKept DEF IInv

(***************************************************************************)
(* PurgeDrop takes out a socket past the active area, which stays as it is.*)
(***************************************************************************)
LEMMA DropKeepsActive ==
  ASSUME IInv, NEW r \in i..(Len(Sockets) - 1), Active <= i
  PROVE  LET s == Sockets[r + 1]
             p == SubSeq(SwapSockets(Sockets, index, s, Sockets[Len(Sockets)]),
                         1, Len(Sockets) - 1)
             g == [SwapIndex(index, s, Sockets[Len(Sockets)]) EXCEPT ![s] = -1]
         IN  /\ p \in Seq(Ids) /\ Len(p) = Len(Sockets) - 1 /\ Active <= Len(p)
             /\ g \in [Ids -> Int] /\ Positioned(p, g)
             /\ \A k \in 1..Active : p[k] = Sockets[k]
             /\ \A k \in DOMAIN Sockets : k # r + 1 => \E l \in DOMAIN p : p[l] = Sockets[k]
<1> DEFINE m == r + 1
           n == Len(Sockets)
           q == SwapSockets(Sockets, index, Sockets[m], Sockets[n])
           f == SwapIndex(index, Sockets[m], Sockets[n])
           p == SubSeq(q, 1, n - 1)
           g == [f EXCEPT ![Sockets[m]] = -1]
<1>1. /\ Sockets \in Seq(Ids) /\ Active \in 0..n /\ index \in [Ids -> Int]
      /\ Positioned(Sockets, index) /\ i \in Nat /\ n \in Nat /\ DOMAIN Sockets = 1..n
  BY DEF IInv, TypeOK, IndexIsPosition
<1>2. m \in 1..n /\ n \in 1..n /\ Active < m /\ Active \in Nat
  BY <1>1
<1>3. m \in DOMAIN Sockets /\ n \in DOMAIN Sockets
  BY <1>1, <1>2
<1> HIDE DEF m, n
<1>4. /\ q \in Seq(Ids) /\ Len(q) = Len(Sockets)
      /\ q[m] = Sockets[n] /\ q[n] = Sockets[m]
      /\ \A k \in DOMAIN Sockets : k # m /\ k # n => q[k] = Sockets[k]
      /\ f \in [Ids -> Int] /\ Positioned(q, f)
  BY <1>1, <1>3, SwapMoves, Zenon
<1> HIDE DEF q, f
<1>5. Len(q) = n
  BY <1>4 DEF n
<1>6. /\ p \in Seq(Ids) /\ Len(p) = n - 1 /\ DOMAIN p = 1..(n - 1)
      /\ \A k \in 1..(n - 1) : p[k] = q[k]
  BY <1>1, <1>2, <1>4, <1>5
<1>7. g \in [Ids -> Int]
  BY <1>1, <1>3, <1>4
<1>8. Positioned(p, g)
  <2> SUFFICES ASSUME NEW k \in 1..(n - 1) PROVE g[p[k]] = k - 1
    BY <1>6 DEF Positioned
  <2>1. k \in DOMAIN q /\ n \in DOMAIN q /\ k \in 1..n /\ k # n /\ k \in Int /\ n \in Int
    BY <1>1, <1>2, <1>4, <1>5
  <2>2. f[q[k]] = k - 1 /\ f[q[n]] = n - 1
    BY <1>4, <2>1 DEF Positioned
  <2>3. q[k] # q[n]
    BY <2>1, <2>2
  <2>4. q[k] \in Ids
    BY <1>4, <2>1
  <2> QED
    BY <1>4, <1>6, <2>2, <2>3, <2>4
<1>9. \A k \in 1..Active : p[k] = Sockets[k]
  <2> SUFFICES ASSUME NEW k \in 1..Active PROVE p[k] = Sockets[k]
    OBVIOUS
  <2>1. k \in 1..(n - 1) /\ k # m /\ k # n /\ k \in DOMAIN Sockets
    BY <1>1, <1>2
  <2> QED
    BY <1>4, <1>6, <2>1
<1>10. ASSUME NEW k \in DOMAIN Sockets, k # m
       PROVE  \E l \in DOMAIN p : p[l] = Sockets[k]
  <2>1. CASE k = n
    <3>1. m \in 1..(n - 1)
      BY <1>1, <1>2, <1>10, <2>1
    <3> QED
      BY <1>4, <1>6, <2>1, <3>1
  <2>2. CASE k # n
    <3>1. k \in 1..(n - 1)
      BY <1>1, <2>2
    <3> QED
      BY <1>4, <1>6, <1>10, <2>2, <3>1
  <2> QED
    BY <2>1, <2>2
<1>11. Active <= n - 1
  BY <1>1, <1>2
<1> HIDE DEF p, g
<1>12. /\ p \in Seq(Ids) /\ Len(p) = n - 1 /\ Active <= Len(p)
       /\ g \in [Ids -> Int] /\ Positioned(p, g)
       /\ \A k \in 1..Active : p[k] = Sockets[k]
       /\ \A k \in DOMAIN Sockets : k # m => \E l \in DOMAIN p : p[l] = Sockets[k]
  BY <1>6, <1>7, <1>8, <1>9, <1>10, <1>11
<1> QED
  BY <1>12, Zenon DEF p, g, q, f, m, n

LEMMA PurgeDropStep ==
  ASSUME IInv, PurgeDrop
  PROVE  /\ IInv'
         /\ \A k \in 1..Active : Sockets'[k] = Sockets[k]
         /\ \A s \in Listed \ Listed' : s \in Waiting /\ offline[s] > OfflineSeconds
<1> USE BackSocketsAssumption
<1>1. Active <= i /\ purge = "purging" /\ writer = "purger"
  BY DEF PurgeDrop, IInv, LoopsOK
<1>2. /\ Sockets \in Seq(Ids) /\ Active \in 0..Len(Sockets) /\ i \in Nat
      /\ Len(Sockets) \in Int /\ Len(Sockets) - 1 + 1 = Len(Sockets)
  BY DEF IInv, TypeOK
<1>3. PICK r \in i..(Len(Sockets) - 1) :
        LET s == Sockets[r + 1]
            last == Sockets[Len(Sockets)]
        IN /\ Expired(s)
           /\ Sockets' = SubSeq(SwapSockets(Sockets, index, s, last), 1, Len(Sockets) - 1)
           /\ index' = [SwapIndex(index, s, last) EXCEPT ![s] = -1]
           /\ offline' = [offline EXCEPT ![s] = 0]
           /\ i' = r
  BY <1>2 DEF PurgeDrop, At
<1>4. UNCHANGED <<todo, j, purge, seen, Active, Addr, Current, polled, writer, addrSet,
                  held, recent>>
  BY DEF PurgeDrop
<1>5. /\ Sockets' \in Seq(Ids) /\ Active <= Len(Sockets')
      /\ index' \in [Ids -> Int] /\ Positioned(Sockets', index')
      /\ \A k \in 1..Active : Sockets'[k] = Sockets[k]
      /\ \A k \in DOMAIN Sockets :
           k # r + 1 => \E l \in DOMAIN Sockets' : Sockets'[l] = Sockets[k]
  <2> HIDE DEF IInv
  <2> QED
    BY <1>1, <1>3, DropKeepsActive, Zenon
<1>6. r \in Nat /\ Active <= r /\ r + 1 \in (Active + 1)..Len(Sockets) /\ Len(Sockets') \in Nat
  BY <1>1, <1>2, <1>5
<1>7. Expired(Sockets[r + 1]) /\ i' = r /\ offline' = [offline EXCEPT ![Sockets[r + 1]] = 0]
  BY <1>3
<1>8. TypeOK'
  <2>1. Active' \in 0..Len(Sockets') /\ i' \in Nat
    BY <1>2, <1>4, <1>5, <1>6, <1>7
  <2>2. offline' \in [Ids -> 0..(OfflineSeconds + 1)]
    BY <1>2, <1>6, <1>7 DEF IInv, TypeOK
  <2> QED
    BY <1>4, <1>5, <2>1, <2>2 DEF IInv, TypeOK
<1>9. IndexIsPosition'
  BY <1>5 DEF IndexIsPosition, Positioned
<1>10. \A k \in 1..Active' : Sockets'[k] = Sockets[k] /\ Addr'[Sockets'[k]] = Addr[Sockets[k]]
  BY <1>4, <1>5
<1>11. ActiveAddrs' = ActiveAddrs
  BY <1>4, <1>10 DEF ActiveAddrs, ActiveSockets
<1>12. ActiveIsListed'
  BY <1>4, <1>10, <1>11 DEF IInv, ActiveIsListed, OneSocketPerAddr
<1>13. LoopsOK'
  <2>1. todo = {} /\ j = 0
    BY <1>1 DEF IInv, LoopsOK
  <2>2. AllListed(0, j)' /\ j' <= Active' /\ Active' <= i'
    BY <1>2, <1>4, <1>6, <1>7, <2>1 DEF AllListed
  <2> QED
    BY <1>1, <1>4, <1>11, <2>1, <2>2 DEF IInv, LoopsOK
<1>14. ASSUME NEW s \in Listed \ Listed'
       PROVE  s \in Waiting /\ offline[s] > OfflineSeconds
  <2>1. PICK k \in DOMAIN Sockets : s = Sockets[k]
    BY DEF Listed
  <2>2. k = r + 1
    BY <1>5, <1>14, <2>1 DEF Listed
  <2> QED
    BY <1>6, <1>7, <2>1, <2>2 DEF Waiting, Expired
<1> QED
  BY <1>5, <1>8, <1>9, <1>12, <1>13, <1>14 DEF IInv

LEMMA PurgeDoneIInv == IInv /\ PurgeDone => IInv'
<1> SUFFICES ASSUME IInv, PurgeDone PROVE IInv'
  OBVIOUS
<1> USE BackSocketsAssumption DEF PurgeDone, area
<1>1. writer = "purger"
  BY DEF IInv, LoopsOK
<1>2. TypeOK'
  BY DEF IInv, TypeOK
<1>3. LoopsOK'
  BY <1>1, AreaKept DEF LoopsOK, IInv, TypeOK
<1> QED
  BY <1>1, <1>2, <1>3, AreaKept DEF IInv

(***************************************************************************)
(* The steps of the main loop, and time.                                   *)
(***************************************************************************)
LEMMA NextSocketIInv == IInv /\ NextSocket => IInv'
<1> SUFFICES ASSUME IInv, NextSocket PROVE IInv'
  OBVIOUS
<1> USE BackSocketsAssumption DEF NextSocket, area, loops
<1>1. Turn \in Nat /\ At(Turn) \in Ids
  BY DEF Turn, At, IInv, TypeOK
<1>2. recent' \in Seq(Ids)
  <2> DEFINE q == Append(recent, At(Turn))
  <2>1. q \in Seq(Ids) /\ Active \in Nat
    BY <1>1 DEF IInv, TypeOK
  <2> HIDE DEF q
  <2>2. Latest(q, Active) \in Seq(Ids)
    BY <2>1 DEF Latest
  <2> QED
    BY <2>2 DEF q
<1>3. TypeOK'
  BY <1>1, <1>2 DEF IInv, TypeOK
<1>4. LoopsOK'
  BY AreaKept DEF LoopsOK, IInv
<1> QED
  BY <1>3, <1>4, AreaKept DEF IInv

LEMMA SendMessageIInv == IInv /\ SendMessage => IInv'
<1> SUFFICES ASSUME IInv, SendMessage PROVE IInv'
  OBVIOUS
<1> USE BackSocketsAssumption DEF SendMessage, area, loops
<1>1. TypeOK'
  BY DEF IInv, TypeOK
<1>2. LoopsOK'
  BY AreaKept DEF LoopsOK, IInv
<1> QED
  BY <1>1, <1>2, AreaKept DEF IInv

LEMMA TickIInv == IInv /\ Tick => IInv'
<1> SUFFICES ASSUME IInv, Tick PROVE IInv'
  OBVIOUS
<1> USE BackSocketsAssumption DEF Tick, loops
<1>1. offline' \in [Ids -> 0..(OfflineSeconds + 1)]
  BY DEF IInv, TypeOK
<1>2. TypeOK'
  BY <1>1 DEF IInv, TypeOK
<1>3. LoopsOK'
  BY AreaKept DEF LoopsOK, IInv
<1> QED
  BY <1>2, <1>3, AreaKept DEF IInv

LEMMA StepIInv == IInv /\ [Next]_vars => IInv'
<1> SUFFICES ASSUME IInv, [Next]_vars PROVE IInv'
  OBVIOUS
<1>1. CASE UNCHANGED vars
  <2>1. UNCHANGED <<Sockets, Active, Addr, index, offline, todo, j, purge, seen, i, Current,
                    polled, writer, addrSet, held, recent>>
    BY <1>1 DEF vars, area, loops
  <2>2. TypeOK'
    BY <2>1 DEF IInv, TypeOK
  <2>3. LoopsOK'
    BY <2>1, AreaKept DEF LoopsOK, IInv
  <2> QED
    BY <2>1, <2>2, <2>3, AreaKept DEF IInv
<1>2. CASE Update
  BY <1>2, LockForUpdateIInv, addEndpointIInv, markOfflineIInv, UpdateDoneIInv DEF Update
<1>3. CASE Purge
  BY <1>3, PurgeTestIInv, LockForPurgeIInv, PurgeDropStep, PurgeDoneIInv DEF Purge
<1> QED
  BY <1>1, <1>2, <1>3, NextSocketIInv, SendMessageIInv, TickIInv DEF Next

(***************************************************************************)
(* The inductive invariant.                                                *)
(***************************************************************************)
THEOREM BackSocketsInvariant == Spec => []IInv
  BY InitIInv, StepIInv, PTL DEF Spec

(***************************************************************************)
(* Whatever the goroutines do, every socket in the slice is at the         *)
(* position its index field names.                                         *)
(***************************************************************************)
THEOREM IndexesArePositions == Spec => []IndexIsPosition
<1>1. IInv => IndexIsPosition
  BY DEF IInv
<1> QED
  BY <1>1, BackSocketsInvariant, PTL

(***************************************************************************)
(* Between updates the active area has one socket for each address listed  *)
(* last, and no other: NextSocket picks only listed addresses, and finds   *)
(* none only when none is listed.                                          *)
(***************************************************************************)
THEOREM ActiveAreaIsListed == Spec => []ActiveIsListed
<1>1. IInv => ActiveIsListed
  BY DEF IInv
<1> QED
  BY <1>1, BackSocketsInvariant, PTL

LEMMA addEndpointKeepsAll ==
  ASSUME IInv, NEW addr \in Addrs, addEndpoint(addr)
  PROVE  Listed \subseteq Listed'
<1>1. CASE UNCHANGED area
  BY <1>1 DEF area, Listed
<1>2. ASSUME NEW s \in Ids, s \notin Listed,
             Sockets' = SwapSockets(Append(Sockets, s), [index EXCEPT ![s] = Len(Sockets)],
                                    Append(Sockets, s)[Active + 1], s)
      PROVE  Listed \subseteq Listed'
  <2> DEFINE longer == Append(Sockets, s)
             placed == [index EXCEPT ![s] = Len(Sockets)]
             m == Active + 1
             n == Len(Sockets) + 1
             p == SwapSockets(longer, placed, longer[m], longer[n])
  <2>1. /\ Sockets \in Seq(Ids) /\ Active \in 0..Len(Sockets) /\ index \in [Ids -> Int]
        /\ Positioned(Sockets, index)
    BY DEF IInv, TypeOK, IndexIsPosition
  <2>2. /\ longer \in Seq(Ids) /\ longer[n] = s
        /\ m \in DOMAIN longer /\ n \in DOMAIN longer
        /\ \A k \in DOMAIN Sockets :
             k \in DOMAIN longer /\ longer[k] = Sockets[k] /\ Sockets[k] # s
    BY <1>2, <2>1 DEF Listed
  <2>3. placed \in [Ids -> Int] /\ Positioned(longer, placed)
    BY <2>1, <2>2 DEF Positioned
  <2>4. Sockets' = p
    BY <1>2, <2>2
  <2> HIDE DEF longer, placed, m, n
  <2>5. \A k \in DOMAIN longer : \E l \in DOMAIN p : p[l] = longer[k]
    BY <2>2, <2>3, SwapKeepsAll, Zenon
  <2> HIDE DEF p
  <2> QED
    BY <2>2, <2>4, <2>5 DEF Listed
<1> QED
  BY <1>1, <1>2 DEF addEndpoint, Free

LEMMA markOfflineKeepsAll == IInv /\ markOffline => Listed \subseteq Listed'
<1> SUFFICES ASSUME IInv, NEW r \in j..(Active - 1),
                    Sockets' = SwapSockets(Sockets, index, Sockets[r + 1],
                                           Sockets[Active - 1 + 1])
             PROVE  Listed \subseteq Listed'
  BY DEF markOffline, At
<1> DEFINE m == r + 1
           n == Active - 1 + 1
           p == SwapSockets(Sockets, index, Sockets[m], Sockets[n])
<1>1. /\ Sockets \in Seq(Ids) /\ Active \in 0..Len(Sockets) /\ index \in [Ids -> Int]
      /\ Positioned(Sockets, index) /\ j \in Nat
  BY DEF IInv, TypeOK, IndexIsPosition
<1>2. m \in DOMAIN Sockets /\ n \in DOMAIN Sockets
  BY <1>1
<1>3. Sockets' = p
  OBVIOUS
<1> HIDE DEF m, n
<1>4. \A k \in DOMAIN Sockets : \E l \in DOMAIN p : p[l] = Sockets[k]
  BY <1>1, <1>2, SwapKeepsAll, Zenon
<1> HIDE DEF p
<1> QED
  BY <1>3, <1>4 DEF Listed

(***************************************************************************)
(* No step takes a socket out of the slice but a purge, and that one only  *)
(* if the socket has been waiting for more than OfflineSeconds.            *)
(***************************************************************************)
THEOREM YoungSocketsAreKept == Spec => OnlyOldSocketsDropped
<1> DEFINE Dropped == \A s \in Listed \ Listed' : s \in Waiting /\ offline[s] > OfflineSeconds
<1>1. IInv /\ [Next]_vars => [Dropped]_vars
  <2> SUFFICES ASSUME IInv, Next PROVE Dropped
    OBVIOUS
  <2>1. ASSUME NEW addrs \in SUBSET Addrs, LockForUpdate(addrs) PROVE Listed' = Listed
    BY <2>1 DEF LockForUpdate, area, Listed
  <2>2. CASE UpdateDone \/ PurgeLoad \/ PurgeTest \/ LockForPurge \/ PurgeDone
             \/ NextSocket \/ SendMessage \/ Tick
    <3>1. Sockets' = Sockets
      BY <2>2 DEF UpdateDone, PurgeLoad, PurgeTest, LockForPurge, PurgeDone, NextSocket,
                  SendMessage, Tick, area
    <3> QED
      BY <3>1 DEF Listed
  <2>3. CASE PurgeDrop
    BY <2>3, PurgeDropStep
  <2> QED
    BY <2>1, <2>2, <2>3, addEndpointKeepsAll, markOfflineKeepsAll DEF Next, Update, Purge
<1> QED
  BY <1>1, BackSocketsInvariant, PTL DEF Spec, OnlyOldSocketsDropped

(***************************************************************************)
(* The latest picks, and the address held.                                 *)
(***************************************************************************)
LEMMA PicksKept ==
  ASSUME IInv, PicksInv, UNCHANGED <<Active, Current, Addr, recent>>,
         held' \in {held, None},
         \A k \in 1..Active : Sockets'[k] = Sockets[k]
  PROVE  PicksInv'
<1>1. ASSUME recent # <<>>, NEW n \in DOMAIN recent PROVE PickedAt(n) \in 1..Active
  <2>1. /\ Current \in 1..Active /\ Len(recent) <= Active /\ Active \in Nat
        /\ recent \in Seq(Ids) /\ n \in 1..Len(recent) /\ Len(recent) \in Nat
    BY <1>1 DEF PicksInv, RecentPicks, IInv, TypeOK
  <2> QED
    BY <2>1 DEF PickedAt
<1>2. \A n : PickedAt(n)' = PickedAt(n)
  BY DEF PickedAt
<1>3. RecentPicks'
  BY <1>1, <1>2 DEF PicksInv, RecentPicks
<1> QED
  BY <1>3 DEF PicksInv

\* The position of the n-th of l picks, the last of which is at c.
Position(c, l, n) == IF c - (l - n) >= 1 THEN c - (l - n) ELSE c - (l - n) + Active

LEMMA PositionFacts ==
  ASSUME Active \in Nat \ {0}, NEW c \in 1..Active, NEW l \in 0..Active
  PROVE  /\ \A n \in 1..l : Position(c, l, n) \in 1..Active
         /\ \A m, n \in 1..l : Position(c, l, m) = Position(c, l, n) => m = n
<1>1. c \in Int /\ l \in Int /\ Active \in Int /\ 1 <= c /\ c <= Active /\ 0 <= l /\ l <= Active
  OBVIOUS
<1> QED
  BY <1>1 DEF Position

LEMMA PositionMoves ==
  ASSUME Active \in Nat \ {0}, NEW c \in 1..Active, NEW l \in 0..Active, NEW n \in 1..l,
         NEW d, d = (IF c = Active THEN 1 ELSE c + 1)
  PROVE  /\ Position(d, l + 1, n) = Position(c, l, n)
         /\ Position(d, l, n) = Position(d, l + 1, n + 1)
<1>1. /\ c \in Int /\ l \in Int /\ n \in Int /\ Active \in Int
      /\ 1 <= c /\ c <= Active /\ l <= Active /\ 1 <= n /\ n <= l
  OBVIOUS
<1>2. d \in Int /\ d <= Active
  BY <1>1
<1> QED
  BY <1>1, <1>2 DEF Position

LEMMA PicksPositions ==
  ASSUME IInv, PicksInv, recent # <<>>
  PROVE  /\ recent \in Seq(Ids) /\ Active \in Nat \ {0}
         /\ Current \in 1..Active /\ Len(recent) \in 1..Active
         /\ \A n \in 1..Len(recent) : recent[n] = Sockets[Position(Current, Len(recent), n)]
<1>1. recent \in Seq(Ids) /\ Active \in Nat /\ Len(recent) \in Nat \ {0}
  BY DEF IInv, TypeOK
<1>2. Current \in 1..Active /\ Len(recent) \in 1..Active
  BY <1>1 DEF PicksInv, RecentPicks
<1>3. \A n \in 1..Len(recent) : PickedAt(n) = Position(Current, Len(recent), n)
  BY <1>1, <1>2 DEF PickedAt, Position
<1> QED
  BY <1>1, <1>2, <1>3 DEF PicksInv, RecentPicks

LEMMA NextSocketPicks == ASSUME IInv, PicksInv, NextSocket PROVE PicksInv'
<1> DEFINE L == Len(recent)
           d == Turn + 1
           x == Sockets[d]
           q == Append(recent, x)
<1>1. /\ Active \in Nat \ {0} /\ Active <= Len(Sockets) /\ Current \in Nat
      /\ recent \in Seq(Ids) /\ L \in Nat /\ Sockets \in Seq(Ids) /\ Len(Sockets) \in Nat
      /\ UNCHANGED <<Sockets, Active, Addr, addrSet>>
      /\ Current' = d /\ held' = x /\ recent' = Latest(q, Active)
      /\ ActiveAddrs = addrSet /\ addrSet \subseteq Addrs
  <2>1. writer # "watcher" /\ Active \in Nat /\ Active > 0
    BY BackSocketsAssumption DEF NextSocket, IInv, TypeOK
  <2> QED
    BY <2>1 DEF NextSocket, area, At, IInv, TypeOK, ActiveIsListed
<1>2. d \in 1..Active /\ x \in Ids
  BY <1>1 DEF Turn
<1>3. Addr[x] \in Addrs
  BY <1>1, <1>2 DEF ActiveAddrs, ActiveSockets
<1>4. L # 0 => /\ Current \in 1..Active /\ L \in 1..Active
               /\ \A n \in 1..L : recent[n] = Sockets[Position(Current, L, n)]
               /\ d = IF Current = Active THEN 1 ELSE Current + 1
  BY <1>1, PicksPositions DEF Turn
<1>5. L \in 0..Active
  BY <1>1, <1>4
<1>6. q \in Seq(Ids) /\ Len(q) = L + 1 /\ q[L + 1] = x /\ \A n \in 1..L : q[n] = recent[n]
  BY <1>1, <1>2
<1> HIDE DEF q, d
<1>7. ASSUME NEW n \in 1..(L + 1) PROVE q[n] = Sockets[Position(d, L + 1, n)]
  <2>1. CASE n = L + 1
    <3>1. Position(d, L + 1, L + 1) = d
      BY <1>1, <1>2 DEF Position
    <3> QED
      BY <1>6, <2>1, <3>1
  <2>2. CASE n # L + 1
    <3>1. n \in 1..L /\ L # 0
      BY <1>1, <2>2
    <3>2. Position(d, L + 1, n) = Position(Current, L, n)
      <4>1. Active \in Nat \ {0} /\ Current \in 1..Active /\ L \in 0..Active
            /\ n \in 1..L /\ d = IF Current = Active THEN 1 ELSE Current + 1
        BY <1>1, <1>4, <1>5, <3>1
      <4> HIDE DEF L
      <4> QED
        BY <4>1, PositionMoves
    <3> QED
      BY <1>4, <1>6, <3>1, <3>2
  <2> QED
    BY <2>1, <2>2
<1>8. ASSUME recent' \in Seq(Ids), Len(recent') \in 1..Active,
             \A n \in 1..Len(recent') : recent'[n] = Sockets[Position(d, Len(recent'), n)]
      PROVE  PicksInv'
  <2>1. \A n \in 1..Len(recent') : PickedAt(n)' = Position(d, Len(recent'), n)
    BY <1>1, <1>2, <1>8 DEF PickedAt, Position
  <2>2. RecentPicks'
    BY <1>1, <1>2, <1>8, <2>1 DEF RecentPicks
  <2> QED
    BY <1>1, <1>3, <2>2 DEF PicksInv
<1>9. CASE L + 1 <= Active
  <2>1. recent' = q /\ Len(recent') = L + 1
    BY <1>1, <1>6, <1>9 DEF Latest
  <2> QED
    BY <1>1, <1>6, <1>7, <1>8, <1>9, <2>1
<1>10. CASE L + 1 > Active
  <2>1. L = Active /\ L # 0
    BY <1>1, <1>5, <1>10
  <2>2. recent' = SubSeq(q, 2, L + 1)
    <3>1. (L + 1) - Active + 1 = 2 /\ Len(q) = L + 1 /\ ~(L + 1 <= Active)
      BY <1>1, <1>6, <1>10, <2>1
    <3>2. recent' = SubSeq(q, Len(q) - Active + 1, Len(q))
      BY <1>1, <3>1 DEF Latest
    <3> QED
      BY <3>1, <3>2
  <2>3. /\ recent' \in Seq(Ids) /\ Len(recent') = L
        /\ \A n \in 1..L : recent'[n] = q[n + 1]
    BY <1>1, <1>6, <2>2
  <2>4. ASSUME NEW n \in 1..L PROVE recent'[n] = Sockets[Position(d, L, n)]
    <3>1. n + 1 \in 1..(L + 1)
      BY <1>1
    <3>2. Position(d, L, n) = Position(d, L + 1, n + 1)
      <4>1. Active \in Nat \ {0} /\ Current \in 1..Active /\ L \in 0..Active
            /\ d = IF Current = Active THEN 1 ELSE Current + 1
        BY <1>1, <1>4, <1>5, <2>1
      <4> HIDE DEF L
      <4> QED
        BY <4>1, PositionMoves
    <3> QED
      BY <1>7, <2>3, <3>1, <3>2
  <2> QED
    BY <1>1, <1>8, <2>1, <2>3, <2>4
<1> QED
  BY <1>1, <1>9, <1>10

LEMMA StepPicksInv == IInv /\ PicksInv /\ [Next]_vars => PicksInv'
<1> SUFFICES ASSUME IInv, PicksInv, [Next]_vars PROVE PicksInv'
  OBVIOUS
<1>1. CASE UNCHANGED vars
  BY <1>1, PicksKept DEF vars, area
<1>2. ASSUME NEW addrs \in SUBSET Addrs, LockForUpdate(addrs) PROVE PicksInv'
  BY <1>2, PicksKept DEF LockForUpdate, area
<1>3. ASSUME NEW addr \in Addrs, addEndpoint(addr) PROVE PicksInv'
  <2>1. CASE UNCHANGED <<area, recent>>
    BY <1>3, <2>1, PicksKept DEF addEndpoint, area
  <2>2. ASSUME NEW s \in Ids, Free(s), Addr' = [Addr EXCEPT ![s] = addr], recent' = <<>>
        PROVE  PicksInv'
    <3>1. held' = held /\ held # s
      BY <1>3, <2>2 DEF addEndpoint, Free
    <3>2. held # None => Addr'[held] = Addr[held]
      BY <2>2, <3>1 DEF IInv, TypeOK
    <3> QED
      BY <2>2, <3>1, <3>2 DEF PicksInv, RecentPicks
  <2> QED
    BY <1>3, <2>1, <2>2 DEF addEndpoint
<1>4. CASE markOffline
  BY <1>4 DEF markOffline, PicksInv, RecentPicks
<1>5. CASE UpdateDone
  BY <1>5, PicksKept DEF UpdateDone, area
<1>6. CASE PurgeLoad \/ PurgeTest \/ LockForPurge \/ PurgeDone
  BY <1>6, PicksKept DEF PurgeLoad, PurgeTest, LockForPurge, PurgeDone, area
<1>7. CASE PurgeDrop
  <2>1. \A k \in 1..Active : Sockets'[k] = Sockets[k]
    BY <1>7, PurgeDropStep
  <2> QED
    BY <1>7, <2>1, PicksKept DEF PurgeDrop
<1>8. CASE NextSocket
  BY <1>8, NextSocketPicks
<1>9. CASE SendMessage
  BY <1>9, PicksKept DEF SendMessage, area
<1>10. CASE Tick
  BY <1>10, PicksKept DEF Tick
<1> QED
  BY <1>1, <1>2, <1>3, <1>4, <1>5, <1>6, <1>7, <1>8, <1>9, <1>10 DEF Next, Update, Purge

LEMMA Picks == Spec => []PicksInv
<1>1. Init => PicksInv
  BY DEF Init, PicksInv, RecentPicks
<1> QED
  BY <1>1, StepPicksInv, BackSocketsInvariant, PTL DEF Spec

LEMMA PicksDiffer == IInv /\ PicksInv => RoundRobin
<1> SUFFICES ASSUME IInv, PicksInv, NEW m \in DOMAIN recent, NEW n \in DOMAIN recent,
                    recent[m] = recent[n]
             PROVE  m = n
  BY DEF RoundRobin
<1> DEFINE l == Len(recent)
<1>1. recent \in Seq(Ids) /\ m \in 1..l /\ n \in 1..l /\ recent # <<>>
  BY DEF IInv, TypeOK
<1>2. /\ Active \in Nat \ {0} /\ Current \in 1..Active /\ l \in 1..Active
      /\ recent[m] = Sockets[Position(Current, l, m)]
      /\ recent[n] = Sockets[Position(Current, l, n)]
  BY <1>1, PicksPositions
<1>3. /\ Position(Current, l, m) \in 1..Active /\ Position(Current, l, n) \in 1..Active
      /\ Position(Current, l, m) = Position(Current, l, n) => m = n
  <2>1. l \in 0..Active
    BY <1>2
  <2> HIDE DEF l
  <2> QED
    BY <1>1, <1>2, <2>1, PositionFacts
<1>4. \A a, b \in 1..Active : Sockets[a] = Sockets[b] => a = b
  <2>1. \A a \in 1..Active : a \in DOMAIN Sockets /\ a \in Int
    BY DEF IInv, TypeOK
  <2> QED
    BY <2>1 DEF IInv, IndexIsPosition, Positioned
<1> QED
  BY <1>2, <1>3, <1>4

(***************************************************************************)
(* Requests go round robin: until the active area changes, no socket gets  *)
(* a second request before every active one got one.                       *)
(***************************************************************************)
THEOREM RequestsGoRoundRobin == Spec => []RoundRobin
  BY PicksDiffer, Picks, BackSocketsInvariant, PTL

-----------------------------------------------------------------------------
(***************************************************************************)
(* BackSockets implements ActiveArea.  The watcher's steps under the lock  *)
(* are one change of the addresses, at the first of them; from then until  *)
(* the active area is what was listed, the abstract picks are forgotten.   *)
(* What the purger does to the rest of the slice does not show.            *)
(***************************************************************************)
HeldAddr == IF held = None THEN None ELSE Addr[held]
Addresses(q) == [n \in DOMAIN q |-> Addr[q[n]]]
RecentAddrs == IF AreaChanges THEN <<>> ELSE Addresses(recent)

LEMMA NoAddresses == Addresses(<<>>) = <<>>
  BY DEF Addresses

\* Outside an update there are as many active sockets as addresses.
LEMMA ActiveIsCardinality ==
  ASSUME IInv, writer # "watcher"
  PROVE  Cardinality(addrSet) = Active /\ ActiveAddrs = addrSet
<1> DEFINE f == [n \in 1..Active |-> Addr[Sockets[n]]]
<1>1. ActiveAddrs = addrSet /\ Active \in Nat
  BY DEF IInv, TypeOK, ActiveIsListed
<1>2. f \in Bijection(1..Active, addrSet)
  <2>1. f \in [1..Active -> addrSet]
    BY <1>1 DEF ActiveAddrs, ActiveSockets
  <2>2. \A m, n \in 1..Active : f[m] = f[n] => m = n
    BY DEF IInv, ActiveIsListed, OneSocketPerAddr
  <2>3. \A a \in addrSet : \E n \in 1..Active : f[n] = a
    BY <1>1 DEF ActiveAddrs, ActiveSockets
  <2> HIDE DEF f
  <2> QED
    BY <2>1, <2>2, <2>3 DEF Bijection, Injection, IsInjective, Surjection
<1>3. ExistsBijection(1..Active, addrSet)
  BY <1>2 DEF ExistsBijection
<1>4. IsFiniteSet(1..Active) /\ Cardinality(1..Active) = Active
  BY <1>1, FS_Interval
<1>5. Cardinality(addrSet) = Cardinality(1..Active)
  BY <1>3, <1>4, FS_Bijection
<1> QED
  BY <1>1, <1>4, <1>5

\* The Cardinality of ActiveArea is that of BackSockets.
LEMMA SameCardinality == ASSUME NEW S PROVE Area!Cardinality(S) = Cardinality(S)
  BY DEF Area!Cardinality, Cardinality

LEMMA LatestAddresses ==
  ASSUME NEW q \in Seq(Ids), NEW n \in Nat \ {0}
  PROVE  Addresses(Latest(q, n)) = Area!Latest(Addresses(q), n)
<1>1. Len(Addresses(q)) = Len(q) /\ DOMAIN Addresses(q) = 1..Len(q) /\ Len(q) \in Nat
  BY DEF Addresses
<1>2. CASE Len(q) <= n
  BY <1>1, <1>2 DEF Latest, Area!Latest
<1>3. CASE ~(Len(q) <= n)
  <2> DEFINE a == Len(q) - n + 1
             b == Len(q)
  <2>1. Latest(q, n) = SubSeq(q, a, b) /\ Area!Latest(Addresses(q), n) = SubSeq(Addresses(q), a, b)
    BY <1>1, <1>3 DEF Latest, Area!Latest
  <2>2. a \in 1..b /\ b \in Nat
    BY <1>1, <1>3
  <2>3. SubSeq(q, a, b) = [k \in 1..(b - a + 1) |-> q[k + a - 1]]
    BY <2>2
  <2>4. SubSeq(Addresses(q), a, b) = [k \in 1..(b - a + 1) |-> Addresses(q)[k + a - 1]]
    BY <2>2
  <2>5. \A k \in 1..(b - a + 1) : k + a - 1 \in 1..b
    BY <2>2
  <2>6. \A k \in 1..b : Addresses(q)[k] = Addr[q[k]]
    BY <1>1 DEF Addresses
  <2> HIDE DEF a, b
  <2>7. SubSeq(Addresses(q), a, b) = [k \in 1..(b - a + 1) |-> Addr[q[k + a - 1]]]
    BY <2>4, <2>5, <2>6
  <2>8. Addresses(SubSeq(q, a, b)) = [k \in 1..(b - a + 1) |-> Addr[q[k + a - 1]]]
    BY <2>3 DEF Addresses
  <2> QED
    BY <2>1, <2>7, <2>8
<1> QED
  BY <1>2, <1>3

LEMMA AppendAddresses ==
  ASSUME NEW q \in Seq(Ids), NEW s \in Ids
  PROVE  Addresses(Append(q, s)) = Append(Addresses(q), Addr[s])
  BY DEF Addresses

LEMMA AreaInit == Init => Area!Init
<1> SUFFICES ASSUME Init PROVE Area!Init
  OBVIOUS
<1>1. HeldAddr = None /\ addrSet = {} /\ RecentAddrs = <<>>
  BY NoAddresses DEF Init, HeldAddr, RecentAddrs
<1> QED
  BY <1>1 DEF Area!Init, HeldAddr, RecentAddrs, Addresses

LEMMA AreaUnchanged ==
  ASSUME HeldAddr' = HeldAddr, RecentAddrs' = RecentAddrs, addrSet' = addrSet
  PROVE  UNCHANGED Area!vars
BY DEF Area!vars, HeldAddr, RecentAddrs, Addresses

\* Steps that change neither the active area nor what the main loop holds.
LEMMA AreaStutters ==
  ASSUME UNCHANGED <<Addr, addrSet, held, recent>>, AreaChanges' <=> AreaChanges
  PROVE  UNCHANGED Area!vars
<1>1. HeldAddr' = HeldAddr /\ RecentAddrs' = RecentAddrs
  BY DEF HeldAddr, RecentAddrs, Addresses
<1> QED
  BY <1>1, AreaUnchanged

LEMMA LockImplements ==
  ASSUME IInv, NEW addrs \in SUBSET Addrs, LockForUpdate(addrs)
  PROVE  Area!UpdateEndpointAddrs(addrs)
<1>1. /\ writer = None /\ writer' = "watcher" /\ addrSet' = addrs
      /\ UNCHANGED <<Sockets, Active, Addr, held, recent>>
  BY DEF LockForUpdate, area
<1>2. writer # "watcher" /\ ActiveAddrs = addrSet /\ ActiveAddrs' = ActiveAddrs
  BY <1>1, BackSocketsAssumption DEF IInv, ActiveIsListed, ActiveAddrs, ActiveSockets
<1>3. ~AreaChanges /\ (AreaChanges' <=> addrs # addrSet)
  BY <1>1, <1>2 DEF AreaChanges
<1>4. HeldAddr' = HeldAddr /\ RecentAddrs' = IF addrs = addrSet THEN RecentAddrs ELSE <<>>
  BY <1>1, <1>3 DEF HeldAddr, RecentAddrs, Addresses
<1> QED
  BY <1>1, <1>4 DEF Area!UpdateEndpointAddrs, HeldAddr, RecentAddrs, Addresses

LEMMA AddImplements ==
  ASSUME IInv, NEW addr \in Addrs, addEndpoint(addr)
  PROVE  UNCHANGED Area!vars
<1>1. UNCHANGED <<addrSet, held, writer>> /\ writer = "watcher" /\ addr \in addrSet
  BY DEF addEndpoint, IInv, TypeOK
<1>2. CASE UNCHANGED <<area, recent>>
  <2>1. AreaChanges' <=> AreaChanges
    BY <1>1, <1>2 DEF AreaChanges, ActiveAddrs, ActiveSockets, area
  <2> QED
    BY <1>1, <1>2, <2>1, AreaStutters DEF area
<1>3. ASSUME addr \notin ActiveAddrs, NEW s \in Ids, Free(s),
             Addr' = [Addr EXCEPT ![s] = addr], recent' = <<>>
      PROVE  UNCHANGED Area!vars
  <2>1. HeldAddr' = HeldAddr
    BY <1>1, <1>3 DEF HeldAddr, Free, IInv, TypeOK
  <2>2. RecentAddrs = <<>>
    BY <1>1, <1>3 DEF AreaChanges, RecentAddrs
  <2>3. RecentAddrs' = <<>>
    BY <1>3 DEF RecentAddrs, Addresses
  <2> QED
    BY <1>1, <2>1, <2>2, <2>3, AreaUnchanged
<1> QED
  BY <1>2, <1>3 DEF addEndpoint

LEMMA MarkImplements == ASSUME IInv, markOffline PROVE UNCHANGED Area!vars
<1>1. /\ UNCHANGED <<addrSet, held, writer, Addr>> /\ writer = "watcher" /\ recent' = <<>>
      /\ j \in Nat /\ Active \in Nat
  BY DEF markOffline, IInv, TypeOK
<1>2. AreaChanges
  <2>1. PICK n \in j..(Active - 1) : Addr[Sockets[n + 1]] \notin addrSet
    BY DEF markOffline, At
  <2>2. n + 1 \in 1..Active
    BY <1>1, <2>1
  <2> QED
    BY <1>1, <2>1, <2>2 DEF AreaChanges, ActiveAddrs, ActiveSockets
<1>3. HeldAddr' = HeldAddr /\ RecentAddrs = <<>> /\ RecentAddrs' = <<>>
  BY <1>1, <1>2 DEF HeldAddr, RecentAddrs, Addresses
<1> QED
  BY <1>1, <1>3, AreaUnchanged

LEMMA DoneImplements == ASSUME IInv, IInv', UpdateDone PROVE UNCHANGED Area!vars
<1>1. UNCHANGED <<Sockets, Active, Addr, addrSet, held, recent>> /\ writer' = None
  BY DEF UpdateDone, area
<1>2. writer' # "watcher"
  BY <1>1, BackSocketsAssumption
<1>3. ActiveAddrs' = addrSet'
  BY <1>2 DEF IInv, ActiveIsListed
<1>4. ActiveAddrs' = ActiveAddrs
  BY <1>1 DEF ActiveAddrs, ActiveSockets
<1>5. ~AreaChanges /\ ~AreaChanges'
  BY <1>1, <1>2, <1>3, <1>4 DEF AreaChanges
<1> QED
  BY <1>1, <1>5, AreaStutters

\* Steps while the watcher does not have the lock.
LEMMA OthersImplement ==
  ASSUME writer # "watcher", writer' # "watcher", UNCHANGED <<Addr, addrSet, held, recent>>
  PROVE  UNCHANGED Area!vars
  BY AreaStutters DEF AreaChanges

LEMMA PicksAreActive ==
  ASSUME IInv, PicksInv, NEW n \in DOMAIN recent
  PROVE  \E k \in 1..Active : recent[n] = Sockets[k]
<1> DEFINE l == Len(recent)
<1>1. recent \in Seq(Ids) /\ n \in 1..l /\ recent # <<>>
  BY DEF IInv, TypeOK
<1>2. /\ Active \in Nat \ {0} /\ Current \in 1..Active /\ l \in 0..Active
      /\ recent[n] = Sockets[Position(Current, l, n)]
  BY <1>1, PicksPositions
<1> HIDE DEF l
<1>3. Position(Current, l, n) \in 1..Active
  BY <1>1, <1>2, PositionFacts
<1> QED
  BY <1>2, <1>3

LEMMA NextSocketImplements ==
  ASSUME IInv, RoundRobin', PicksInv, NextSocket
  PROVE  \E addr \in addrSet : Area!NextSocket(addr)
<1> DEFINE x == Sockets[Turn + 1]
           q == Append(recent, x)
<1>1. /\ held = None /\ writer = None /\ Active \in Nat \ {0} /\ Active <= Len(Sockets)
      /\ held' = x /\ recent' = Latest(q, Active) /\ recent \in Seq(Ids)
      /\ UNCHANGED <<Sockets, Active, Addr, addrSet, writer>>
      /\ Sockets \in Seq(Ids) /\ Current \in Nat
  BY DEF NextSocket, area, At, IInv, TypeOK
<1>2. writer # "watcher" /\ writer' # "watcher"
  BY <1>1, BackSocketsAssumption
<1>3. Cardinality(addrSet) = Active /\ ActiveAddrs = addrSet
  BY <1>2, ActiveIsCardinality
<1>4. Turn + 1 \in 1..Active /\ x \in Ids
  BY <1>1 DEF Turn
<1>5. Addr[x] \in addrSet
  BY <1>3, <1>4 DEF ActiveAddrs, ActiveSockets
<1>6. ~AreaChanges /\ ~AreaChanges'
  BY <1>2 DEF AreaChanges
<1>7. x # None
  BY <1>4, BackSocketsAssumption
<1>8. HeldAddr = None /\ HeldAddr' = Addr[x]
  BY <1>1, <1>7 DEF HeldAddr
<1>9. RecentAddrs' = Area!Latest(Append(RecentAddrs, Addr[x]), Cardinality(addrSet))
  <2>1. q \in Seq(Ids)
    BY <1>1, <1>4
  <2>2. Addresses(q) = Append(Addresses(recent), Addr[x])
    BY <1>1, <1>4, AppendAddresses
  <2> HIDE DEF q
  <2>3. Addresses(Latest(q, Active)) = Area!Latest(Addresses(q), Active)
    BY <1>1, <2>1, LatestAddresses
  <2>4. RecentAddrs' = Addresses(Latest(q, Active)) /\ RecentAddrs = Addresses(recent)
    BY <1>1, <1>6 DEF RecentAddrs, Addresses
  <2> QED
    BY <1>3, <2>2, <2>3, <2>4
<1>10. \A m, n \in DOMAIN RecentAddrs' : RecentAddrs'[m] = RecentAddrs'[n] => m = n
  <2>1. RecentAddrs' = Addresses(recent')
    BY <1>1, <1>6 DEF RecentAddrs, Addresses
  <2>2. \A n \in DOMAIN recent' : \E k \in 1..Active : recent'[n] = Sockets[k]
    <3>1. \A n \in 1..Len(q) : \E k \in 1..Active : q[n] = Sockets[k]
      <4>1. \A n \in 1..Len(recent) : q[n] = recent[n] /\ n \in DOMAIN recent
        BY <1>1, <1>4
      <4>2. \A n \in 1..Len(q) : n \in 1..Len(recent) \/ n = Len(q)
        BY <1>1, <1>4
      <4>3. q[Len(q)] = x
        BY <1>1, <1>4
      <4> QED
        BY <1>4, <4>1, <4>2, <4>3, PicksAreActive
    <3>2. q \in Seq(Ids)
      BY <1>1, <1>4
    <3> HIDE DEF q
    <3>3. \A n \in DOMAIN Latest(q, Active) :
            \E k \in 1..Len(q) : Latest(q, Active)[n] = q[k]
      <4>1. CASE Len(q) <= Active
        BY <3>2, <4>1 DEF Latest
      <4>2. CASE ~(Len(q) <= Active)
        <5> DEFINE a == Len(q) - Active + 1
                   b == Len(q)
                   r == SubSeq(q, a, b)
        <5>1. a \in 1..b /\ b \in Nat /\ Latest(q, Active) = r
          BY <1>1, <3>2, <4>2 DEF Latest
        <5> HIDE DEF a
        <5>2. r \in Seq(Ids) /\ Len(r) = b - a + 1 /\ \A n \in 1..(b - a + 1) : r[n] = q[n + a - 1]
          BY <3>2, <5>1
        <5>3. \A n \in 1..(b - a + 1) : n + a - 1 \in 1..b
          BY <5>1
        <5> HIDE DEF b, r
        <5>4. DOMAIN r = 1..(b - a + 1)
          BY <5>1, <5>2
        <5> QED
          BY <5>1, <5>2, <5>3, <5>4 DEF b
      <4> QED
        BY <4>1, <4>2
    <3> QED
      BY <1>1, <3>1, <3>3
  <2>3. \A m, n \in 1..Active : Addr[Sockets[m]] = Addr[Sockets[n]] => m = n
    BY DEF IInv, ActiveIsListed, OneSocketPerAddr
  <2>4. \A m, n \in DOMAIN recent' : Addr[recent'[m]] = Addr[recent'[n]] => m = n
    BY <2>2, <2>3 DEF RoundRobin
  <2> QED
    BY <2>1, <2>4 DEF Addresses
<1> DEFINE addr == Addr[x]
<1>11. Area!NextSocket(addr)
  <2>1. /\ HeldAddr = None /\ HeldAddr' = addr
        /\ RecentAddrs' = Area!Latest(Append(RecentAddrs, addr), Area!Cardinality(addrSet))
    BY <1>8, <1>9, SameCardinality
  <2> HIDE DEF addr
  <2> QED
    BY <1>1, <1>10, <2>1, Zenon DEF Area!NextSocket, HeldAddr, RecentAddrs, Addresses
<1>12. addr \in addrSet
  BY <1>5
<1> HIDE DEF addr
<1> QED
  BY <1>11, <1>12, Zenon DEF Area!NextSocket

LEMMA SendImplements ==
  ASSUME IInv, PicksInv, SendMessage
  PROVE  Area!SendMessage
<1>1. /\ held # None /\ held' = None
      /\ UNCHANGED <<Sockets, Active, Addr, addrSet, writer, recent>>
  BY DEF SendMessage, area
<1>2. HeldAddr # None /\ HeldAddr' = None
  BY <1>1, BackSocketsAssumption DEF PicksInv, HeldAddr
<1>3. RecentAddrs' = RecentAddrs
  <2>1. AreaChanges' <=> AreaChanges
    BY <1>1 DEF AreaChanges, ActiveAddrs, ActiveSockets
  <2> QED
    BY <1>1, <2>1 DEF RecentAddrs, Addresses
<1> QED
  BY <1>1, <1>2, <1>3, Zenon DEF Area!SendMessage, HeldAddr, RecentAddrs, Addresses

LEMMA AreaStep ==
  IInv /\ IInv' /\ PicksInv /\ RoundRobin' /\ [Next]_vars => [Area!Next]_(Area!vars)
<1> SUFFICES ASSUME IInv, IInv', PicksInv, RoundRobin', [Next]_vars
             PROVE  Area!Next \/ UNCHANGED Area!vars
  OBVIOUS
<1>1. CASE UNCHANGED vars
  <2>1. AreaChanges' <=> AreaChanges
    BY <1>1 DEF AreaChanges, ActiveAddrs, ActiveSockets, vars, area
  <2> QED
    BY <1>1, <2>1, AreaStutters DEF vars, area
<1>2. ASSUME NEW addrs \in SUBSET Addrs, LockForUpdate(addrs) PROVE Area!Next
  <2>1. Area!UpdateEndpointAddrs(addrs)
    BY <1>2, LockImplements
  <2> QED
    BY <2>1, Zenon DEF Area!Next, Area!UpdateEndpointAddrs
<1>3. ASSUME NEW addr \in Addrs, addEndpoint(addr) PROVE UNCHANGED Area!vars
  BY <1>3, AddImplements
<1>4. CASE markOffline
  BY <1>4, MarkImplements
<1>5. CASE UpdateDone
  BY <1>5, DoneImplements
<1>6. CASE PurgeLoad \/ PurgeTest
  <2>1. /\ UNCHANGED <<Sockets, Active, Addr, writer, addrSet, held, recent>>
    BY <1>6 DEF PurgeLoad, PurgeTest, area
  <2>2. AreaChanges' <=> AreaChanges
    BY <2>1 DEF AreaChanges, ActiveAddrs, ActiveSockets
  <2> QED
    BY <2>1, <2>2, AreaStutters
<1>7. CASE LockForPurge \/ PurgeDrop \/ PurgeDone
  <2>1. UNCHANGED <<Addr, addrSet, held, recent>>
    BY <1>7 DEF LockForPurge, PurgeDrop, PurgeDone, area
  <2>2. writer # "watcher" /\ writer' # "watcher"
    <3>1. "purger" # "watcher" /\ None # "watcher"
      BY BackSocketsAssumption
    <3> QED
      BY <1>7, <3>1 DEF LockForPurge, PurgeDrop, PurgeDone, IInv, LoopsOK
  <2> QED
    BY <2>1, <2>2, OthersImplement
<1>8. CASE NextSocket
  <2>1. \E addr \in addrSet : Area!NextSocket(addr)
    BY <1>8, NextSocketImplements
  <2> QED
    BY <2>1, Zenon DEF Area!Next, Area!NextSocket
<1>9. CASE SendMessage
  BY <1>9, SendImplements DEF Area!Next
<1>10. CASE Tick
  <2>1. UNCHANGED <<Sockets, Active, Addr, writer, addrSet, held, recent>>
    BY <1>10 DEF Tick
  <2>2. AreaChanges' <=> AreaChanges
    BY <2>1 DEF AreaChanges, ActiveAddrs, ActiveSockets
  <2> QED
    BY <2>1, <2>2, AreaStutters
<1> QED
  BY <1>1, <1>2, <1>3, <1>4, <1>5, <1>6, <1>7, <1>8, <1>9, <1>10 DEF Next, Update, Purge

(***************************************************************************)
(* The table of sockets implements ActiveArea: the main loop gets an       *)
(* address of the set listed last, in its turn, and keeps it until it has  *)
(* sent, whatever the watcher and the purger do under the lock.            *)
(***************************************************************************)
THEOREM TableImplementsActiveArea == Spec => ImplementsActiveArea
<1>1. Spec => []IInv /\ []PicksInv /\ []RoundRobin
  BY BackSocketsInvariant, Picks, RequestsGoRoundRobin
<1> QED
  BY <1>1, AreaInit, AreaStep, PTL DEF Spec, ImplementsActiveArea, Area!Spec
=============================================================================
