----------------------------- MODULE RpcProofs -----------------------------
(***************************************************************************)
(* Theorems about Rpc, for any clients, proxies, balancers and workers.    *)
(* Each action takes a message whose frames are of one of the kinds of Rpc *)
(* (AtProxy, AtFrontend, AtWorker, AtBackend, AtDealer, AtClient) to one   *)
(* of the next kind, of the same request, or drops it.  PidsAreDistinct,   *)
(* of Rpc, is an assumption of the theorems that say which client it comes *)
(* back to; what the others say of a message does not need it.             *)
(***************************************************************************)
EXTENDS Rpc, SequenceTheorems, TLAPS

-----------------------------------------------------------------------------
(***************************************************************************)
(* What the operators on frames do to a sequence, whatever is in it.       *)
(***************************************************************************)
LEMMA SeqIsSeq == ASSUME NEW S, NEW s \in Seq(S) PROVE IsSeq(s)
<1> DEFINE T == {s[n] : n \in DOMAIN s}
<1>1. Len(s) \in Nat /\ DOMAIN s = 1..Len(s) /\ s = [n \in 1..Len(s) |-> s[n]]
  BY LenProperties
<1>2. s \in [1..Len(s) -> T]
  BY <1>1
<1>3. s \in Seq(T)
  BY <1>1, <1>2, SeqDef
<1> QED
  BY <1>3 DEF IsSeq

LEMMA SeqLen ==
  ASSUME NEW s, IsSeq(s)
  PROVE  Len(s) \in Nat /\ DOMAIN s = 1..Len(s)
  BY LenProperties DEF IsSeq

LEMMA Pushed ==
  ASSUME NEW s, NEW t, IsSeq(s), IsSeq(t)
  PROVE  /\ IsSeq(s \o t)
         /\ Len(s \o t) = Len(s) + Len(t)
         /\ \A n \in 1..Len(s) : (s \o t)[n] = s[n]
         /\ \A n \in 1..Len(t) : (s \o t)[Len(s) + n] = t[n]
<1> DEFINE S == {s[n] : n \in DOMAIN s} \cup {t[n] : n \in DOMAIN t}
<1>1. s \in Seq(S) /\ t \in Seq(S)
  BY SeqMonotonic DEF IsSeq
<1>2. Len(s) \in Nat /\ Len(t) \in Nat
  BY SeqLen
<1> HIDE DEF S
<1>3. /\ s \o t \in Seq(S) /\ Len(s \o t) = Len(s) + Len(t)
      /\ \A i \in 1 .. Len(s) + Len(t) : (s \o t)[i] =
                     IF i <= Len(s) THEN s[i] ELSE t[i - Len(s)]
  BY <1>1, ConcatProperties
<1>4. IsSeq(s \o t)
  BY <1>3, SeqIsSeq
<1>5. \A n \in 1..Len(t) : Len(s) + n \in 1..(Len(s) + Len(t)) /\ ~(Len(s) + n <= Len(s))
                           /\ (Len(s) + n) - Len(s) = n
  BY <1>2
<1> QED
  BY <1>2, <1>3, <1>4, <1>5

LEMMA Dropped ==
  ASSUME NEW s, IsSeq(s), NEW m \in Nat, m < Len(s)
  PROVE  /\ IsSeq(SubSeq(s, m + 1, Len(s)))
         /\ Len(SubSeq(s, m + 1, Len(s))) = Len(s) - m
         /\ \A n \in 1..(Len(s) - m) : SubSeq(s, m + 1, Len(s))[n] = s[m + n]
<1> DEFINE S == {s[n] : n \in DOMAIN s}
           k == Len(s)
<1>1. s \in Seq(S) /\ k \in Nat /\ DOMAIN s = 1..k
  BY SeqLen DEF IsSeq
<1>2. \A i \in (m + 1)..k : s[i] \in S
  BY <1>1
<1> HIDE DEF S, k
<1>3. /\ SubSeq(s, m + 1, k) \in Seq(S)
      /\ Len(SubSeq(s, m + 1, k)) = IF m + 1 <= k THEN k - (m + 1) + 1 ELSE 0
      /\ \A i \in 1 .. k - (m + 1) + 1 : SubSeq(s, m + 1, k)[i] = s[(m + 1) + i - 1]
  BY <1>1, <1>2, SubSeqProperties
<1>4. m + 1 <= k
  BY <1>1 DEF k
<1>5. IsSeq(SubSeq(s, m + 1, k))
  BY <1>3, SeqIsSeq
<1> QED
  BY <1>1, <1>3, <1>4, <1>5 DEF k

LEMMA Tailed ==
  ASSUME NEW s, IsSeq(s), Len(s) > 0
  PROVE  /\ Head(s) = s[1]
         /\ Tail(s) = SubSeq(s, 1 + 1, Len(s))
<1> DEFINE S == {s[n] : n \in DOMAIN s}
<1>1. s \in Seq(S) /\ s # <<>>
  BY SeqLen DEF IsSeq
<1> HIDE DEF S
<1>2. Tail(s) = SubSeq(s, 2, Len(s)) /\ 1 + 1 = 2
  BY <1>1, TailIsSubSeq
<1> QED
  BY <1>1, <1>2

LEMMA Fronted ==
  ASSUME NEW s, IsSeq(s), Len(s) > 0
  PROVE  /\ IsSeq(Front(s)) /\ Len(Front(s)) = Len(s) - 1
         /\ \A n \in 1..(Len(s) - 1) : Front(s)[n] = s[n]
<1> DEFINE S == {s[n] : n \in DOMAIN s}
           k == Len(s) - 1
<1>1. s \in Seq(S) /\ k \in Nat /\ DOMAIN s = 1..(k + 1)
  BY SeqLen DEF IsSeq
<1>2. \A i \in 1..k : s[i] \in S
  BY <1>1
<1>3. Front(s) = SubSeq(s, 1, k)
  BY DEF Front
<1> HIDE DEF S, k
<1>4. /\ SubSeq(s, 1, k) \in Seq(S)
      /\ Len(SubSeq(s, 1, k)) = IF 1 <= k THEN k - 1 + 1 ELSE 0
      /\ \A i \in 1 .. k - 1 + 1 : SubSeq(s, 1, k)[i] = s[1 + i - 1]
  BY <1>1, <1>2, SubSeqProperties
<1>5. IsSeq(SubSeq(s, 1, k))
  BY <1>4, SeqIsSeq
<1> QED
  BY <1>1, <1>3, <1>4, <1>5 DEF k

LEMMA Tuples ==
  /\ \A a : IsSeq(<<a>>)
  /\ \A a, b : IsSeq(<<a, b>>)
  /\ \A a, b, c : IsSeq(<<a, b, c>>)
  /\ \A a, b, c, d, e : IsSeq(<<a, b, c, d, e>>)
<1>1. ASSUME NEW a PROVE IsSeq(<<a>>)
  <2>1. <<a>> \in Seq({a})
    OBVIOUS
  <2> QED
    BY <2>1, SeqIsSeq
<1>2. ASSUME NEW a, NEW b PROVE IsSeq(<<a, b>>)
  <2>1. <<a, b>> \in Seq({a, b})
    OBVIOUS
  <2> QED
    BY <2>1, SeqIsSeq
<1>3. ASSUME NEW a, NEW b, NEW c PROVE IsSeq(<<a, b, c>>)
  <2>1. <<a, b, c>> \in Seq({a, b, c})
    OBVIOUS
  <2> QED
    BY <2>1, SeqIsSeq
<1>4. ASSUME NEW a, NEW b, NEW c, NEW d, NEW e PROVE IsSeq(<<a, b, c, d, e>>)
  <2>1. <<a, b, c, d, e>> \in Seq({a, b, c, d, e})
    OBVIOUS
  <2> QED
    BY <2>1, SeqIsSeq
<1> QED
  BY <1>1, <1>2, <1>3, <1>4

-----------------------------------------------------------------------------
(***************************************************************************)
(* What they do to the data and its time stamps.                           *)
(***************************************************************************)
LEMMA StampsPushed ==
  ASSUME NEW s, NEW t, IsSeq(s), IsSeq(t), NEW n \in Nat, Stamps(t, n)
  PROVE  Stamps(s \o t, Len(s) + n) /\ Last(s \o t) = Last(t)
<1> DEFINE u == s \o t
           i == Len(s)
           k == Len(t)
<1>1. /\ i \in Nat /\ k \in Nat /\ n < k /\ Len(u) = i + k
      /\ \A m \in 1..k : u[i + m] = t[m]
      /\ \A m \in (n + 1)..k : t[m] = EMPTY_MSG <=> m > n + 1 /\ t[m - 1] = Time
  BY SeqLen, Pushed DEF Stamps
<1>2. Last(u) = u[Len(u)] /\ Last(t) = t[k]
  BY DEF Last
<1> HIDE DEF u, i, k
<1>3. ASSUME NEW m \in (i + n + 1)..(i + k)
      PROVE  u[m] = EMPTY_MSG <=> m > i + n + 1 /\ u[m - 1] = Time
  <2>1. PICK j \in (n + 1)..k : m = i + j
    <3>1. m - i \in (n + 1)..k /\ m = i + (m - i)
      BY <1>1, <1>3
    <3> QED
      BY <3>1
  <2>2. /\ u[m] = t[j] /\ (m > i + n + 1 <=> j > n + 1)
        /\ j > n + 1 => u[m - 1] = t[j - 1]
    <3>1. j \in 1..k /\ u[m] = t[j] /\ (m > i + n + 1 <=> j > n + 1)
      BY <1>1, <2>1
    <3>2. ASSUME j > n + 1 PROVE u[m - 1] = t[j - 1]
      <4>1. j - 1 \in 1..k /\ m - 1 = i + (j - 1)
        BY <1>1, <2>1, <3>2
      <4> QED
        BY <1>1, <4>1
    <3> QED
      BY <3>1, <3>2
  <2> QED
    BY <1>1, <2>2
<1>4. Last(u) = Last(t)
  BY <1>1, <1>2
<1>5. Stamps(u, i + n)
  BY <1>1, <1>3 DEF Stamps
<1> QED
  BY <1>4, <1>5 DEF u, i

LEMMA StampsDropped ==
  ASSUME NEW s, IsSeq(s), NEW n \in Nat, NEW m \in Nat, m <= n, Stamps(s, n)
  PROVE  /\ Stamps(SubSeq(s, m + 1, Len(s)), n - m)
         /\ Last(SubSeq(s, m + 1, Len(s))) = Last(s)
<1> DEFINE k == Len(s)
           u == SubSeq(s, m + 1, k)
<1>1. k \in Nat /\ n < k /\ \A j \in (n + 1)..k : s[j] = EMPTY_MSG <=> j > n + 1 /\ s[j - 1] = Time
  BY SeqLen DEF Stamps
<1>2. Len(u) = k - m /\ \A j \in 1..(k - m) : u[j] = s[m + j]
  BY <1>1, Dropped
<1>3. Last(u) = u[Len(u)] /\ Last(s) = s[k]
  BY DEF Last
<1> HIDE DEF u, k
<1>4. ASSUME NEW j \in (n - m + 1)..(k - m)
      PROVE  u[j] = EMPTY_MSG <=> j > n - m + 1 /\ u[j - 1] = Time
  <2>1. /\ m + j \in (n + 1)..k /\ u[j] = s[m + j]
        /\ j > n - m + 1 <=> m + j > n + 1
    BY <1>1, <1>2, <1>4
  <2>2. ASSUME m + j > n + 1 PROVE u[j - 1] = s[m + j - 1]
    <3>1. j - 1 \in 1..(k - m) /\ m + (j - 1) = m + j - 1
      BY <1>1, <1>4, <2>2
    <3> QED
      BY <1>2, <3>1
  <2> QED
    BY <1>1, <2>1, <2>2
<1>5. Last(u) = Last(s)
  <2>1. k - m \in 1..(k - m) /\ m + (k - m) = k
    BY <1>1
  <2> QED
    BY <1>2, <1>3, <2>1
<1>6. Stamps(u, n - m)
  BY <1>1, <1>2, <1>4 DEF Stamps
<1> QED
  BY <1>5, <1>6 DEF u, k

LEMMA FrameKinds ==
  /\ EMPTY_MSG # Time /\ EMPTY_MSG # Control /\ Time # Control
  /\ Len(EMPTY_MSG) = 0 /\ Len(Time) = 1 /\ Len(Control) = 1
  BY DEF EMPTY_MSG, Time, Control

\* The last frame is replaced: the stamps are as they were.
LEMMA DataReplaced ==
  ASSUME NEW s, IsSeq(s), NEW n \in Nat, Stamps(s, n), Last(s) # EMPTY_MSG,
         NEW data, data # EMPTY_MSG
  PROVE  /\ IsSeq(InPlaceOfData(s, data)) /\ Len(InPlaceOfData(s, data)) = Len(s)
         /\ \A m \in 1..(Len(s) - 1) : InPlaceOfData(s, data)[m] = s[m]
         /\ Stamps(InPlaceOfData(s, data), n) /\ Last(InPlaceOfData(s, data)) = data
<1> DEFINE u == InPlaceOfData(s, data)
           k == Len(s)
<1>1. /\ k \in Nat /\ n < k
      /\ \A j \in (n + 1)..k : s[j] = EMPTY_MSG <=> j > n + 1 /\ s[j - 1] = Time
  BY SeqLen DEF Stamps
<1>2. Last(u) = u[Len(u)] /\ Last(s) = s[k]
  BY DEF Last
<1>3. /\ IsSeq(Front(s)) /\ Len(Front(s)) = k - 1
      /\ \A m \in 1..(k - 1) : Front(s)[m] = s[m]
  BY <1>1, Fronted
<1>4. IsSeq(<<data>>) /\ Len(<<data>>) = 1 /\ <<data>>[1] = data
  BY Tuples
<1>5. /\ IsSeq(u) /\ Len(u) = k /\ u[k] = data
      /\ \A m \in 1..(k - 1) : u[m] = s[m]
  <2>1. u = Front(s) \o <<data>>
    BY DEF InPlaceOfData
  <2>2. /\ IsSeq(u) /\ Len(u) = (k - 1) + 1 /\ u[(k - 1) + 1] = <<data>>[1]
        /\ \A m \in 1..(k - 1) : u[m] = Front(s)[m]
    BY <1>1, <1>3, <1>4, <2>1, Pushed
  <2> HIDE DEF u, k
  <2> QED
    BY <1>1, <1>3, <1>4, <2>2
<1> HIDE DEF u, k
<1>6. ASSUME NEW j \in (n + 1)..k
      PROVE  u[j] = EMPTY_MSG <=> j > n + 1 /\ u[j - 1] = Time
  BY <1>1, <1>2, <1>5
<1> QED
  BY <1>1, <1>2, <1>5, <1>6 DEF Stamps, u, k

\* A proxy adds a time and the empty frame after it, or nothing.
LEMMA StampAdded ==
  ASSUME NEW s, IsSeq(s), NEW n \in Nat, Stamps(s, n), Last(s) # EMPTY_MSG, NEW p
  PROVE  /\ IsSeq(Stamped(p, s)) /\ Len(Stamped(p, s)) >= Len(s)
         /\ \A m \in 1..n : Stamped(p, s)[m] = s[m]
         /\ Stamps(Stamped(p, s), n) /\ Last(Stamped(p, s)) = Last(s)
<1> DEFINE k == Len(s)
<1>1. /\ k \in Nat /\ n < k
      /\ \A j \in (n + 1)..k : s[j] = EMPTY_MSG <=> j > n + 1 /\ s[j - 1] = Time
  BY SeqLen DEF Stamps
<1>2. CASE ~PROFILE[p]
  BY <1>1, <1>2 DEF Stamped
<1>3. CASE PROFILE[p]
  <2> DEFINE u == Stamped(p, s)
             t == <<Time, EMPTY_MSG, Last(s)>>
  <2>1. u = Front(s) \o t
    BY <1>3 DEF Stamped
  <2>2. /\ IsSeq(Front(s)) /\ Len(Front(s)) = k - 1
        /\ \A m \in 1..(k - 1) : Front(s)[m] = s[m]
    BY <1>1, Fronted
  <2>3. IsSeq(t) /\ Len(t) = 3 /\ t[1] = Time /\ t[2] = EMPTY_MSG /\ t[3] = Last(s)
    BY Tuples
  <2>4. Last(u) = u[Len(u)] /\ Last(s) = s[k]
    BY DEF Last
  <2> HIDE DEF u, t, k
  <2>5. /\ IsSeq(u) /\ Len(u) = (k - 1) + 3
        /\ \A m \in 1..(k - 1) : u[m] = s[m]
        /\ \A m \in 1..3 : u[(k - 1) + m] = t[m]
    <3> DEFINE f == Front(s)
    <3>1. IsSeq(f) /\ IsSeq(t) /\ u = f \o t
      BY <2>1, <2>2, <2>3
    <3>2. Len(f) = k - 1 /\ Len(t) = 3 /\ \A m \in 1..(k - 1) : f[m] = s[m]
      BY <2>2, <2>3
    <3> HIDE DEF f
    <3>3. /\ IsSeq(u) /\ Len(u) = Len(f) + Len(t)
          /\ \A m \in 1..Len(f) : u[m] = f[m]
          /\ \A m \in 1..Len(t) : u[Len(f) + m] = t[m]
      BY <3>1, Pushed
    <3> QED
      BY <3>2, <3>3
  <2>6. Len(u) = k + 2 /\ u[k] = Time /\ u[k + 1] = EMPTY_MSG /\ u[k + 2] = Last(s)
    <3>1. /\ u[(k - 1) + 1] = t[1] /\ u[(k - 1) + 2] = t[2] /\ u[(k - 1) + 3] = t[3]
      BY <2>5
    <3>2. (k - 1) + 1 = k /\ (k - 1) + 2 = k + 1 /\ (k - 1) + 3 = k + 2
      BY <1>1
    <3> QED
      BY <2>3, <2>5, <3>1, <3>2
  <2>7. ASSUME NEW j \in (n + 1)..(k + 2)
        PROVE  u[j] = EMPTY_MSG <=> j > n + 1 /\ u[j - 1] = Time
    <3>1. CASE j < k
      <4>1. u[j] = s[j] /\ (j > n + 1 => u[j - 1] = s[j - 1])
        BY <1>1, <2>5, <2>7, <3>1
      <4> QED
        BY <1>1, <2>7, <3>1, <4>1
    <3>2. CASE j = k
      <4>1. s[k] # EMPTY_MSG
        BY <2>4
      <4>2. j > n + 1 => u[j - 1] = s[j - 1] /\ s[j - 1] # Time
        BY <1>1, <2>5, <2>7, <3>2, <4>1
      <4> QED
        BY <2>6, <3>2, <4>2, FrameKinds
    <3>3. CASE j = k + 1
      BY <1>1, <2>6, <3>3
    <3>4. CASE j = k + 2
      <4>1. u[j] # EMPTY_MSG /\ u[j - 1] # Time
        BY <1>1, <2>6, <3>4, FrameKinds
      <4> QED
        BY <4>1
    <3> QED
      BY <1>1, <2>7, <3>1, <3>2, <3>3, <3>4
  <2>8. Stamps(u, n)
    BY <1>1, <2>6, <2>7 DEF Stamps
  <2>9. \A m \in 1..n : u[m] = s[m]
    BY <1>1, <2>5
  <2>10. Last(u) = Last(s)
    BY <2>4, <2>6
  <2>11. Len(u) >= k
    BY <1>1, <2>6
  <2> QED
    BY <2>5, <2>8, <2>9, <2>10, <2>11 DEF u, k
<1> QED
  BY <1>2, <1>3

\* Unwrap takes a frame and the empty frame after it.
LEMMA Unwrapped ==
  ASSUME NEW s, IsSeq(s), Len(s) > 1, s[2] = EMPTY_MSG
  PROVE  Unwrap(s).head = s[1] /\ Unwrap(s).tails = SubSeq(s, 2 + 1, Len(s))
<1>1. Head(s) = s[1]
  BY Tailed, SeqLen
<1> QED
  BY <1>1 DEF Unwrap

\* At most one empty frame is in front of what goes from a process to another.
LEMMA Trimmed ==
  ASSUME NEW s, IsSeq(s)
  PROVE  /\ Len(s) > 0 /\ s[1] # EMPTY_MSG => TrimLeftEmptyMsg(s) = s
         /\ Len(s) > 1 /\ s[1] = EMPTY_MSG /\ s[2] # EMPTY_MSG =>
              TrimLeftEmptyMsg(s) = SubSeq(s, 1 + 1, Len(s))
<1> DEFINE full == {n \in DOMAIN s : s[n] # EMPTY_MSG}
           First(n) == n \in full /\ \A k \in full : n <= k
<1>1. Len(s) \in Nat /\ DOMAIN s = 1..Len(s)
  BY SeqLen
<1>2. \A n : First(n) => TrimLeftEmptyMsg(s) = SubSeq(s, n, Len(s))
  <2> SUFFICES ASSUME NEW n, First(n) PROVE TrimLeftEmptyMsg(s) = SubSeq(s, n, Len(s))
    OBVIOUS
  <2>1. \A m \in full : (\A k \in full : m <= k) => m = n
    BY <1>1
  <2>2. (CHOOSE m \in full : \A k \in full : m <= k) = n
    BY <2>1
  <2> QED
    BY <2>2 DEF TrimLeftEmptyMsg
<1>3. ASSUME Len(s) > 0, s[1] # EMPTY_MSG PROVE TrimLeftEmptyMsg(s) = s
  <2>1. First(1)
    BY <1>1, <1>3
  <2>2. SubSeq(s, 1, Len(s)) = s
    BY SubSeqFull DEF IsSeq
  <2> QED
    BY <1>2, <2>1, <2>2
<1>4. ASSUME Len(s) > 1, s[1] = EMPTY_MSG, s[2] # EMPTY_MSG
      PROVE  TrimLeftEmptyMsg(s) = SubSeq(s, 1 + 1, Len(s))
  <2>1. First(2) /\ 1 + 1 = 2
    <3>1. 2 \in full /\ 1 \notin full
      BY <1>1, <1>4
    <3> QED
      BY <1>1, <3>1
  <2> HIDE DEF First
  <2> QED
    BY <1>2, <2>1
<1> QED
  BY <1>3, <1>4

-----------------------------------------------------------------------------
(***************************************************************************)
(* What the invariant says of a message.                                   *)
(***************************************************************************)
LEMMA CallData ==
  ASSUME NEW r, NEW data, IsCall(r, data)
  PROVE  data # EMPTY_MSG /\ data # Control /\ data[2] = "call" /\ data[4] = r /\ data[5] = r
<1>1. Len(data) = 5 /\ data[2] = "call" /\ data[4] = r /\ data[5] = r
  BY DEF IsCall, Data
<1> QED
  BY <1>1, FrameKinds

LEMMA AnswerData ==
  ASSUME NEW r, NEW data, IsAnswer(r, data)
  PROVE  data # EMPTY_MSG /\ data # Control /\ data[5] = r
  BY FrameKinds DEF IsAnswer

\* The errors of both programs, and the reply of a worker.
LEMMA AnswersMade ==
  ASSUME NEW r
  PROVE  /\ \A service, seqId : IsAnswer(r, GetServiceNotFoundData(service, seqId, r))
         /\ \A service, seqId : IsAnswer(r, GetWorkerNotFoundData(service, seqId, r))
         /\ IsAnswer(r, Data("reply", Wants[r], r, r))
<1>1. \A kind, service, seqId :
        LET data == Data(kind, service, seqId, r)
        IN /\ Len(data) = 5 /\ data[2] = kind /\ data[3] = service /\ data[4] = seqId
           /\ data[5] = r
  BY DEF Data
<1> QED
  BY <1>1 DEF IsAnswer, GetServiceNotFoundData, GetWorkerNotFoundData

LEMMA AtProxyIs ==
  ASSUME NEW r, NEW m, AtProxy(r, m)
  PROVE  /\ IsSeq(m.msg) /\ Len(m.msg) = 5
         /\ m.msg[1] = ClientId(Caller[r]) /\ m.msg[2] = EMPTY_MSG
         /\ m.msg[3] = Service(Wants[r]) /\ m.msg[4] = EMPTY_MSG
         /\ IsCall(r, m.msg[5]) /\ Last(m.msg) = m.msg[5]
<1>1. /\ Len(m.msg) = 5
      /\ m.msg[1] = ClientId(Caller[r]) /\ m.msg[2] = EMPTY_MSG
      /\ m.msg[3] = Service(Wants[r]) /\ m.msg[4] = EMPTY_MSG
      /\ m.msg[5] = Data("call", Wants[r], r, r)
  BY DEF AtProxy
<1>2. IsSeq(m.msg)
  BY Tuples DEF AtProxy
<1> QED
  BY <1>1, <1>2 DEF IsCall, Last

LEMMA BehindIs ==
  /\ \A s, a : Behind(<<a>>, s) <=> IsSeq(s) /\ s[1] = a /\ Stamps(s, 1)
  /\ \A s, a, b, c : Behind(<<a, b, c>>, s) <=>
       IsSeq(s) /\ s[1] = a /\ s[2] = b /\ s[3] = c /\ Stamps(s, 3)
  /\ \A s, a, b, c, d : Behind(<<a, b, c, d>>, s) <=>
       IsSeq(s) /\ s[1] = a /\ s[2] = b /\ s[3] = c /\ s[4] = d /\ Stamps(s, 4)
  /\ \A s, a, b, c, d, e : Behind(<<a, b, c, d, e>>, s) <=>
       IsSeq(s) /\ s[1] = a /\ s[2] = b /\ s[3] = c /\ s[4] = d /\ s[5] = e /\ Stamps(s, 5)
  /\ \A s, a, b, c, d, e, f : Behind(<<a, b, c, d, e, f>>, s) <=>
       /\ IsSeq(s) /\ s[1] = a /\ s[2] = b /\ s[3] = c /\ s[4] = d /\ s[5] = e /\ s[6] = f
       /\ Stamps(s, 6)
<1>1. ASSUME NEW s, NEW a
      PROVE  Behind(<<a>>, s) <=> IsSeq(s) /\ s[1] = a /\ Stamps(s, 1)
  BY DEF Behind
<1>2. ASSUME NEW s, NEW a, NEW b, NEW c
      PROVE  Behind(<<a, b, c>>, s) <=>
               IsSeq(s) /\ s[1] = a /\ s[2] = b /\ s[3] = c /\ Stamps(s, 3)
  BY DEF Behind
<1>3. ASSUME NEW s, NEW a, NEW b, NEW c, NEW d
      PROVE  Behind(<<a, b, c, d>>, s) <=>
               IsSeq(s) /\ s[1] = a /\ s[2] = b /\ s[3] = c /\ s[4] = d /\ Stamps(s, 4)
  BY DEF Behind
<1>4. ASSUME NEW s, NEW a, NEW b, NEW c, NEW d, NEW e
      PROVE  Behind(<<a, b, c, d, e>>, s) <=>
               /\ IsSeq(s) /\ s[1] = a /\ s[2] = b /\ s[3] = c /\ s[4] = d /\ s[5] = e
               /\ Stamps(s, 5)
  BY DEF Behind
<1>5. ASSUME NEW s, NEW a, NEW b, NEW c, NEW d, NEW e, NEW f
      PROVE  Behind(<<a, b, c, d, e, f>>, s) <=>
               /\ IsSeq(s) /\ s[1] = a /\ s[2] = b /\ s[3] = c /\ s[4] = d /\ s[5] = e /\ s[6] = f
               /\ Stamps(s, 6)
  BY DEF Behind
<1> QED
  BY <1>1, <1>2, <1>3, <1>4, <1>5

LEMMA OnItsWayIs ==
  ASSUME NEW r, NEW m, OnItsWay(r, m)
  PROVE  IsSeq(m.msg) /\ RequestOf(m.msg) = r /\ ~IsControl(m)
<1>1. IsSeq(m.msg) /\ (IsCall(r, Last(m.msg)) \/ IsAnswer(r, Last(m.msg)))
  BY AtProxyIs DEF OnItsWay, AtFrontend, AtWorker, AtBackend, AtDealer, AtClient, Received, Behind
<1> QED
  BY <1>1, CallData, AnswerData DEF RequestOf, IsControl

LEMMA HeartbeatIs ==
  ASSUME NEW m, IsHeartbeat(m)
  PROVE  /\ IsControl(m) /\ IsSeq(m.msg) /\ Len(m.msg) = 3 /\ m.msg[2] = EMPTY_MSG
         /\ \E b : m.at = <<"backend", b>>
<1>1. /\ Len(m.msg) = 3 /\ m.msg[2] = EMPTY_MSG /\ m.msg[3] = Control
      /\ \E b : m.at = <<"backend", b>>
  BY DEF IsHeartbeat
<1>2. IsSeq(m.msg)
  BY Tuples DEF IsHeartbeat
<1> QED
  BY <1>1, <1>2 DEF IsControl, Last

\* The place of a message tells how far its request has come.
LEMMA PlaceTells ==
  ASSUME Routed, NEW m \in inbox
  PROVE  /\ \A p : m.at = <<"proxy", p>> => \E r \in called : AtProxy(r, m)
         /\ \A b : m.at = <<"frontend", b>> => \E r \in called : AtFrontend(r, m)
         /\ \A w : m.at = <<"worker", w>> => \E r \in called : AtWorker(r, m)
         /\ \A b : m.at = <<"backend", b>> => IsHeartbeat(m) \/ \E r \in called : AtBackend(r, m)
         /\ \A p : m.at = <<"dealer", p>> => \E r \in called : AtDealer(r, m)
         /\ \A c : m.at = <<"client", c>> => \E r \in called : AtClient(r, m)
<1>1. \/ m.at[1] = "backend" /\ IsHeartbeat(m)
      \/ \E r \in called :
           \/ m.at[1] = "proxy" /\ AtProxy(r, m)
           \/ m.at[1] = "frontend" /\ AtFrontend(r, m)
           \/ m.at[1] = "worker" /\ AtWorker(r, m)
           \/ m.at[1] = "backend" /\ AtBackend(r, m)
           \/ m.at[1] = "dealer" /\ AtDealer(r, m)
           \/ m.at[1] = "client" /\ AtClient(r, m)
  <2>1. IsHeartbeat(m) => m.at[1] = "backend"
    BY DEF IsHeartbeat
  <2>2. ASSUME NEW r, OnItsWay(r, m)
        PROVE  \/ m.at[1] = "proxy" /\ AtProxy(r, m)
               \/ m.at[1] = "frontend" /\ AtFrontend(r, m)
               \/ m.at[1] = "worker" /\ AtWorker(r, m)
               \/ m.at[1] = "backend" /\ AtBackend(r, m)
               \/ m.at[1] = "dealer" /\ AtDealer(r, m)
               \/ m.at[1] = "client" /\ AtClient(r, m)
    <3>1. /\ AtProxy(r, m) => m.at[1] = "proxy"
          /\ AtFrontend(r, m) => m.at[1] = "frontend"
          /\ AtWorker(r, m) => m.at[1] = "worker"
          /\ AtBackend(r, m) => m.at[1] = "backend"
          /\ AtDealer(r, m) => m.at[1] = "dealer"
          /\ AtClient(r, m) => m.at[1] = "client"
      BY DEF AtProxy, AtFrontend, AtWorker, AtBackend, AtDealer, AtClient
    <3> QED
      BY <2>2, <3>1 DEF OnItsWay
  <2> QED
    BY <2>1, <2>2 DEF Routed
<1>2. \A kind, x : m.at = <<kind, x>> => m.at[1] = kind
  OBVIOUS
<1> QED
  BY <1>1, <1>2

-----------------------------------------------------------------------------
(***************************************************************************)
(* What a step does to the messages under way: some go, one takes the      *)
(* place of another of its request, or a request or a heartbeat is new.    *)
(***************************************************************************)
LEMMA CallsUnderWay ==
  ASSUME IInv
  PROVE  /\ \A m \in inbox : ~IsControl(m) => RequestOf(m.msg) \in called
         /\ \A c \in Clients : \A n \in DOMAIN got[c] : RequestOf(got[c][n]) \in called
<1>1. \A m \in inbox : ~IsControl(m) => RequestOf(m.msg) \in called
  BY OnItsWayIs, HeartbeatIs DEF IInv, Routed
<1>2. ASSUME NEW r, NEW msg, Received(r, msg) PROVE RequestOf(msg) = r
  BY <1>2, AnswerData DEF Received, RequestOf
<1> QED
  BY <1>1, <1>2 DEF IInv, Delivered

\* What every step but a restart does to the sockets: no connection of a proxy
\* goes.
SocketsKept ==
  /\ lost \subseteq lost' /\ SocketsOK'
  /\ \A p \in Proxies : \A b, id : IsConnected(p, b, id) => IsConnected(p, b, id)'

LEMMA SocketsLeft ==
  ASSUME OpenInv, UNCHANGED <<sockets, current, refused, pid>>, lost \subseteq lost'
  PROVE  SocketsKept
<1>1. /\ \A p, seq : Identity(p, seq)' = Identity(p, seq)
      /\ \A p, b, id : IsConnected(p, b, id)' <=> IsConnected(p, b, id)
  BY DEF IsConnected, Identity
<1>2. NamedOnce'
  BY <1>1 DEF OpenInv, SocketsOK, NamedOnce
<1>3. SocketsOK'
  BY <1>2 DEF OpenInv, SocketsOK
<1> QED
  BY <1>1, <1>3 DEF SocketsKept

LEMMA WayKept ==
  ASSUME SocketsKept, NEW r \in Requests, NEW m, WayOpen(r, m)
  PROVE  WayOpen(r, m)'
<1>1. Home[Caller[r]] \in Proxies
  BY RpcAssumption
<1> QED
  BY <1>1 DEF WayOpen, SocketsKept

\* A connection is needed only on the way to a balancer, a worker and back.
LEMMA WayNeedsNone ==
  ASSUME NEW r, NEW m, m.at[1] \in {"proxy", "dealer", "client"}
  PROVE  WayOpen(r, m)'
  BY DEF WayOpen

LEMMA MessageKept ==
  ASSUME IInv, OpenInv, SocketsKept, NEW m \in inbox, ~IsControl(m), RequestOf(m.msg) \notin lost'
  PROVE  WayOpen(RequestOf(m.msg), m)'
<1> DEFINE r == RequestOf(m.msg)
<1>1. r \in Requests
  BY CallsUnderWay DEF IInv
<1>2. WayOpen(r, m)
  BY DEF OpenInv, SocketsKept
<1> HIDE DEF r
<1>3. WayOpen(r, m)'
  BY <1>1, <1>2, WayKept
<1> QED
  BY <1>3 DEF r

LEMMA FewerKept ==
  ASSUME IInv, inbox' \subseteq inbox, UNCHANGED <<called, got>>
  PROVE  IInv'
<1>1. Routed'
  BY DEF IInv, Routed
<1>2. Delivered'
  BY DEF IInv, Delivered
<1>3. Once'
  BY DEF IInv, Once
<1> QED
  BY <1>1, <1>2, <1>3 DEF IInv

\* What goes is a heartbeat, or of a request that is lost.
LEMMA FewerOpen ==
  ASSUME IInv, OpenInv, SocketsKept, inbox' \subseteq inbox, UNCHANGED <<called, got>>,
         PidsAreDistinct =>
           \A m \in inbox \ inbox' : IsControl(m) \/ RequestOf(m.msg) \in lost'
  PROVE  OpenInv'
<1>1. ASSUME NEW m \in inbox', ~IsControl(m), RequestOf(m.msg) \notin lost'
      PROVE  WayOpen(RequestOf(m.msg), m)'
  BY <1>1, MessageKept
<1>2. ASSUME PidsAreDistinct PROVE NothingDropped'
  <2> SUFFICES ASSUME NEW r \in called, r \notin lost' PROVE UnderWay(r)' \/ Answered(r)'
    BY DEF NothingDropped
  <2>1. r \notin lost
    BY DEF SocketsKept
  <2> QED
    BY <1>2, <2>1 DEF OpenInv, NothingDropped, UnderWay, Answered
<1> QED
  BY <1>1, <1>2 DEF OpenInv, SocketsKept

LEMMA PassKept ==
  ASSUME IInv, OpenInv, SocketsKept, UNCHANGED <<called, got>>,
         NEW m \in inbox, NEW r \in called, OnItsWay(r, m),
         NEW sent, Pass(m, sent), NEW x, sent \subseteq {x}, OnItsWay(r, x),
         r \notin lost' => WayOpen(r, x)' /\ (PidsAreDistinct => x \in sent)
  PROVE  IInv' /\ OpenInv'
<1>1. inbox' \subseteq (inbox \ {m}) \cup {x}
  BY DEF Pass
<1>2. RequestOf(m.msg) = r /\ ~IsControl(m) /\ RequestOf(x.msg) = r /\ ~IsControl(x)
  BY OnItsWayIs
<1>3. \A n \in inbox \ {m} : ~IsControl(n) => RequestOf(n.msg) # r
  BY <1>2 DEF IInv, Once
<1>4. \A c \in Clients : \A n \in DOMAIN got[c] : RequestOf(got[c][n]) # r
  BY <1>2 DEF IInv, Once
<1>5. Routed'
  BY <1>1 DEF IInv, Routed
<1>6. Delivered'
  BY DEF IInv, Delivered
<1>7. Once'
  <2>1. \A n, k \in inbox' :
          ~IsControl(n) /\ ~IsControl(k) /\ RequestOf(n.msg) = RequestOf(k.msg) => n = k
    BY <1>1, <1>2, <1>3 DEF IInv, Once
  <2>2. \A n \in inbox', c \in Clients : \A k \in DOMAIN got[c] :
          ~IsControl(n) => RequestOf(n.msg) # RequestOf(got[c][k])
    BY <1>1, <1>2, <1>4 DEF IInv, Once
  <2> QED
    BY <2>1, <2>2 DEF IInv, Once
<1>8. ASSUME NEW n \in inbox', ~IsControl(n), RequestOf(n.msg) \notin lost'
      PROVE  WayOpen(RequestOf(n.msg), n)'
  <2>1. CASE n = x
    BY <1>1, <1>2, <1>8, <2>1
  <2>2. CASE n # x
    BY <1>1, <1>8, <2>2, MessageKept
  <2> QED
    BY <2>1, <2>2
<1>9. ASSUME PidsAreDistinct PROVE NothingDropped'
  <2> SUFFICES ASSUME NEW q \in called, q \notin lost' PROVE UnderWay(q)' \/ Answered(q)'
    BY DEF NothingDropped
  <2>1. UnderWay(q) \/ Answered(q)
    BY <1>9 DEF OpenInv, NothingDropped, SocketsKept
  <2>2. Answered(q) => Answered(q)'
    BY DEF Answered
  <2>3. ASSUME UnderWay(q) PROVE UnderWay(q)'
    <3>1. CASE q = r
      <4>1. x \in inbox'
        BY <1>9, <3>1 DEF Pass
      <4> QED
        BY <1>2, <3>1, <4>1 DEF UnderWay
    <3>2. CASE q # r
      BY <1>2, <2>3, <3>2 DEF UnderWay, Pass
    <3> QED
      BY <3>1, <3>2
  <2> QED
    BY <2>1, <2>2, <2>3
<1> QED
  BY <1>5, <1>6, <1>7, <1>8, <1>9 DEF IInv, OpenInv, SocketsKept

LEMMA HeartbeatKept ==
  ASSUME IInv, OpenInv, SocketsKept, UNCHANGED <<called, got>>, NEW x, IsHeartbeat(x),
         inbox' = inbox \cup {x}
  PROVE  IInv' /\ OpenInv'
<1>1. IsControl(x)
  BY HeartbeatIs
<1>2. Routed'
  BY DEF IInv, Routed
<1>3. Delivered'
  BY DEF IInv, Delivered
<1>4. Once'
  BY <1>1 DEF IInv, Once
<1>5. ASSUME NEW m \in inbox', ~IsControl(m), RequestOf(m.msg) \notin lost'
      PROVE  WayOpen(RequestOf(m.msg), m)'
  BY <1>1, <1>5, MessageKept
<1>6. PidsAreDistinct => NothingDropped'
  BY DEF OpenInv, NothingDropped, UnderWay, Answered, SocketsKept
<1> QED
  BY <1>2, <1>3, <1>4, <1>5, <1>6 DEF IInv, OpenInv, SocketsKept

LEMMA CallKept ==
  ASSUME IInv, OpenInv, NEW r \in Requests, Call(r)
  PROVE  IInv' /\ OpenInv'
<1> DEFINE x == [at |-> <<"proxy", Home[Caller[r]]>>,
                 msg |-> <<ClientId(Caller[r]), EMPTY_MSG, Service(Wants[r]), EMPTY_MSG,
                           Data("call", Wants[r], r, r)>>]
<1>1. /\ r \notin called /\ called' = called \cup {r} /\ inbox' = inbox \cup {x}
      /\ got' = got
  BY DEF Call
<1>2. AtProxy(r, x) /\ WayOpen(r, x)'
  <2>1. \A y : y = x => WayOpen(r, y)'
    BY WayNeedsNone
  <2> QED
    BY <2>1 DEF AtProxy
<1> HIDE DEF x
<1>3. OnItsWay(r, x)
  BY <1>2 DEF OnItsWay
<1>4. RequestOf(x.msg) = r /\ ~IsControl(x)
  BY <1>3, OnItsWayIs
<1>5. /\ \A m \in inbox : ~IsControl(m) => RequestOf(m.msg) # r
      /\ \A c \in Clients : \A n \in DOMAIN got[c] : RequestOf(got[c][n]) # r
  BY <1>1, CallsUnderWay
<1>6. Routed'
  BY <1>1, <1>3 DEF IInv, Routed
<1>7. Delivered'
  BY <1>1 DEF IInv, Delivered
<1>8. Once'
  BY <1>1, <1>4, <1>5 DEF IInv, Once
<1>9. SocketsKept
  BY SocketsLeft DEF Call
<1>10. ASSUME NEW m \in inbox', ~IsControl(m), RequestOf(m.msg) \notin lost'
       PROVE  WayOpen(RequestOf(m.msg), m)'
  <2>1. CASE m \in inbox
    BY <1>9, <1>10, <2>1, MessageKept
  <2>2. CASE m = x
    BY <1>2, <1>4, <2>2
  <2> QED
    BY <1>1, <2>1, <2>2
<1>11. PidsAreDistinct => NothingDropped'
  BY <1>1, <1>4, <1>9 DEF OpenInv, NothingDropped, UnderWay, Answered, SocketsKept
<1> QED
  BY <1>1, <1>6, <1>7, <1>8, <1>9, <1>10, <1>11 DEF IInv, OpenInv, SocketsKept

LEMMA ReceiveKept ==
  ASSUME IInv, OpenInv, NEW c \in Clients, Receive(c)
  PROVE  IInv' /\ OpenInv'
<1> PICK m \in At(<<"client", c>>) :
      inbox' = inbox \ {m} /\ got' = [got EXCEPT ![c] = Append(@, m.msg)]
  BY DEF Receive
<1>1. called' = called
  BY DEF Receive
<1>2. m \in inbox /\ m.at = <<"client", c>>
  BY DEF At
<1> PICK r \in called : AtClient(r, m)
  BY <1>2, PlaceTells DEF IInv
<1>3. (PidsAreDistinct => c = Caller[r]) /\ Received(r, m.msg)
  BY <1>2 DEF AtClient
<1>4. RequestOf(m.msg) = r /\ ~IsControl(m)
  BY OnItsWayIs DEF OnItsWay
<1> DEFINE s == got[c]
           t == Append(s, m.msg)
           k == Len(s)
<1>5. /\ IsSeq(t) /\ k \in Nat /\ DOMAIN s = 1..k /\ DOMAIN t = 1..(k + 1)
      /\ \A n \in 1..k : t[n] = s[n]
      /\ t[k + 1] = m.msg
  <2>1. IsSeq(s)
    BY DEF IInv, Delivered
  <2> DEFINE S == {s[n] : n \in DOMAIN s} \cup {m.msg}
  <2>2. s \in Seq(S) /\ m.msg \in S
    BY <2>1, SeqMonotonic DEF IsSeq
  <2> HIDE DEF s, S
  <2>3. t \in Seq(S)
    BY <2>2
  <2>4. IsSeq(t)
    BY <2>3, SeqIsSeq
  <2>5. /\ k \in Nat /\ DOMAIN s = 1..k /\ DOMAIN t = 1..(k + 1)
        /\ \A n \in 1..k : t[n] = s[n]
        /\ t[k + 1] = m.msg
    BY <2>2
  <2> QED
    BY <2>4, <2>5
<1>6. \A d \in Clients : got'[d] = IF d = c THEN t ELSE got[d]
  BY DEF IInv
<1>7. \A d \in Clients : \A n \in DOMAIN got[d] : RequestOf(got[d][n]) # r
  BY <1>2, <1>4 DEF IInv, Once
<1>8. got' = [d \in Clients |-> got'[d]]
  BY DEF IInv
<1> HIDE DEF s, t, k
<1>9. Routed'
  BY <1>1 DEF IInv, Routed
<1>10. Delivered'
  <2> SUFFICES ASSUME NEW d \in Clients
               PROVE  /\ IsSeq(got'[d])
                      /\ \A n \in DOMAIN got'[d] :
                           \E q \in called : /\ PidsAreDistinct => d = Caller[q]
                                             /\ Received(q, got'[d][n])
    BY <1>1 DEF Delivered
  <2>1. CASE d # c
    BY <1>6, <2>1 DEF IInv, Delivered
  <2>2. CASE d = c
    <3>1. ASSUME NEW n \in DOMAIN t
          PROVE  \E q \in called : (PidsAreDistinct => d = Caller[q]) /\ Received(q, t[n])
      <4>1. CASE n = k + 1
        BY <1>3, <1>5, <2>2, <4>1
      <4>2. CASE n \in 1..k
        BY <1>5, <2>2, <4>2 DEF IInv, Delivered, s
      <4> QED
        BY <1>5, <3>1, <4>1, <4>2
    <3> QED
      BY <1>5, <1>6, <2>2, <3>1
  <2> QED
    BY <2>1, <2>2
<1>11. Once'
  <2>1. \A d \in Clients : \A n \in DOMAIN got'[d] :
          \/ d = c /\ n = k + 1 /\ RequestOf(got'[d][n]) = r
          \/ n \in DOMAIN got[d] /\ got'[d][n] = got[d][n] /\ RequestOf(got'[d][n]) # r
    <3> SUFFICES ASSUME NEW d \in Clients, NEW n \in DOMAIN got'[d]
                 PROVE  \/ d = c /\ n = k + 1 /\ RequestOf(got'[d][n]) = r
                        \/ /\ n \in DOMAIN got[d] /\ got'[d][n] = got[d][n]
                           /\ RequestOf(got'[d][n]) # r
      OBVIOUS
    <3>1. CASE d # c
      BY <1>6, <1>7, <3>1
    <3>2. CASE d = c /\ n = k + 1
      <4>1. got'[d][n] = m.msg
        BY <1>5, <1>6, <3>2
      <4> QED
        BY <1>4, <3>2, <4>1
    <3>3. CASE d = c /\ n \in 1..k
      <4>1. got'[d][n] = s[n] /\ s[n] = got[d][n] /\ n \in DOMAIN got[d]
        BY <1>5, <1>6, <3>3 DEF s
      <4>2. got'[d][n] = got[d][n] /\ RequestOf(got[d][n]) # r
        BY <1>7, <4>1
      <4> QED
        BY <4>1, <4>2
    <3>4. ASSUME d = c PROVE n \in 1..k \/ n = k + 1
      <4>1. got'[d] = t /\ DOMAIN t = 1..(k + 1) /\ k \in Nat
        BY <1>5, <1>6, <3>4
      <4>2. n \in 1..(k + 1)
        BY <4>1
      <4> QED
        BY <4>1, <4>2
    <3> QED
      BY <3>1, <3>2, <3>3, <3>4
  <2>2. \A n \in inbox' : n \in inbox /\ (~IsControl(n) => RequestOf(n.msg) # r)
    BY <1>2, <1>4 DEF IInv, Once
  <2>3. \A n, j \in inbox' :
          ~IsControl(n) /\ ~IsControl(j) /\ RequestOf(n.msg) = RequestOf(j.msg) => n = j
    BY <2>2 DEF IInv, Once
  <2>4. \A n \in inbox', d \in Clients : \A j \in DOMAIN got'[d] :
          ~IsControl(n) => RequestOf(n.msg) # RequestOf(got'[d][j])
    BY <2>1, <2>2 DEF IInv, Once
  <2>5. \A d \in Clients : \A n, j \in DOMAIN got'[d] :
          RequestOf(got'[d][n]) = RequestOf(got'[d][j]) => n = j
    <3> SUFFICES ASSUME NEW d \in Clients, NEW n \in DOMAIN got'[d], NEW j \in DOMAIN got'[d],
                        RequestOf(got'[d][n]) = RequestOf(got'[d][j])
                 PROVE  n = j
      OBVIOUS
    <3>1. CASE RequestOf(got'[d][n]) = r
      BY <2>1, <3>1
    <3>2. CASE RequestOf(got'[d][n]) # r
      <4>1. /\ n \in DOMAIN got[d] /\ got'[d][n] = got[d][n]
            /\ j \in DOMAIN got[d] /\ got'[d][j] = got[d][j]
        BY <2>1, <3>2
      <4> QED
        BY <4>1 DEF IInv, Once
    <3> QED
      BY <3>1, <3>2
  <2> QED
    BY <2>3, <2>4, <2>5 DEF Once
<1>12. SocketsKept
  BY SocketsLeft DEF Receive
<1>13. ASSUME NEW n \in inbox', ~IsControl(n), RequestOf(n.msg) \notin lost'
       PROVE  WayOpen(RequestOf(n.msg), n)'
  BY <1>12, <1>13, MessageKept
<1>14. ASSUME PidsAreDistinct PROVE NothingDropped'
  <2> SUFFICES ASSUME NEW q \in called, q \notin lost' PROVE UnderWay(q)' \/ Answered(q)'
    BY <1>1 DEF NothingDropped
  <2>1. UnderWay(q) \/ Answered(q)
    BY <1>12, <1>14 DEF OpenInv, NothingDropped, SocketsKept
  <2>2. ASSUME Answered(q) PROVE Answered(q)'
    <3>1. Caller[q] \in Clients
      BY RpcAssumption DEF IInv
    <3>2. ASSUME Caller[q] = c, NEW n \in 1..k PROVE got'[c][n] = got[c][n] /\ n \in DOMAIN got'[c]
      BY <1>5, <1>6, <3>2 DEF s
    <3>3. DOMAIN got[c] = 1..k
      BY <1>5 DEF s
    <3>4. Caller[q] # c => got'[Caller[q]] = got[Caller[q]]
      BY <1>6, <3>1
    <3> QED
      BY <2>2, <3>2, <3>3, <3>4 DEF Answered
  <2>3. ASSUME UnderWay(q) PROVE UnderWay(q)' \/ Answered(q)'
    <3>1. CASE q = r
      <4>1. k + 1 \in DOMAIN got'[c] /\ got'[c][k + 1] = m.msg
        <5>1. got'[c] = t
          BY <1>6
        <5>2. k + 1 \in DOMAIN t /\ t[k + 1] = m.msg
          BY <1>5
        <5> QED
          BY <5>1, <5>2
      <4> QED
        BY <1>3, <1>4, <1>14, <3>1, <4>1 DEF Answered
    <3>2. CASE q # r
      BY <1>4, <2>3, <3>2 DEF UnderWay
    <3> QED
      BY <3>1, <3>2
  <2> QED
    BY <2>1, <2>2, <2>3
<1> QED
  BY <1>1, <1>8, <1>9, <1>10, <1>11, <1>12, <1>13, <1>14 DEF IInv, OpenInv, SocketsKept

-----------------------------------------------------------------------------
(***************************************************************************)
(* A socket sends to the peer named in front, and takes the name off.      *)
(***************************************************************************)
LEMMA TailSent ==
  ASSUME NEW s, IsSeq(s), NEW n \in Nat, NEW k \in Nat, n = k + 1, Stamps(s, n)
  PROVE  /\ Head(s) = s[1] /\ IsSeq(Tail(s)) /\ \A j \in 1..k : Tail(s)[j] = s[j + 1]
         /\ Stamps(Tail(s), k) /\ Last(Tail(s)) = Last(s)
<1> DEFINE t == Tail(s)
<1>1. Len(s) \in Nat /\ n < Len(s)
  BY SeqLen DEF Stamps
<1>2. PICK i \in Nat : i = 1
  OBVIOUS
<1>3. Head(s) = s[1] /\ t = SubSeq(s, i + 1, Len(s))
  <2>1. Head(s) = s[1] /\ Tail(s) = SubSeq(s, 1 + 1, Len(s))
    BY <1>1, Tailed
  <2> QED
    BY <1>2, <2>1
<1> HIDE DEF t
<1>4. i < Len(s) /\ i <= n
  BY <1>1, <1>2
<1>5. IsSeq(t) /\ \A j \in 1..(Len(s) - i) : t[j] = s[i + j]
  BY <1>3, <1>4, Dropped
<1>6. Stamps(t, n - i) /\ Last(t) = Last(s)
  BY <1>3, <1>4, StampsDropped
<1>7. n - i = k /\ \A j \in 1..k : j \in 1..(Len(s) - i) /\ i + j = j + 1
  BY <1>1, <1>2
<1>8. Stamps(t, k) /\ \A j \in 1..k : t[j] = s[j + 1]
  BY <1>5, <1>6, <1>7
<1> QED
  BY <1>3, <1>5, <1>6, <1>8 DEF t

\* To one client at most, and to the caller if the proxy is its own.
LEMMA SentToClient ==
  ASSUME NEW c \in Clients, NEW p, PidsAreDistinct => p = Home[c],
         NEW msg, Head(msg) = ClientId(c)
  PROVE  \E d \in Clients :
           /\ PidsAreDistinct => d = c
           /\ ToClient(p, msg) \subseteq {[at |-> <<"client", d>>, msg |-> Tail(msg)]}
           /\ p = Home[c] => [at |-> <<"client", d>>, msg |-> Tail(msg)] \in ToClient(p, msg)
<1>1. \A d, e \in Clients : Home[d] = Home[e] /\ ClientId(d) = ClientId(e) => d = e
  BY RpcAssumption DEF ClientId
<1>2. CASE p = Home[c]
  <2>1. ToClient(p, msg) = {[at |-> <<"client", c>>, msg |-> Tail(msg)]}
    BY <1>1, <1>2 DEF ToClient
  <2> QED
    BY <2>1
<1>3. CASE p # Home[c] /\ \E d \in Clients : Home[d] = p /\ ClientId(d) = Head(msg)
  <2> PICK d \in Clients : Home[d] = p /\ ClientId(d) = Head(msg)
    BY <1>3
  <2>1. ToClient(p, msg) \subseteq {[at |-> <<"client", d>>, msg |-> Tail(msg)]}
    BY <1>1 DEF ToClient
  <2> QED
    BY <1>3, <2>1
<1>4. CASE p # Home[c] /\ ~\E d \in Clients : Home[d] = p /\ ClientId(d) = Head(msg)
  <2>1. ToClient(p, msg) = {}
    BY <1>4 DEF ToClient
  <2> QED
    BY <1>4, <2>1
<1> QED
  BY <1>2, <1>3, <1>4

LEMMA ConnectedIs ==
  ASSUME SocketsOK, NEW p \in Proxies, NEW b \in Balancers, NEW id, IsConnected(p, b, id)
  PROVE  /\ IsProxyId(p, id)
         /\ \A q \in Proxies : IsConnected(q, b, id) => q = p
<1> PICK seq \in DOMAIN sockets[p] : Identity(p, seq) = id
  BY DEF IsConnected
<1>1. id = <<"proxy", pid[p], seq>> /\ pid[p] \in Pids[p]
  BY DEF Identity, SocketsOK
<1>2. IsProxyId(p, id)
  BY <1>1 DEF IsProxyId
<1>3. \A q \in Proxies : IsConnected(q, b, id) => q = p
  BY DEF SocketsOK, NamedOnce
<1> QED
  BY <1>2, <1>3

LEMMA IdsTell ==
  ASSUME PidsAreDistinct, NEW p \in Proxies, NEW q \in Proxies, NEW id,
         IsProxyId(p, id), IsProxyId(q, id)
  PROVE  p = q
  BY DEF PidsAreDistinct, IsProxyId

\* To one proxy at most, and to the one that is connected.
LEMMA SentToProxy ==
  ASSUME SocketsOK, NEW p \in Proxies, NEW b \in Balancers, NEW msg, IsProxyId(p, Head(msg))
  PROVE  \E q \in Proxies :
           /\ PidsAreDistinct => q = p
           /\ ToProxy(b, msg) \subseteq {[at |-> <<"dealer", q>>, msg |-> Tail(msg)]}
           /\ IsConnected(p, b, Head(msg)) =>
                [at |-> <<"dealer", q>>, msg |-> Tail(msg)] \in ToProxy(b, msg)
<1> DEFINE id == Head(msg)
<1>1. CASE \E q \in Proxies : IsConnected(q, b, id)
  <2> PICK q \in Proxies : IsConnected(q, b, id)
    BY <1>1
  <2>1. IsProxyId(q, id) /\ \A o \in Proxies : IsConnected(o, b, id) => o = q
    BY ConnectedIs
  <2>2. PidsAreDistinct => q = p
    BY <2>1, IdsTell
  <2>3. ToProxy(b, msg) = {[at |-> <<"dealer", q>>, msg |-> Tail(msg)]}
    BY <2>1 DEF ToProxy
  <2> QED
    BY <2>2, <2>3
<1>2. CASE ~\E q \in Proxies : IsConnected(q, b, id)
  <2>1. ToProxy(b, msg) = {}
    BY <1>2 DEF ToProxy
  <2> QED
    BY <1>2, <2>1
<1> QED
  BY <1>1, <1>2

LEMMA SentToWorker ==
  ASSUME NEW w \in Workers, NEW msg, Head(msg) = WorkerId(w)
  PROVE  ToWorker(Owner[w], msg) = {[at |-> <<"worker", w>>, msg |-> Tail(msg)]}
<1>1. \A v : WorkerId(v) = Head(msg) => v = w
  BY DEF WorkerId
<1> QED
  BY <1>1 DEF ToWorker

LEMMA IdsAreFull ==
  /\ \A c : ClientId(c) # EMPTY_MSG
  /\ \A p, id : IsProxyId(p, id) => id # EMPTY_MSG
  /\ \A w : WorkerId(w) # EMPTY_MSG
<1>1. /\ \A c : Len(ClientId(c)) = 2
      /\ \A w : Len(WorkerId(w)) = 2
  BY DEF ClientId, WorkerId
<1>2. ASSUME NEW p, NEW id, IsProxyId(p, id) PROVE Len(id) = 3
  <2>1. \A x, y : Len(<<"proxy", x, y>>) = 3
    OBVIOUS
  <2> QED
    BY <1>2, <2>1 DEF IsProxyId
<1> QED
  BY <1>1, <1>2, FrameKinds

LEMMA ClientAnswered ==
  ASSUME NEW r \in Requests, NEW p, PidsAreDistinct => p = Home[Caller[r]],
         NEW msg, IsSeq(msg), msg[1] = ClientId(Caller[r]), msg[2] = EMPTY_MSG,
         Stamps(msg, 2), IsAnswer(r, Last(msg))
  PROVE  \E x : /\ OnItsWay(r, x) /\ WayOpen(r, x)' /\ ToClient(p, msg) \subseteq {x}
                /\ p = Home[Caller[r]] => x \in ToClient(p, msg)
<1> DEFINE t == Tail(msg)
<1>1. /\ Head(msg) = msg[1] /\ IsSeq(t) /\ \A j \in 1..1 : t[j] = msg[j + 1]
      /\ Stamps(t, 1) /\ Last(t) = Last(msg)
  BY TailSent, 2 = 1 + 1
<1> HIDE DEF t
<1>2. t[1] = EMPTY_MSG
  BY <1>1
<1>3. Received(r, t)
  BY <1>1, <1>2, BehindIs DEF Received
<1>4. Caller[r] \in Clients
  BY RpcAssumption
<1>5. PICK c \in Clients :
        /\ PidsAreDistinct => c = Caller[r]
        /\ ToClient(p, msg) \subseteq {[at |-> <<"client", c>>, msg |-> t]}
        /\ p = Home[Caller[r]] => [at |-> <<"client", c>>, msg |-> t] \in ToClient(p, msg)
  BY <1>1, <1>4, SentToClient DEF t
<1>6. PICK x : x = [at |-> <<"client", c>>, msg |-> t]
  OBVIOUS
<1>7. OnItsWay(r, x)
  BY <1>3, <1>5, <1>6 DEF OnItsWay, AtClient
<1>8. WayOpen(r, x)'
  BY <1>6, WayNeedsNone
<1> QED
  BY <1>5, <1>6, <1>7, <1>8

LEMMA ProxyAnswered ==
  ASSUME SocketsOK, NEW r \in Requests, NEW b \in Balancers, NEW msg, IsSeq(msg),
         IsProxyId(Home[Caller[r]], msg[1]),
         msg[2] = EMPTY_MSG, msg[3] = ClientId(Caller[r]), msg[4] = EMPTY_MSG,
         Stamps(msg, 4), IsAnswer(r, Last(msg))
  PROVE  \E x : /\ OnItsWay(r, x) /\ WayOpen(r, x)' /\ ToProxy(b, msg) \subseteq {x}
                /\ IsConnected(Home[Caller[r]], b, msg[1]) => x \in ToProxy(b, msg)
<1> DEFINE t == Tail(msg)
<1>1. /\ Head(msg) = msg[1] /\ IsSeq(t) /\ \A j \in 1..3 : t[j] = msg[j + 1]
      /\ Stamps(t, 3) /\ Last(t) = Last(msg)
  BY TailSent, 4 = 3 + 1
<1> HIDE DEF t
<1>2. /\ t[1] = EMPTY_MSG /\ t[2] = ClientId(Caller[r])
      /\ t[3] = EMPTY_MSG
  BY <1>1
<1>3. Behind(<<EMPTY_MSG, ClientId(Caller[r]), EMPTY_MSG>>, t)
  BY <1>1, <1>2, BehindIs
<1>4. Home[Caller[r]] \in Proxies
  BY RpcAssumption
<1>5. PICK q \in Proxies :
        /\ PidsAreDistinct => q = Home[Caller[r]]
        /\ ToProxy(b, msg) \subseteq {[at |-> <<"dealer", q>>, msg |-> t]}
        /\ IsConnected(Home[Caller[r]], b, msg[1]) =>
             [at |-> <<"dealer", q>>, msg |-> t] \in ToProxy(b, msg)
  BY <1>1, <1>4, SentToProxy DEF t
<1>6. PICK x : x = [at |-> <<"dealer", q>>, msg |-> t]
  OBVIOUS
<1>7. OnItsWay(r, x)
  BY <1>1, <1>3, <1>5, <1>6 DEF OnItsWay, AtDealer
<1>8. WayOpen(r, x)'
  BY <1>6, WayNeedsNone
<1> QED
  BY <1>5, <1>6, <1>7, <1>8

-----------------------------------------------------------------------------
(***************************************************************************)
(* The steps of the balancer, of a worker and of the proxy, each with one  *)
(* message.                                                                *)
(***************************************************************************)
LEMMA LbFromFrontendKept ==
  ASSUME IInv, OpenInv, NEW b \in Balancers, LbFromFrontend(b)
  PROVE  IInv' /\ OpenInv'
<1> PICK m \in At(<<"frontend", b>>) :
      LET msgs == TrimLeftEmptyMsg(m.msg)
          errMsg == GetWorkerNotFoundData("account", 0, RequestOf(msgs))
      IN \/ \E w \in Workers :
              /\ Owner[w] = b
              /\ Pass(m, ToWorker(b, <<WorkerId(w), EMPTY_MSG>> \o msgs))
         \/ Pass(m, ToProxy(b, InPlaceOfData(msgs, errMsg)))
  BY DEF LbFromFrontend
<1>1. /\ m \in inbox /\ m.at = <<"frontend", b>> /\ UNCHANGED <<called, got>>
      /\ SocketsKept /\ lost' = lost
  BY SocketsLeft DEF At, LbFromFrontend
<1> PICK r \in called : AtFrontend(r, m)
  BY <1>1, PlaceTells DEF IInv
<1> DEFINE s == m.msg
           id == s[1]
<1>2. OnItsWay(r, m) /\ (r \notin lost => IsConnected(Home[Caller[r]], b, id))
  <2>1. OnItsWay(r, m)
    BY DEF OnItsWay
  <2>2. r \notin lost => WayOpen(r, m)
    BY <1>1, <2>1, OnItsWayIs DEF OpenInv
  <2> QED
    BY <1>1, <2>1, <2>2 DEF WayOpen
<1>3. /\ IsSeq(s) /\ s[2] = EMPTY_MSG /\ s[3] = ClientId(Caller[r]) /\ s[4] = EMPTY_MSG
      /\ Stamps(s, 4) /\ IsProxyId(Home[Caller[r]], id) /\ IsCall(r, Last(s))
      /\ Serves[b] = Wants[r]
  <2>1. Serves[b] = Wants[r]
    BY <1>1 DEF AtFrontend
  <2>2. Behind(<<id, EMPTY_MSG, ClientId(Caller[r]), EMPTY_MSG>>, s)
    BY DEF AtFrontend
  <2> QED
    BY <2>1, <2>2, BehindIs DEF AtFrontend
<1>4. Len(s) \in Nat /\ Len(s) > 4
  BY <1>3, SeqLen DEF Stamps
<1>5. TrimLeftEmptyMsg(s) = s /\ RequestOf(s) = r
  <2>1. s[1] # EMPTY_MSG
    BY <1>3, IdsAreFull
  <2> QED
    BY <1>2, <1>3, <1>4, <2>1, Trimmed, OnItsWayIs
<1> DEFINE err == GetWorkerNotFoundData("account", 0, r)
<1>6. \/ \E w \in Workers : Owner[w] = b /\ Pass(m, ToWorker(b, <<WorkerId(w), EMPTY_MSG>> \o s))
      \/ Pass(m, ToProxy(b, InPlaceOfData(s, err)))
  BY <1>5
<1> HIDE DEF s, id, err
<1>7. ASSUME NEW w \in Workers, Owner[w] = b, Pass(m, ToWorker(b, <<WorkerId(w), EMPTY_MSG>> \o s))
      PROVE  IInv' /\ OpenInv'
  <2> DEFINE t == <<WorkerId(w), EMPTY_MSG>>
             u == t \o s
  <2>1. IsSeq(t) /\ Len(t) = 2 /\ t[1] = WorkerId(w) /\ t[2] = EMPTY_MSG
    BY Tuples
  <2> HIDE DEF t
  <2>2. /\ IsSeq(u) /\ u[1] = t[1] /\ u[2] = t[2]
        /\ u[3] = s[1] /\ u[4] = s[2] /\ u[5] = s[3] /\ u[6] = s[4]
    <3>1. /\ IsSeq(u) /\ \A n \in 1..Len(t) : u[n] = t[n]
          /\ \A n \in 1..Len(s) : u[Len(t) + n] = s[n]
      <4>1. u = t \o s /\ IsSeq(t) /\ IsSeq(s)
        BY <1>3, <2>1
      <4> HIDE DEF u
      <4> QED
        BY <4>1, Pushed
    <3> HIDE DEF u
    <3>2. u[2 + 1] = s[1] /\ u[2 + 2] = s[2] /\ u[2 + 3] = s[3] /\ u[2 + 4] = s[4]
      BY <1>4, <2>1, <3>1
    <3> QED
      BY <2>1, <3>1, <3>2
  <2>3. Stamps(u, 6) /\ Last(u) = Last(s)
    <3>1. Stamps(u, Len(t) + 4) /\ Last(u) = Last(s)
      BY <1>3, <2>1, StampsPushed
    <3> HIDE DEF u
    <3> QED
      BY <2>1, <3>1
  <2>4. Pass(m, ToWorker(b, u))
    BY <1>7 DEF t
  <2> HIDE DEF u
  <2> DEFINE v == Tail(u)
  <2>5. /\ Head(u) = u[1] /\ IsSeq(v) /\ \A j \in 1..5 : v[j] = u[j + 1]
        /\ Stamps(v, 5) /\ Last(v) = Last(u)
    BY <2>2, <2>3, TailSent, 6 = 5 + 1
  <2> HIDE DEF v
  <2>6. /\ v[1] = EMPTY_MSG /\ v[2] = id /\ v[3] = EMPTY_MSG
        /\ v[4] = ClientId(Caller[r]) /\ v[5] = EMPTY_MSG
    BY <1>3, <2>1, <2>2, <2>5 DEF id
  <2>7. Behind(<<EMPTY_MSG, v[2], EMPTY_MSG, ClientId(Caller[r]), EMPTY_MSG>>, v)
    BY <2>5, <2>6, BehindIs
  <2>8. PICK x : x = [at |-> <<"worker", w>>, msg |-> v]
    OBVIOUS
  <2>9. OnItsWay(r, x)
    <3>1. AtWorker(r, x)
      BY <1>3, <1>7, <2>3, <2>5, <2>6, <2>7, <2>8 DEF AtWorker
    <3> QED
      BY <3>1 DEF OnItsWay
  <2>10. ToWorker(b, u) = {x}
    BY <1>7, <2>1, <2>2, <2>5, <2>8, SentToWorker DEF v
  <2>11. r \in Requests
    BY DEF IInv
  <2>12. ASSUME r \notin lost' PROVE WayOpen(r, x)'
    <3>1. IsConnected(Home[Caller[r]], b, id)
      BY <1>1, <1>2, <2>12
    <3>2. WayOpen(r, x)
      BY <1>7, <2>6, <2>8, <3>1 DEF WayOpen
    <3> QED
      BY <1>1, <2>11, <3>2, WayKept
  <2> QED
    BY <1>1, <1>2, <2>4, <2>9, <2>10, <2>12, PassKept
<1>8. ASSUME Pass(m, ToProxy(b, InPlaceOfData(s, err)))
      PROVE  IInv' /\ OpenInv'
  <2> DEFINE u == InPlaceOfData(s, err)
  <2>1. IsAnswer(r, err) /\ err # EMPTY_MSG /\ Last(s) # EMPTY_MSG
    <3>1. IsAnswer(r, err)
      BY AnswersMade DEF err
    <3> QED
      BY <1>3, <3>1, CallData, AnswerData
  <2>2. /\ IsSeq(u) /\ \A k \in 1..(Len(s) - 1) : u[k] = s[k]
        /\ Stamps(u, 4) /\ Last(u) = err
    BY <1>3, <2>1, DataReplaced
  <2> HIDE DEF u
  <2>3. u[1] = id /\ u[2] = s[2] /\ u[3] = s[3] /\ u[4] = s[4]
    BY <1>4, <2>2 DEF id
  <2>4. PICK x : /\ OnItsWay(r, x) /\ WayOpen(r, x)' /\ ToProxy(b, u) \subseteq {x}
                 /\ IsConnected(Home[Caller[r]], b, u[1]) => x \in ToProxy(b, u)
    <3>1. r \in Requests /\ SocketsOK
      BY DEF IInv, OpenInv
    <3> QED
      BY <1>3, <2>1, <2>2, <2>3, <3>1, ProxyAnswered
  <2>5. Pass(m, ToProxy(b, u))
    BY <1>8 DEF u
  <2> QED
    BY <1>1, <1>2, <2>3, <2>4, <2>5, PassKept
<1> QED
  BY <1>6, <1>7, <1>8

LEMMA LbFromBackendKept ==
  ASSUME IInv, OpenInv, NEW b \in Balancers, NEW m \in At(<<"backend", b>>), LbFromBackend(b, m)
  PROVE  IInv' /\ OpenInv'
<1> DEFINE s == m.msg
           u == Unwrap(s).tails
<1>1. /\ m \in inbox /\ m.at = <<"backend", b>> /\ UNCHANGED <<called, got>>
      /\ SocketsKept /\ lost' = lost
  BY SocketsLeft DEF At, LbFromBackend
<1>2. Pass(m, IF Len(u) = 1 THEN {} ELSE ToProxy(b, u))
  BY DEF LbFromBackend
<1>3. PICK i \in Nat : i = 2
  OBVIOUS
<1>4. CASE IsHeartbeat(m)
  <2>1. IsSeq(s) /\ Len(s) = 3 /\ s[2] = EMPTY_MSG
    BY <1>4, HeartbeatIs
  <2>2. u = SubSeq(s, 2 + 1, Len(s))
    BY <2>1, Unwrapped
  <2>3. u = SubSeq(s, i + 1, Len(s)) /\ i < Len(s)
    BY <1>3, <2>1, <2>2
  <2> HIDE DEF s, u
  <2>4. Len(u) = Len(s) - i
    BY <2>1, <2>3, Dropped
  <2>5. Len(u) = 1
    BY <1>3, <2>1, <2>4
  <2>6. inbox' = inbox \ {m} /\ IsControl(m)
    BY <1>2, <1>4, <2>5, HeartbeatIs DEF Pass
  <2> QED
    BY <1>1, <2>6, FewerKept, FewerOpen
<1>5. CASE ~IsHeartbeat(m)
  <2> PICK r \in called : AtBackend(r, m)
    BY <1>1, <1>5, PlaceTells DEF IInv
  <2>1. OnItsWay(r, m) /\ (r \notin lost => IsConnected(Home[Caller[r]], b, s[3]))
    <3>1. OnItsWay(r, m)
      BY DEF OnItsWay
    <3>2. r \notin lost => WayOpen(r, m)
      BY <1>1, <3>1, OnItsWayIs DEF OpenInv
    <3>3. \E w \in Workers : b = Owner[w] /\ m.at = <<"backend", Owner[w]>>
      BY <1>1 DEF AtBackend
    <3> QED
      BY <3>1, <3>2, <3>3 DEF WayOpen
  <2>2. /\ IsSeq(s) /\ s[2] = EMPTY_MSG /\ s[4] = EMPTY_MSG
        /\ s[5] = ClientId(Caller[r]) /\ s[6] = EMPTY_MSG /\ Stamps(s, 6)
        /\ IsProxyId(Home[Caller[r]], s[3]) /\ IsAnswer(r, Last(s))
    <3>1. Behind(<<s[1], EMPTY_MSG, s[3], EMPTY_MSG, ClientId(Caller[r]), EMPTY_MSG>>, s)
      BY DEF AtBackend
    <3> QED
      BY <3>1, BehindIs DEF AtBackend
  <2>3. Len(s) \in Nat /\ Len(s) > 6
    BY <2>2, SeqLen DEF Stamps
  <2>4. u = SubSeq(s, 2 + 1, Len(s))
    BY <2>2, <2>3, Unwrapped
  <2>5. u = SubSeq(s, i + 1, Len(s)) /\ i < Len(s) /\ i <= 6
    BY <1>3, <2>3, <2>4
  <2> HIDE DEF s, u
  <2>6. /\ IsSeq(u) /\ \A j \in 1..(Len(s) - i) : u[j] = s[i + j]
        /\ Stamps(u, 6 - i) /\ Last(u) = Last(s)
    BY <2>2, <2>5, Dropped, StampsDropped
  <2>7. /\ Stamps(u, 4)
        /\ u[1] = s[3] /\ u[2] = s[4] /\ u[3] = s[5] /\ u[4] = s[6]
    <3>1. 6 - i = 4 /\ \A j \in 1..4 : j \in 1..(Len(s) - i)
      BY <1>3, <2>3
    <3>2. \A j \in 1..4 : u[j] = s[i + j]
      BY <2>6, <3>1
    <3>3. i + 1 = 3 /\ i + 2 = 4 /\ i + 3 = 5 /\ i + 4 = 6
      BY <1>3
    <3> QED
      BY <2>6, <3>1, <3>2, <3>3
  <2>8. PICK x : /\ OnItsWay(r, x) /\ WayOpen(r, x)' /\ ToProxy(b, u) \subseteq {x}
                 /\ IsConnected(Home[Caller[r]], b, u[1]) => x \in ToProxy(b, u)
    <3>1. r \in Requests /\ SocketsOK
      BY DEF IInv, OpenInv
    <3> QED
      BY <2>2, <2>6, <2>7, <3>1, ProxyAnswered
  <2>9. Pass(m, ToProxy(b, u))
    <3>1. Len(u) # 1
      BY <2>6, <2>7, SeqLen DEF Stamps
    <3> QED
      BY <1>2, <3>1
  <2> QED
    BY <1>1, <2>1, <2>7, <2>8, <2>9, PassKept
<1> QED
  BY <1>4, <1>5

LEMMA FromBackendKept ==
  ASSUME IInv, OpenInv, NEW p, FromBackend(p)
  PROVE  IInv' /\ OpenInv'
<1> PICK m \in At(<<"dealer", p>>) :
      LET msgs == TrimLeftEmptyMsg(m.msg)
      IN Pass(m, IF Len(msgs) = 1 THEN {} ELSE ToClient(p, Stamped(p, msgs)))
  BY DEF FromBackend
<1> DEFINE s == m.msg
           t == TrimLeftEmptyMsg(s)
           u == Stamped(p, t)
<1>1. m \in inbox /\ m.at = <<"dealer", p>> /\ UNCHANGED <<called, got>> /\ SocketsKept
  BY SocketsLeft DEF At, FromBackend
<1>2. Pass(m, IF Len(t) = 1 THEN {} ELSE ToClient(p, u))
  OBVIOUS
<1> PICK r \in called : AtDealer(r, m)
  BY <1>1, PlaceTells DEF IInv
<1>3. OnItsWay(r, m) /\ (PidsAreDistinct => p = Home[Caller[r]]) /\ r \in Requests
  BY <1>1 DEF OnItsWay, AtDealer, IInv
<1>4. /\ IsSeq(s) /\ s[1] = EMPTY_MSG /\ s[2] = ClientId(Caller[r]) /\ s[3] = EMPTY_MSG
      /\ Stamps(s, 3) /\ IsAnswer(r, Last(s))
  BY BehindIs DEF AtDealer
<1>5. Len(s) \in Nat /\ Len(s) > 3
  BY <1>4, SeqLen DEF Stamps
<1>6. PICK i \in Nat : i = 1
  OBVIOUS
<1>7. t = SubSeq(s, i + 1, Len(s)) /\ i < Len(s) /\ i <= 3
  <2>1. t = SubSeq(s, 1 + 1, Len(s))
    BY <1>4, <1>5, Trimmed, IdsAreFull
  <2> QED
    BY <1>5, <1>6, <2>1
<1> HIDE DEF s, t
<1>8. /\ IsSeq(t) /\ \A j \in 1..(Len(s) - i) : t[j] = s[i + j]
      /\ Stamps(t, 3 - i) /\ Last(t) = Last(s)
  BY <1>4, <1>7, Dropped, StampsDropped
<1>9. Stamps(t, 2) /\ t[1] = s[2] /\ t[2] = s[3]
  <2>1. 3 - i = 2 /\ \A j \in 1..2 : j \in 1..(Len(s) - i)
    BY <1>5, <1>6
  <2>2. \A j \in 1..2 : t[j] = s[i + j]
    BY <1>8, <2>1
  <2>3. i + 1 = 2 /\ i + 2 = 3
    BY <1>6
  <2> QED
    BY <1>8, <2>1, <2>2, <2>3
<1>10. /\ IsSeq(u) /\ \A j \in 1..2 : u[j] = t[j]
       /\ Stamps(u, 2) /\ Last(u) = Last(t)
  BY <1>4, <1>8, <1>9, AnswerData, StampAdded
<1> HIDE DEF u
<1>11. u[1] = ClientId(Caller[r]) /\ u[2] = EMPTY_MSG /\ IsAnswer(r, Last(u))
  BY <1>4, <1>8, <1>9, <1>10
<1>12. PICK x : /\ OnItsWay(r, x) /\ WayOpen(r, x)' /\ ToClient(p, u) \subseteq {x}
                /\ p = Home[Caller[r]] => x \in ToClient(p, u)
  BY <1>3, <1>10, <1>11, ClientAnswered
<1>13. Pass(m, ToClient(p, u))
  <2>1. Len(t) # 1
    BY <1>8, <1>9, SeqLen DEF Stamps
  <2> QED
    BY <1>2, <2>1
<1> QED
  BY <1>1, <1>3, <1>12, <1>13, PassKept

LEMMA AnswerKept ==
  ASSUME IInv, OpenInv, NEW w \in Workers, Answer(w)
  PROVE  IInv' /\ OpenInv'
<1> PICK m \in At(<<"worker", w>>) :
      Pass(m, {[at |-> <<"backend", Owner[w]>>,
                msg |-> <<WorkerId(w)>> \o Front(m.msg)
                          \o <<Data("reply", Serves[Owner[w]],
                                    ParseThriftMsgBegin(Last(m.msg)).seqId,
                                    RequestOf(m.msg))>>]})
  BY DEF Answer
<1>1. /\ m \in inbox /\ m.at = <<"worker", w>> /\ UNCHANGED <<called, got>>
      /\ SocketsKept /\ lost' = lost
  BY SocketsLeft DEF At, Answer
<1> PICK r \in called : AtWorker(r, m)
  BY <1>1, PlaceTells DEF IInv
<1> DEFINE s == m.msg
           id == s[2]
           data == Data("reply", Wants[r], r, r)
           t == <<WorkerId(w)>>
           v == InPlaceOfData(s, data)
           u == t \o v
<1>2. OnItsWay(r, m) /\ (r \notin lost => IsConnected(Home[Caller[r]], Owner[w], id))
  <2>1. OnItsWay(r, m)
    BY DEF OnItsWay
  <2>2. r \notin lost => WayOpen(r, m)
    BY <1>1, <2>1, OnItsWayIs DEF OpenInv
  <2> QED
    BY <1>1, <2>1, <2>2 DEF WayOpen
<1>3. /\ IsSeq(s) /\ s[1] = EMPTY_MSG /\ s[3] = EMPTY_MSG /\ s[4] = ClientId(Caller[r])
      /\ s[5] = EMPTY_MSG /\ Stamps(s, 5) /\ IsCall(r, Last(s))
      /\ IsProxyId(Home[Caller[r]], id) /\ Serves[Owner[w]] = Wants[r]
  <2>1. Serves[Owner[w]] = Wants[r]
    BY <1>1 DEF AtWorker
  <2>2. Behind(<<EMPTY_MSG, id, EMPTY_MSG, ClientId(Caller[r]), EMPTY_MSG>>, s)
    BY DEF AtWorker
  <2> QED
    BY <2>1, <2>2, BehindIs DEF AtWorker
<1>4. Len(s) \in Nat /\ Len(s) > 5
  BY <1>3, SeqLen DEF Stamps
<1>5. ParseThriftMsgBegin(Last(s)).seqId = r /\ RequestOf(s) = r
  BY <1>2, <1>3, CallData, OnItsWayIs DEF ParseThriftMsgBegin
<1>6. IsAnswer(r, data) /\ data # EMPTY_MSG /\ Last(s) # EMPTY_MSG
  <2>1. IsAnswer(r, data)
    BY AnswersMade
  <2> HIDE DEF data
  <2> QED
    BY <1>3, <2>1, CallData, AnswerData
<1>7. Pass(m, {[at |-> <<"backend", Owner[w]>>, msg |-> t \o Front(s) \o <<data>>]})
  BY <1>3, <1>5
<1> HIDE DEF s, data
<1>8. IsSeq(t) /\ Len(t) = 1 /\ t[1] = WorkerId(w)
  BY Tuples
<1> HIDE DEF t
<1>9. t \o Front(s) \o <<data>> = u
  <2> DEFINE f == Front(s)
             d == <<data>>
  <2>1. IsSeq(f) /\ IsSeq(d)
    BY <1>3, <1>4, Fronted, Tuples
  <2>2. v = f \o d
    BY DEF InPlaceOfData
  <2> HIDE DEF f, d, v
  <2> DEFINE S == {t[n] : n \in DOMAIN t} \cup {f[n] : n \in DOMAIN f} \cup {d[n] : n \in DOMAIN d}
  <2>3. t \in Seq(S) /\ f \in Seq(S) /\ d \in Seq(S)
    BY <1>8, <2>1, SeqMonotonic DEF IsSeq
  <2> HIDE DEF S
  <2>4. (t \o f) \o d = t \o (f \o d)
    BY <2>3, ConcatAssociative
  <2> QED
    BY <2>2, <2>4 DEF f, d
<1>10. /\ IsSeq(v) /\ Len(v) = Len(s) /\ \A n \in 1..(Len(s) - 1) : v[n] = s[n]
       /\ Stamps(v, 5) /\ Last(v) = data
  BY <1>3, <1>6, DataReplaced
<1> HIDE DEF v
<1>11. /\ IsSeq(u) /\ u[1] = t[1] /\ \A n \in 1..Len(v) : u[1 + n] = v[n]
  <2>1. u = t \o v /\ IsSeq(t) /\ IsSeq(v)
    BY <1>8, <1>10
  <2> HIDE DEF u
  <2>2. /\ IsSeq(u) /\ \A n \in 1..Len(t) : u[n] = t[n]
        /\ \A n \in 1..Len(v) : u[Len(t) + n] = v[n]
    BY <2>1, Pushed
  <2> QED
    BY <1>8, <2>2
<1>12. Stamps(u, 6) /\ Last(u) = data
  <2>1. Stamps(u, Len(t) + 5) /\ Last(u) = Last(v)
    BY <1>8, <1>10, StampsPushed
  <2> HIDE DEF u
  <2> QED
    BY <1>8, <1>10, <2>1
<1> HIDE DEF u
<1>13. u[2] = s[1] /\ u[3] = s[2] /\ u[4] = s[3] /\ u[5] = s[4] /\ u[6] = s[5]
  <2>1. /\ u[1 + 1] = v[1] /\ u[1 + 2] = v[2] /\ u[1 + 3] = v[3] /\ u[1 + 4] = v[4]
        /\ u[1 + 5] = v[5]
    BY <1>4, <1>10, <1>11
  <2> QED
    BY <1>4, <1>10, <2>1
<1>14. Behind(<<u[1], EMPTY_MSG, u[3], EMPTY_MSG, ClientId(Caller[r]), EMPTY_MSG>>, u)
  BY <1>3, <1>11, <1>12, <1>13, BehindIs
<1>15. PICK x : x = [at |-> <<"backend", Owner[w]>>, msg |-> u]
  OBVIOUS
<1>16. OnItsWay(r, x)
  <2>1. AtBackend(r, x)
    BY <1>3, <1>6, <1>12, <1>13, <1>14, <1>15 DEF AtBackend, id
  <2> QED
    BY <2>1 DEF OnItsWay
<1>17. Pass(m, {x})
  BY <1>7, <1>9, <1>15
<1>18. ASSUME r \notin lost' PROVE WayOpen(r, x)'
  <2>1. IsConnected(Home[Caller[r]], Owner[w], u[3]) /\ r \in Requests
    BY <1>1, <1>2, <1>13, <1>18 DEF id, IInv
  <2>2. \A v1 \in Workers : x.at = <<"backend", Owner[v1]>> => Owner[v1] = Owner[w]
    BY <1>15
  <2>3. WayOpen(r, x)
    BY <1>15, <2>1, <2>2 DEF WayOpen
  <2> QED
    BY <1>1, <2>1, <2>3, WayKept
<1> QED
  BY <1>1, <1>2, <1>16, <1>17, <1>18, PassKept

\* The data of a call, with or without a time stamp: an error takes its place.
LEMMA ErrorKept ==
  ASSUME IInv, OpenInv, SocketsKept, UNCHANGED <<called, got>>,
         NEW m \in inbox, NEW r \in called, OnItsWay(r, m),
         NEW s, IsSeq(s), Stamps(s, 0), IsCall(r, Last(s)), NEW err, IsAnswer(r, err),
         Pass(m, ToClient(Home[Caller[r]],
                          <<ClientId(Caller[r]), EMPTY_MSG>> \o InPlaceOfData(s, err)))
  PROVE  IInv' /\ OpenInv'
<1> DEFINE t == <<ClientId(Caller[r]), EMPTY_MSG>>
           v == InPlaceOfData(s, err)
           u == t \o v
<1>1. Last(s) # EMPTY_MSG /\ err # EMPTY_MSG
  BY CallData, AnswerData
<1>2. IsSeq(v) /\ Stamps(v, 0) /\ Last(v) = err
  BY <1>1, DataReplaced
<1>3. IsSeq(t) /\ Len(t) = 2 /\ t[1] = ClientId(Caller[r]) /\ t[2] = EMPTY_MSG
  BY Tuples
<1>4. Pass(m, ToClient(Home[Caller[r]], u))
  OBVIOUS
<1> HIDE DEF t, v
<1>5. /\ IsSeq(u) /\ \A n \in 1..Len(t) : u[n] = t[n]
      /\ Stamps(u, Len(t) + 0) /\ Last(u) = err
  <2>1. u = t \o v /\ IsSeq(t) /\ IsSeq(v) /\ Stamps(v, 0) /\ Last(v) = err
    BY <1>2, <1>3
  <2> HIDE DEF u
  <2> QED
    BY <2>1, Pushed, StampsPushed
<1> HIDE DEF u
<1>6. u[1] = ClientId(Caller[r]) /\ u[2] = EMPTY_MSG /\ Stamps(u, 2)
  BY <1>3, <1>5
<1>7. r \in Requests
  BY DEF IInv
<1>8. PICK x : /\ OnItsWay(r, x) /\ WayOpen(r, x)' /\ ToClient(Home[Caller[r]], u) \subseteq {x}
               /\ x \in ToClient(Home[Caller[r]], u)
  BY <1>5, <1>6, <1>7, ClientAnswered
<1> QED
  BY <1>4, <1>8, PassKept

\* The name is that of a socket connected to the balancer, the one in use or
\* the one made now, unless another has it.
LEMMA SocketsMade ==
  ASSUME OpenInv, NEW p \in Proxies, NEW b \in Balancers, NEW m, NEW parts, pid' = pid,
         SendMessage(p, b, m, parts)
  PROVE  LET seq == IF current[p][b] = 0 THEN Len(sockets[p]) + 1 ELSE current[p][b]
         IN /\ SocketsKept
            /\ <<p, seq>> \notin refused' =>
                 \A id : id = Identity(p, seq) => IsConnected(p, b, id)'
<1> DEFINE seq == IF current[p][b] = 0 THEN Len(sockets[p]) + 1 ELSE current[p][b]
           made == IF current[p][b] = 0 THEN Append(sockets[p], b) ELSE sockets[p]
           taken == /\ current[p][b] = 0
                    /\ \E q \in Proxies : IsConnected(q, b, Identity(p, seq))
<1>1. /\ sockets' = [sockets EXCEPT ![p] = made]
      /\ current' = [current EXCEPT ![p][b] = seq] /\ lost' = lost
      /\ refused' = IF taken THEN refused \cup {<<p, seq>>} ELSE refused
  BY DEF SendMessage
<1>2. /\ sockets \in [Proxies -> Seq(Balancers)]
      /\ current \in [Proxies -> [Balancers -> Nat]]
      /\ pid = [q \in Proxies |-> pid[q]] /\ \A q \in Proxies : pid[q] \in Pids[q]
      /\ \A q \in Proxies, c \in Balancers : current[q][c] # 0 =>
           current[q][c] \in DOMAIN sockets[q] /\ sockets[q][current[q][c]] = c
      /\ NamedOnce /\ (PidsAreDistinct => refused = {}) /\ SocketsOK
  BY DEF OpenInv, SocketsOK
<1>3. /\ made \in Seq(Balancers) /\ seq \in Nat /\ seq \in DOMAIN made /\ made[seq] = b
      /\ \A n \in DOMAIN sockets[p] : n \in DOMAIN made /\ made[n] = sockets[p][n]
      /\ \A n \in DOMAIN made : n \notin DOMAIN sockets[p] => current[p][b] = 0 /\ n = seq
      /\ current[p][b] = 0 => seq \notin DOMAIN sockets[p]
  <2>1. sockets[p] \in Seq(Balancers) /\ current[p][b] \in Nat
    BY <1>2
  <2>2. CASE current[p][b] = 0
    BY <2>1, <2>2
  <2>3. CASE current[p][b] # 0
    BY <1>2, <2>1, <2>3
  <2> QED
    BY <2>2, <2>3
<1>4. taken => current[p][b] = 0 /\ \E q \in Proxies : IsConnected(q, b, Identity(p, seq))
  OBVIOUS
<1>5. current[p][b] = 0 /\ ~taken => \A q \in Proxies : ~IsConnected(q, b, Identity(p, seq))
  OBVIOUS
<1> HIDE DEF seq, made, taken
<1>6. /\ sockets' \in [Proxies -> Seq(Balancers)]
      /\ \A q \in Proxies : sockets'[q] = IF q = p THEN made ELSE sockets[q]
  BY <1>1, <1>2, <1>3
<1>7. /\ current' \in [Proxies -> [Balancers -> Nat]]
      /\ \A q \in Proxies, c \in Balancers :
           current'[q][c] = IF q = p /\ c = b THEN seq ELSE current[q][c]
  BY <1>1, <1>2, <1>3
<1>8. /\ \A q, n : Identity(q, n)' = Identity(q, n)
      /\ \A q, n, k : Identity(q, n) = Identity(q, k) => n = k
  BY DEF Identity
<1>9. /\ refused \subseteq refused'
      /\ \A q \in Proxies : \A n \in DOMAIN sockets[q] :
           <<q, n>> \in refused' => <<q, n>> \in refused
  <2>1. taken => \A q, n : <<q, n>> = <<p, seq>> => n \notin DOMAIN sockets[q]
    BY <1>3, <1>4
  <2> QED
    BY <1>1, <2>1
<1>10. ASSUME NEW q \in Proxies, NEW c, NEW id, IsConnected(q, c, id)
       PROVE  IsConnected(q, c, id)'
  <2> PICK n \in DOMAIN sockets[q] :
        sockets[q][n] = c /\ Identity(q, n) = id /\ <<q, n>> \notin refused
    BY <1>10 DEF IsConnected
  <2>1. n \in DOMAIN sockets'[q] /\ sockets'[q][n] = c
    BY <1>3, <1>6
  <2> QED
    BY <1>8, <1>9, <2>1 DEF IsConnected
<1>11. ASSUME <<p, seq>> \notin refused', NEW id, id = Identity(p, seq)
       PROVE  IsConnected(p, b, id)'
  BY <1>3, <1>6, <1>8, <1>11 DEF IsConnected
\* A connection that is new is that of the socket made now, and then no other
\* has its name.
<1>12. ASSUME NEW q \in Proxies, NEW c, NEW id, IsConnected(q, c, id)'
       PROVE  \/ IsConnected(q, c, id)
              \/ /\ q = p /\ c = b /\ id = Identity(p, seq)
                 /\ \A o \in Proxies : ~IsConnected(o, b, id)
  <2> PICK n \in DOMAIN sockets'[q] :
        sockets'[q][n] = c /\ Identity(q, n) = id /\ <<q, n>> \notin refused'
    BY <1>8, <1>12 DEF IsConnected
  <2>1. CASE n \in DOMAIN sockets[q]
    <3>1. sockets[q][n] = c /\ <<q, n>> \notin refused
      BY <1>3, <1>6, <1>9, <2>1
    <3> QED
      BY <2>1, <3>1 DEF IsConnected
  <2>2. CASE n \notin DOMAIN sockets[q]
    <3>1. q = p /\ n = seq /\ current[p][b] = 0 /\ c = b
      BY <1>3, <1>6, <2>2
    <3>2. ~taken
      BY <1>1, <3>1
    <3> QED
      BY <1>5, <3>1, <3>2
  <2> QED
    BY <2>1, <2>2
<1>13. NamedOnce'
  <2> SUFFICES ASSUME NEW q \in Proxies, NEW o \in Proxies, NEW c \in Balancers, NEW id,
                      IsConnected(q, c, id)', IsConnected(o, c, id)'
               PROVE  q = o
    BY DEF NamedOnce
  <2>1. IsConnected(q, c, id) /\ IsConnected(o, c, id) => q = o
    BY <1>2, ConnectedIs
  <2>2. \/ IsConnected(q, c, id)
        \/ q = p /\ c = b /\ \A k \in Proxies : ~IsConnected(k, b, id)
    BY <1>12
  <2>3. \/ IsConnected(o, c, id)
        \/ o = p /\ c = b /\ \A k \in Proxies : ~IsConnected(k, b, id)
    BY <1>12
  <2> QED
    BY <2>1, <2>2, <2>3
<1>14. ASSUME PidsAreDistinct PROVE refused' = {}
  <2>1. ASSUME taken PROVE FALSE
    <3> PICK q \in Proxies : IsConnected(q, b, Identity(p, seq))
      BY <1>4, <2>1
    <3>1. IsProxyId(q, Identity(p, seq)) /\ IsProxyId(p, Identity(p, seq))
      BY <1>2, ConnectedIs DEF IsProxyId, Identity
    <3>2. q = p
      BY <1>14, <3>1, IdsTell
    <3>3. seq \in DOMAIN sockets[p]
      BY <1>8, <3>2 DEF IsConnected
    <3> QED
      BY <1>3, <1>4, <2>1, <3>3
  <2> QED
    BY <1>1, <1>2, <1>14, <2>1
<1>15. SocketsOK'
  <2>1. ASSUME NEW q \in Proxies, NEW c \in Balancers, current'[q][c] # 0
        PROVE  current'[q][c] \in DOMAIN sockets'[q] /\ sockets'[q][current'[q][c]] = c
    <3>1. CASE q = p /\ c = b
      BY <1>3, <1>6, <1>7, <3>1
    <3>2. CASE q = p /\ c # b
      <4>1. current'[q][c] = current[q][c] /\ sockets'[q] = made
        BY <1>6, <1>7, <3>2
      <4>2. current[q][c] \in DOMAIN sockets[q] /\ sockets[q][current[q][c]] = c
        BY <1>2, <2>1, <4>1
      <4> QED
        BY <1>3, <3>2, <4>1, <4>2
    <3>3. CASE q # p
      <4>1. current'[q][c] = current[q][c] /\ sockets'[q] = sockets[q]
        BY <1>6, <1>7, <3>3
      <4> QED
        BY <1>2, <2>1, <4>1
    <3> QED
      BY <3>1, <3>2, <3>3
  <2>2. pid' = [q \in Proxies |-> pid'[q]] /\ \A q \in Proxies : pid'[q] \in Pids[q]
    BY <1>2
  <2> QED
    BY <1>6, <1>7, <1>13, <1>14, <2>1, <2>2 DEF SocketsOK
<1> QED
  BY <1>1, <1>10, <1>11, <1>15 DEF SocketsKept, seq

LEMMA SendMessageKept ==
  ASSUME IInv, OpenInv, UNCHANGED <<called, got, pid>>, NEW m \in inbox, NEW r \in called, OnItsWay(r, m),
         NEW s, IsSeq(s), Stamps(s, 0), IsCall(r, Last(s)),
         NEW b \in Balancers, Serves[b] = Wants[r],
         SendMessage(Home[Caller[r]], b, m, <<EMPTY_MSG, ClientId(Caller[r]), EMPTY_MSG>> \o s)
  PROVE  IInv' /\ OpenInv'
<1> DEFINE p == Home[Caller[r]]
           seq == IF current[p][b] = 0 THEN Len(sockets[p]) + 1 ELSE current[p][b]
           t == <<EMPTY_MSG, ClientId(Caller[r]), EMPTY_MSG>>
           v == t \o s
<1> PICK id : id = Identity(p, seq)
  OBVIOUS
<1> DEFINE d == <<id>>
           u == d \o v
           closed == <<p, seq>> \in refused'
<1>1. Pass(m, IF closed THEN {} ELSE {[at |-> <<"frontend", b>>, msg |-> u]})
  BY DEF SendMessage
<1>2. /\ IsProxyId(p, id) /\ SocketsKept /\ (closed => ~PidsAreDistinct)
      /\ ~closed => IsConnected(p, b, id)'
  <2>1. p \in Proxies
    BY RpcAssumption DEF IInv
  <2>2. /\ SocketsKept
        /\ ~closed => IsConnected(p, b, id)'
    BY <2>1, SocketsMade
  <2>3. pid[p] \in Pids[p]
    BY <2>1 DEF OpenInv, SocketsOK
  <2>4. closed => ~PidsAreDistinct
    BY <2>2 DEF SocketsKept, SocketsOK
  <2> QED
    BY <2>2, <2>3, <2>4 DEF IsProxyId, Identity
<1> HIDE DEF closed
<1>0. CASE closed
  <2>1. inbox' \subseteq inbox
    BY <1>0, <1>1 DEF Pass
  <2> QED
    BY <1>0, <1>2, <2>1, FewerKept, FewerOpen
<1> SUFFICES ASSUME ~closed PROVE IInv' /\ OpenInv'
  BY <1>0
<1>3. IsSeq(t) /\ Len(t) = 3 /\ t[1] = EMPTY_MSG /\ t[2] = ClientId(Caller[r]) /\ t[3] = EMPTY_MSG
  BY Tuples
<1>4. IsSeq(d) /\ Len(d) = 1 /\ d[1] = id
  BY Tuples
<1> HIDE DEF t, d
<1>5. /\ IsSeq(v) /\ Len(v) = Len(t) + Len(s) /\ \A n \in 1..Len(t) : v[n] = t[n]
      /\ Stamps(v, Len(t) + 0) /\ Last(v) = Last(s)
  <2>1. v = t \o s /\ IsSeq(t)
    BY <1>3
  <2> HIDE DEF v
  <2> QED
    BY <2>1, Pushed, StampsPushed
<1> HIDE DEF v
<1>6. /\ v[1] = EMPTY_MSG /\ v[2] = ClientId(Caller[r]) /\ v[3] = EMPTY_MSG /\ Stamps(v, 3)
      /\ Len(v) \in Nat /\ Len(v) > 3
  <2>1. Stamps(v, 3) /\ Len(v) \in Nat
    BY <1>3, <1>5, SeqLen
  <2> QED
    BY <1>3, <1>5, <2>1 DEF Stamps
<1>7. /\ IsSeq(u) /\ \A n \in 1..Len(d) : u[n] = d[n] /\ \A k \in 1..Len(v) : u[Len(d) + k] = v[k]
      /\ Stamps(u, Len(d) + 3) /\ Last(u) = Last(v)
  <2>1. u = d \o v /\ IsSeq(d) /\ IsSeq(v) /\ Stamps(v, 3)
    BY <1>4, <1>5, <1>6
  <2> HIDE DEF u
  <2> QED
    BY <2>1, Pushed, StampsPushed
<1> HIDE DEF u
<1>8. /\ u[1] = id /\ u[2] = EMPTY_MSG /\ u[3] = ClientId(Caller[r]) /\ u[4] = EMPTY_MSG
      /\ Stamps(u, 4)
  <2>1. u[1] = id /\ u[1 + 1] = v[1] /\ u[1 + 2] = v[2] /\ u[1 + 3] = v[3]
    BY <1>4, <1>6, <1>7
  <2>2. Stamps(u, 4)
    BY <1>4, <1>7
  <2> QED
    BY <1>6, <2>1, <2>2
<1>9. Behind(<<u[1], EMPTY_MSG, ClientId(Caller[r]), EMPTY_MSG>>, u)
  BY <1>7, <1>8, BehindIs
<1>10. PICK x : x = [at |-> <<"frontend", b>>, msg |-> u]
  OBVIOUS
<1>11. OnItsWay(r, x)
  <2>1. AtFrontend(r, x)
    BY <1>2, <1>5, <1>7, <1>8, <1>9, <1>10 DEF AtFrontend
  <2> QED
    BY <2>1 DEF OnItsWay
<1>12. WayOpen(r, x)'
  BY <1>2, <1>8, <1>10 DEF WayOpen
<1>13. Pass(m, {x})
  BY <1>1, <1>10
<1> QED
  BY <1>2, <1>11, <1>12, <1>13, PassKept

LEMMA HandleRequestKept ==
  ASSUME IInv, OpenInv, UNCHANGED <<called, got, pid>>, NEW m \in inbox, NEW r \in called, OnItsWay(r, m),
         NEW s, IsSeq(s), Stamps(s, 0), IsCall(r, Last(s)),
         HandleRequest(Home[Caller[r]], m, Service(Wants[r]), ClientId(Caller[r]), s)
  PROVE  IInv' /\ OpenInv'
<1> DEFINE p == Home[Caller[r]]
           err == GetWorkerNotFoundData(Service(Wants[r]), 0, RequestOf(s))
<1>1. ASSUME NEW b \in Balancers, Service(Serves[b]) = Service(Wants[r]),
             SendMessage(p, b, m, <<EMPTY_MSG, ClientId(Caller[r]), EMPTY_MSG>> \o s)
      PROVE  IInv' /\ OpenInv'
  <2>1. Serves[b] = Wants[r]
    BY <1>1 DEF Service
  <2> QED
    BY <1>1, <2>1, SendMessageKept
<1>2. ASSUME NEW b \in Balancers, ConnectFails(p, b, m)
      PROVE  IInv' /\ OpenInv'
  <2>1. inbox' = inbox \ {m} /\ RequestOf(m.msg) \in lost'
    BY <1>2 DEF ConnectFails, Pass
  <2>2. SocketsKept
    BY <1>2, SocketsLeft DEF ConnectFails
  <2> QED
    BY <2>1, <2>2, FewerKept, FewerOpen
<1>3. ASSUME Pass(m, ToClient(p, <<ClientId(Caller[r]), EMPTY_MSG>> \o InPlaceOfData(s, err))),
             UNCHANGED <<sockets, current, refused, lost>>
      PROVE  IInv' /\ OpenInv'
  <2>1. RequestOf(s) = r
    BY CallData DEF RequestOf
  <2>2. IsAnswer(r, err)
    BY <2>1, AnswersMade
  <2>3. SocketsKept
    BY <1>3, SocketsLeft
  <2> HIDE DEF err
  <2> QED
    BY <1>3, <2>2, <2>3, ErrorKept
<1> QED
  BY <1>1, <1>2, <1>3 DEF HandleRequest

LEMMA FromFrontendKept ==
  ASSUME IInv, OpenInv, NEW p, FromFrontend(p)
  PROVE  IInv' /\ OpenInv'
<1> PICK m \in At(<<"proxy", p>>) :
      LET routed == Unwrap(m.msg)
          client_id == routed.head
          service == Unwrap(routed.tails).head
          msgs == Unwrap(routed.tails).tails
          seqId == ParseThriftMsgBegin(Last(msgs)).seqId
          errMsg == GetServiceNotFoundData(service, seqId, RequestOf(msgs))
      IN /\ IF service \notin {Service(s) : s \in Known}
            THEN /\ Pass(m, ToClient(p, <<client_id, EMPTY_MSG>> \o InPlaceOfData(msgs, errMsg)))
                 /\ UNCHANGED <<sockets, current, refused, lost>>
            ELSE HandleRequest(p, m, service, client_id, Stamped(p, msgs))
         /\ UNCHANGED <<called, pid, got, faults>>
  BY DEF FromFrontend
<1>1. m \in inbox /\ m.at = <<"proxy", p>> /\ UNCHANGED <<called, got, pid>>
  BY DEF At
<1> PICK r \in called : AtProxy(r, m)
  BY <1>1, PlaceTells DEF IInv
<1> DEFINE s == m.msg
           t == Unwrap(s).tails
           u == Unwrap(t).tails
           v == Stamped(p, u)
           err == GetServiceNotFoundData(Unwrap(t).head, ParseThriftMsgBegin(Last(u)).seqId,
                                         RequestOf(u))
<1>2. OnItsWay(r, m) /\ p = Home[Caller[r]]
  BY <1>1 DEF OnItsWay, AtProxy
<1>3. /\ IsSeq(s) /\ Len(s) = 5 /\ s[1] = ClientId(Caller[r]) /\ s[2] = EMPTY_MSG
      /\ s[3] = Service(Wants[r]) /\ s[4] = EMPTY_MSG /\ IsCall(r, s[5])
  BY AtProxyIs
<1>4. \/ /\ Pass(m, ToClient(p, <<Unwrap(s).head, EMPTY_MSG>> \o InPlaceOfData(u, err)))
         /\ UNCHANGED <<sockets, current, refused, lost>>
      \/ HandleRequest(p, m, Unwrap(t).head, Unwrap(s).head, v)
  OBVIOUS
<1>5. PICK i \in Nat : i = 2
  OBVIOUS
<1>6. Unwrap(s).head = ClientId(Caller[r]) /\ t = SubSeq(s, i + 1, Len(s)) /\ i < Len(s)
  <2>1. IsSeq(s) /\ Len(s) > 1 /\ s[2] = EMPTY_MSG
    BY <1>3
  <2>2. Unwrap(s).head = s[1] /\ Unwrap(s).tails = SubSeq(s, 2 + 1, Len(s))
    <3> HIDE DEF s
    <3> QED
      BY <2>1, Unwrapped
  <2> QED
    BY <1>3, <1>5, <2>2
<1> HIDE DEF s, t
<1>7. /\ IsSeq(t) /\ Len(t) = Len(s) - i
      /\ \A j \in 1..(Len(s) - i) : t[j] = s[i + j]
  BY <1>3, <1>6, Dropped
<1>8. Len(t) = 3 /\ t[1] = Service(Wants[r]) /\ t[2] = EMPTY_MSG /\ t[3] = s[5]
  <2>1. Len(t) = 3 /\ t[1] = s[i + 1] /\ t[2] = s[i + 2] /\ t[3] = s[i + 3]
    BY <1>3, <1>5, <1>7
  <2> QED
    BY <1>3, <1>5, <2>1
<1>9. Unwrap(t).head = Service(Wants[r]) /\ u = SubSeq(t, i + 1, Len(t)) /\ i < Len(t)
  <2>1. Unwrap(t).head = t[1] /\ u = SubSeq(t, 2 + 1, Len(t))
    <3>1. IsSeq(t)
      BY <1>7
    <3>2. Len(t) > 1 /\ t[2] = EMPTY_MSG
      BY <1>8
    <3> QED
      BY <3>1, <3>2, Unwrapped
  <2> QED
    BY <1>5, <1>8, <2>1
<1> HIDE DEF u
<1>10. /\ IsSeq(u) /\ Len(u) = Len(t) - i
       /\ \A j \in 1..(Len(t) - i) : u[j] = t[i + j]
  BY <1>7, <1>9, Dropped
<1>11. Len(u) = 1 /\ u[1] = s[5]
  <2>1. Len(u) = 1 /\ u[1] = t[i + 1]
    BY <1>5, <1>8, <1>10
  <2> QED
    BY <1>5, <1>8, <2>1
<1>12. Stamps(u, 0) /\ Last(u) = s[5]
  <2>1. s[5] # EMPTY_MSG
    BY <1>3, CallData
  <2> QED
    BY <1>11, <2>1 DEF Stamps, Last
<1>13. IsSeq(v) /\ Stamps(v, 0) /\ Last(v) = s[5]
  <2>1. s[5] # EMPTY_MSG
    BY <1>3, CallData
  <2> QED
    BY <1>10, <1>12, <2>1, StampAdded
<1> HIDE DEF v
<1>14. CASE /\ Pass(m, ToClient(p, <<Unwrap(s).head, EMPTY_MSG>> \o InPlaceOfData(u, err)))
            /\ UNCHANGED <<sockets, current, refused, lost>>
  <2>1. IsAnswer(r, err)
    <3>1. RequestOf(u) = r
      BY <1>3, <1>12, CallData DEF RequestOf
    <3> QED
      BY <3>1, AnswersMade
  <2>2. SocketsKept
    BY <1>1, <1>14, SocketsLeft
  <2> HIDE DEF err
  <2> QED
    BY <1>1, <1>2, <1>3, <1>6, <1>10, <1>12, <1>14, <2>1, <2>2, ErrorKept
<1>15. CASE HandleRequest(p, m, Unwrap(t).head, Unwrap(s).head, v)
  BY <1>1, <1>2, <1>3, <1>6, <1>9, <1>13, <1>15, HandleRequestKept
<1> QED
  BY <1>4, <1>14, <1>15

-----------------------------------------------------------------------------
(***************************************************************************)
(* The invariant.                                                          *)
(***************************************************************************)
LEMMA InitIInv == Init => IInv
<1> SUFFICES ASSUME Init PROVE IInv
  OBVIOUS
<1>1. called = {} /\ inbox = {} /\ got = [c \in Clients |-> <<>>]
  BY DEF Init
<1>2. IsSeq(<<>>) /\ DOMAIN <<>> = {}
  <2>1. <<>> \in Seq({}) /\ Len(<<>>) = 0
    OBVIOUS
  <2>2. IsSeq(<<>>)
    BY <2>1, SeqIsSeq
  <2> QED
    BY <2>1, <2>2, SeqLen
<1>3. \A c \in Clients : got[c] = <<>>
  BY <1>1
<1>4. Routed
  BY <1>1 DEF Routed
<1>5. Delivered
  BY <1>2, <1>3 DEF Delivered
<1>6. Once
  BY <1>1, <1>2, <1>3 DEF Once
<1>7. called \subseteq Requests /\ got = [c \in Clients |-> got[c]]
  BY <1>1
<1> QED
  BY <1>4, <1>5, <1>6, <1>7 DEF IInv

LEMMA InitOpenInv == Init => OpenInv
<1> SUFFICES ASSUME Init PROVE OpenInv
  OBVIOUS
<1>1. sockets = [p \in Proxies |-> <<>>] /\ NamedOnce
  <2>1. sockets = [p \in Proxies |-> <<>>] /\ DOMAIN <<>> = {}
    BY DEF Init
  <2> QED
    BY <2>1 DEF NamedOnce
<1>2. SocketsOK
  BY <1>1 DEF Init, SocketsOK
<1> QED
  BY <1>2 DEF Init, OpenInv, NothingDropped

LEMMA CrashKept ==
  ASSUME IInv, OpenInv, NEW places, Crash(places)
  PROVE  IInv' /\ OpenInv'
<1>1. /\ inbox' \subseteq inbox /\ UNCHANGED <<called, got>>
      /\ \A m \in inbox \ inbox' : IsControl(m) \/ RequestOf(m.msg) \in lost'
  BY DEF Crash, Carrying
<1>2. SocketsKept
  BY SocketsLeft DEF Crash
<1> QED
  BY <1>1, <1>2, FewerKept, FewerOpen

\* Whatever its clients wait for is counted as lost, and the connections of
\* the others stay.
LEMMA RestartKept ==
  ASSUME IInv, OpenInv, NEW p \in Proxies, Restart(p)
  PROVE  IInv' /\ OpenInv'
<1>1. /\ inbox' \subseteq inbox /\ UNCHANGED <<called, got>>
      /\ lost' = lost \cup {r \in called : Home[Caller[r]] = p}
      /\ \A m \in inbox \ inbox' : m.at = <<"proxy", p>> \/ m.at = <<"dealer", p>>
  BY DEF Restart
<1>2. IInv'
  BY <1>1, FewerKept
<1>3. ASSUME PidsAreDistinct, NEW m \in inbox \ inbox' PROVE RequestOf(m.msg) \in lost'
  <2>1. \E r \in called : OnItsWay(r, m) /\ Home[Caller[r]] = p
    <3>1. \E r \in called : AtProxy(r, m) \/ AtDealer(r, m)
      BY <1>1, PlaceTells DEF IInv
    <3> QED
      BY <1>1, <1>3, <3>1 DEF AtProxy, AtDealer, OnItsWay
  <2> QED
    BY <1>1, <2>1, OnItsWayIs
<1>4. /\ SocketsOK'
      /\ \A q \in Proxies : q # p =>
           \A b, id : IsConnected(q, b, id) <=> IsConnected(q, b, id)'
  <2>1. /\ sockets \in [Proxies -> Seq(Balancers)]
        /\ current \in [Proxies -> [Balancers -> Nat]]
        /\ pid = [q \in Proxies |-> pid[q]] /\ \A q \in Proxies : pid[q] \in Pids[q]
        /\ (PidsAreDistinct => refused = {}) /\ refused' = {x \in refused : x[1] # p}
        /\ sockets' = [sockets EXCEPT ![p] = <<>>]
        /\ current' = [current EXCEPT ![p] = [b \in Balancers |-> 0]]
    BY DEF Restart, OpenInv, SocketsOK
  <2>2. sockets' \in [Proxies -> Seq(Balancers)]
    BY <2>1
  <2>3. current' \in [Proxies -> [Balancers -> Nat]]
    BY <2>1
  <2>4. /\ pid' = [q \in Proxies |-> pid'[q]]
        /\ \A q \in Proxies : pid'[q] \in Pids[q] /\ (q # p => pid'[q] = pid[q])
    BY <2>1 DEF Restart
  <2>5. /\ \A q \in Proxies : q # p => sockets'[q] = sockets[q] /\ current'[q] = current[q]
        /\ \A b \in Balancers : current'[p][b] = 0
    BY <2>1
  <2>6. ASSUME NEW q \in Proxies, NEW b \in Balancers, current'[q][b] # 0
        PROVE  current'[q][b] \in DOMAIN sockets'[q] /\ sockets'[q][current'[q][b]] = b
    <3>1. sockets'[q] = sockets[q] /\ current'[q] = current[q]
      BY <2>5, <2>6
    <3> QED
      BY <2>6, <3>1 DEF OpenInv, SocketsOK
  <2>7. ASSUME NEW q \in Proxies, q # p, NEW b, NEW id
        PROVE  IsConnected(q, b, id) <=> IsConnected(q, b, id)'
    <3>1. sockets'[q] = sockets[q] /\ pid'[q] = pid[q]
      BY <2>4, <2>5, <2>7
    <3>2. \A n : <<q, n>> \in refused' <=> <<q, n>> \in refused
      BY <2>1, <2>7
    <3> QED
      BY <3>1, <3>2 DEF IsConnected, Identity
  <2>8. \A b, id : ~IsConnected(p, b, id)'
    <3>1. sockets'[p] = <<>>
      BY <2>1
    <3> QED
      BY <3>1 DEF IsConnected
  <2>9. NamedOnce'
    <3> SUFFICES ASSUME NEW q \in Proxies, NEW o \in Proxies, NEW b \in Balancers, NEW id,
                        IsConnected(q, b, id)', IsConnected(o, b, id)'
                 PROVE  q = o
      BY DEF NamedOnce
    <3>1. IsConnected(q, b, id) /\ IsConnected(o, b, id)
      BY <2>7, <2>8
    <3> QED
      BY <3>1, ConnectedIs DEF OpenInv
  <2>10. PidsAreDistinct => refused' = {}
    BY <2>1
  <2>11. SocketsOK'
    BY <2>2, <2>3, <2>4, <2>6, <2>9, <2>10 DEF SocketsOK
  <2> QED
    BY <2>7, <2>11
<1>5. ASSUME NEW m \in inbox', ~IsControl(m), RequestOf(m.msg) \notin lost'
      PROVE  WayOpen(RequestOf(m.msg), m)'
  <2> DEFINE r == RequestOf(m.msg)
  <2>1. r \in called /\ r \in Requests /\ m \in inbox
    BY <1>1, <1>5, CallsUnderWay DEF IInv
  <2>2. WayOpen(r, m) /\ Home[Caller[r]] # p
    BY <1>1, <1>5, <2>1 DEF OpenInv
  <2> HIDE DEF r
  <2>3. Home[Caller[r]] \in Proxies
    BY <2>1, RpcAssumption
  <2>4. \A b, id : IsConnected(Home[Caller[r]], b, id) => IsConnected(Home[Caller[r]], b, id)'
    BY <1>4, <2>2, <2>3
  <2>5. WayOpen(r, m)'
    BY <2>2, <2>4 DEF WayOpen
  <2> QED
    BY <2>5 DEF r
<1>6. ASSUME PidsAreDistinct PROVE NothingDropped'
  <2> SUFFICES ASSUME NEW r \in called, r \notin lost' PROVE UnderWay(r)' \/ Answered(r)'
    BY <1>1 DEF NothingDropped
  <2>1. UnderWay(r) \/ Answered(r)
    BY <1>1, <1>6 DEF OpenInv, NothingDropped
  <2>2. Answered(r) => Answered(r)'
    BY <1>1 DEF Answered
  <2>3. UnderWay(r) => UnderWay(r)'
    BY <1>3, <1>6 DEF UnderWay
  <2> QED
    BY <2>1, <2>2, <2>3
<1> QED
  BY <1>2, <1>4, <1>5, <1>6 DEF OpenInv

LEMMA RelistedKept ==
  ASSUME IInv, OpenInv, NEW p \in Proxies, NEW b \in Balancers, Relisted(p, b)
  PROVE  IInv' /\ OpenInv'
<1>1. /\ UNCHANGED <<called, inbox, sockets, refused, pid, got, lost>>
      /\ current' = [current EXCEPT ![p][b] = 0]
  BY DEF Relisted
<1>2. /\ \A q, seq : Identity(q, seq)' = Identity(q, seq)
      /\ \A q, c, id : IsConnected(q, c, id)' <=> IsConnected(q, c, id)
  BY <1>1 DEF IsConnected, Identity
<1>3. SocketsOK'
  <2>1. /\ current \in [Proxies -> [Balancers -> Nat]]
        /\ sockets \in [Proxies -> Seq(Balancers)] /\ pid = [q \in Proxies |-> pid[q]]
    BY DEF OpenInv, SocketsOK
  <2>2. /\ current' \in [Proxies -> [Balancers -> Nat]]
        /\ \A q \in Proxies, c \in Balancers :
             current'[q][c] = IF q = p /\ c = b THEN 0 ELSE current[q][c]
    BY <1>1, <2>1
  <2>3. NamedOnce'
    BY <1>1, <1>2 DEF OpenInv, SocketsOK, NamedOnce
  <2> QED
    BY <1>1, <2>1, <2>2, <2>3 DEF OpenInv, SocketsOK
<1>4. SocketsKept
  BY <1>1, <1>2, <1>3 DEF SocketsKept
<1> QED
  BY <1>1, <1>4, FewerKept, FewerOpen

LEMMA StepInv == IInv /\ OpenInv /\ [Next]_vars => IInv' /\ OpenInv'
<1> SUFFICES ASSUME IInv, OpenInv, [Next]_vars PROVE IInv' /\ OpenInv'
  OBVIOUS
<1>1. ASSUME NEW p \in Proxies, FromFrontend(p) PROVE IInv' /\ OpenInv'
  BY <1>1, FromFrontendKept
<1>2. ASSUME NEW p \in Proxies, FromBackend(p) PROVE IInv' /\ OpenInv'
  BY <1>2, FromBackendKept
<1>3. ASSUME NEW b \in Balancers, LbFromFrontend(b) PROVE IInv' /\ OpenInv'
  BY <1>3, LbFromFrontendKept
<1>4. ASSUME NEW b \in Balancers, NEW m \in At(<<"backend", b>>), LbFromBackend(b, m)
      PROVE  IInv' /\ OpenInv'
  BY <1>4, LbFromBackendKept
<1>5. ASSUME NEW w \in Workers, Answer(w) PROVE IInv' /\ OpenInv'
  BY <1>5, AnswerKept
<1>6. ASSUME NEW c \in Clients, Receive(c) PROVE IInv' /\ OpenInv'
  BY <1>6, ReceiveKept
<1>7. ASSUME NEW r \in Requests, Call(r) PROVE IInv' /\ OpenInv'
  BY <1>7, CallKept
<1>8. ASSUME NEW w \in Workers, Heartbeat(w) PROVE IInv' /\ OpenInv'
  <2> DEFINE x == [at |-> <<"backend", Owner[w]>>, msg |-> <<WorkerId(w), EMPTY_MSG, Control>>]
  <2>1. inbox' = inbox \cup {x} /\ UNCHANGED <<called, got>>
    BY <1>8 DEF Heartbeat
  <2>2. IsHeartbeat(x)
    BY DEF IsHeartbeat
  <2>3. SocketsKept
    BY <1>8, SocketsLeft DEF Heartbeat
  <2> HIDE DEF x
  <2> QED
    BY <2>1, <2>2, <2>3, HeartbeatKept
<1>9. ASSUME NEW places, Crash(places) PROVE IInv' /\ OpenInv'
  BY <1>9, CrashKept
<1>10. ASSUME NEW p \in Proxies, Restart(p) PROVE IInv' /\ OpenInv'
  BY <1>10, RestartKept
<1>11. ASSUME NEW p \in Proxies, NEW b \in Balancers, Relisted(p, b) PROVE IInv' /\ OpenInv'
  BY <1>11, RelistedKept
<1>12. CASE UNCHANGED vars
  BY <1>12, FewerKept, FewerOpen, SocketsLeft DEF vars
<1>13. CASE Step
  BY <1>1, <1>2, <1>3, <1>4, <1>5, <1>6, <1>13 DEF Step
<1> QED
  BY <1>7, <1>8, <1>9, <1>10, <1>11, <1>12, <1>13 DEF Next

(***************************************************************************)
(* Whatever is sent, and whatever fails, the frames of a message are the   *)
(* way back of one request, no request has two messages, and, for proxies  *)
(* with distinct process ids, that way ends at the client that called.     *)
(***************************************************************************)
THEOREM MessagesKeepTheirWay == Spec => []IInv
  BY InitIInv, InitOpenInv, StepInv, PTL DEF Spec

(***************************************************************************)
(* If no two proxies ever have the same process id, a call is under way    *)
(* until its client has the answer, unless a process that had it failed or *)
(* the proxy could not connect: neither program drops it, and no peer it   *)
(* is sent on to is gone.                                                  *)
(***************************************************************************)
THEOREM NoCallIsDropped ==
  ASSUME PidsAreDistinct
  PROVE  Spec => []NothingDropped
<1>1. OpenInv => NothingDropped
  BY DEF OpenInv
<1> QED
  BY <1>1, InitIInv, InitOpenInv, StepInv, PTL DEF Spec

LEMMA ReceivedIs ==
  ASSUME NEW r, NEW msg, Received(r, msg)
  PROVE  RequestOf(msg) = r
  BY AnswerData DEF Received, RequestOf

(***************************************************************************)
(* If no two proxies ever have the same process id, what a client receives *)
(* answers a call of its own, once, with a reply of the service it called  *)
(* or an error.                                                            *)
(***************************************************************************)
THEOREM AnswersFindTheirClient ==
  ASSUME PidsAreDistinct
  PROVE  Spec => []RepliesReachTheirClient
<1>1. IInv => RepliesReachTheirClient
  <2> SUFFICES ASSUME IInv, NEW c \in Clients
               PROVE  /\ \A n \in DOMAIN got[c] :
                           LET answer == Last(got[c][n])
                           IN /\ answer[2] # "call"
                              /\ Caller[answer[5]] = c
                              /\ answer[2] = "reply" =>
                                   answer[3] = Wants[answer[5]] /\ answer[4] = answer[5]
                      /\ \A n, k \in DOMAIN got[c] :
                           RequestOf(got[c][n]) = RequestOf(got[c][k]) => n = k
    BY DEF RepliesReachTheirClient
  <2>1. ASSUME NEW n \in DOMAIN got[c]
        PROVE  LET answer == Last(got[c][n])
               IN /\ answer[2] # "call"
                  /\ Caller[answer[5]] = c
                  /\ answer[2] = "reply" => answer[3] = Wants[answer[5]] /\ answer[4] = answer[5]
    <3> PICK r \in called : Caller[r] = c /\ Received(r, got[c][n])
      BY <2>1 DEF IInv, Delivered
    <3>1. IsAnswer(r, Last(got[c][n]))
      BY DEF Received
    <3> QED
      BY <3>1 DEF IsAnswer
  <2> QED
    BY <2>1 DEF IInv, Once
<1> QED
  BY <1>1, MessagesKeepTheirWay, PTL

(***************************************************************************)
(* An answer comes back behind an empty frame, with an empty frame after   *)
(* each time stamp, whichever program it is from, and whatever process ids *)
(* the proxies have.                                                       *)
(***************************************************************************)
THEOREM EnvelopesAreOneKind == Spec => []AnswersAreWrapped
<1>1. IInv => AnswersAreWrapped
  <2> SUFFICES ASSUME IInv, NEW c \in Clients, NEW n \in DOMAIN got[c]
               PROVE  /\ got[c][n][1] = EMPTY_MSG
                      /\ \A k \in 2..Len(got[c][n]) :
                           got[c][n][k] = EMPTY_MSG <=> got[c][n][k - 1] = Time
    BY DEF AnswersAreWrapped
  <2> DEFINE s == got[c][n]
  <2> PICK r \in called : Received(r, s)
    BY DEF IInv, Delivered
  <2>1. IsSeq(s) /\ s[1] = EMPTY_MSG /\ Stamps(s, 1)
    BY BehindIs DEF Received
  <2> HIDE DEF s
  <2>2. \A k \in (1 + 1)..Len(s) : s[k] = EMPTY_MSG <=> k > 1 + 1 /\ s[k - 1] = Time
    BY <2>1 DEF Stamps
  <2>3. Len(s) \in Nat
    BY <2>1, SeqLen
  <2>4. ASSUME NEW k \in 2..Len(s) PROVE s[k] = EMPTY_MSG <=> s[k - 1] = Time
    <3>1. CASE k = 2
      BY <2>1, <2>2, <2>3, <3>1, FrameKinds
    <3>2. CASE k > 2
      BY <2>2, <2>3, <3>2
    <3> QED
      BY <2>3, <3>1, <3>2
  <2> QED
    BY <2>1, <2>4 DEF s
<1> QED
  BY <1>1, MessagesKeepTheirWay, PTL
=============================================================================
