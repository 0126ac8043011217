---------------------------- MODULE UtilsProofs ----------------------------
(***************************************************************************)
(* Theorems about the modules of src/utils, LogFile and ZkConn.            *)
(*                                                                         *)
(* LogFile: for any number of fragments, any sizes of the options and      *)
(* words, and any number of lines, restarts and failures.  Every fragment  *)
(* is an interval of the lines, so its bytes are those up to its last line *)
(* less those before its first.  All that is said of a fragment when the   *)
(* process leaves it stays true while it is there, whoever runs meanwhile. *)
(*                                                                         *)
(* ZkConn: for any users, connections and number of retries.  The two      *)
(* properties need each other: a call starts on the connection of an       *)
(* instance, which is the open one, and a reset takes that away only when  *)
(* no call is in progress.                                                 *)
(***************************************************************************)
EXTENDS LogFile, ZkConn, TLAPS

\* What is kept of the log when a line of n bytes is added to it.
LEMMA Appended ==
  ASSUME IInv, NEW n \in Nat, written' = Append(written, Upto(Len(written)) + n)
  PROVE  /\ written' \in Seq(Nat) /\ Len(written') = Len(written) + 1
         /\ Len(written) \in Nat
         /\ \A k \in 0..Len(written) : Upto(k)' = Upto(k) /\ Upto(k) \in Nat
         /\ \A k : k = Len(written) + 1 => Upto(k)' = Upto(Len(written)) + n
         /\ WrittenGrows'
<1>1. written \in Seq(Nat) /\ Len(written) \in Nat
  BY DEF IInv, TypeOK
<1>2. \A k \in 0..Len(written) : Upto(k) \in Nat
  BY <1>1 DEF Upto
<1>3. written' \in Seq(Nat) /\ Len(written') = Len(written) + 1
  BY <1>1, <1>2
<1>4. \A k \in 1..Len(written) : written'[k] = written[k]
  BY <1>1, <1>2
<1>5. \A k \in 0..Len(written) : Upto(k)' = Upto(k)
  BY <1>1, <1>4 DEF Upto
<1>6. \A k : k = Len(written) + 1 => Upto(k)' = Upto(Len(written)) + n
  BY <1>1, <1>2 DEF Upto
<1>7. WrittenGrows'
  <2> SUFFICES ASSUME NEW l \in 0..Len(written'), NEW k \in 0..Len(written'), l <= k
               PROVE  Upto(l)' <= Upto(k)'
    BY DEF WrittenGrows
  <2>1. CASE k \in 0..Len(written)
    <3>1. l \in 0..Len(written)
      BY <1>1, <2>1
    <3> QED
      BY <1>5, <2>1, <3>1 DEF IInv, WrittenGrows
  <2>2. CASE k = Len(written) + 1 /\ l \in 0..Len(written)
    <3>1. Upto(l) <= Upto(Len(written)) /\ Upto(l) \in Nat /\ Upto(Len(written)) \in Nat
      BY <1>1, <1>2, <2>2 DEF IInv, WrittenGrows
    <3>2. Upto(l)' = Upto(l)
      BY <1>5, <2>2
    <3> QED
      BY <1>6, <2>2, <3>1, <3>2
  <2>3. CASE k = Len(written) + 1 /\ l = Len(written) + 1
    BY <1>2, <1>6, <1>1, <2>3
  <2> QED
    BY <1>1, <1>3, <2>1, <2>2, <2>3
<1> QED
  BY <1>1, <1>2, <1>3, <1>5, <1>6, <1>7

\* A piece of the log has the lines from its first to its last.
LEMMA PieceLines ==
  ASSUME IInv, NEW f \in Frags, disk[f] # Missing
  PROVE  /\ disk[f] \in Seq(Nat) /\ Len(disk[f]) \in Nat \ {0}
         /\ disk[f][1] \in Nat \ {0}
         /\ Last(f) = disk[f][1] + Len(disk[f]) - 1
         /\ Last(f) \in 1..Len(written)
         /\ Lines(f) = disk[f][1]..Last(f)
<1>1. disk[f] \in Seq(Nat) /\ IsPiece(f) /\ Len(written) \in Nat
  BY DEF IInv, TypeOK
<1>2. /\ Len(disk[f]) \in Nat \ {0} /\ disk[f][1] \in Nat \ {0}
      /\ \A k \in 1..Len(disk[f]) : disk[f][k] = disk[f][1] + k - 1
      /\ Last(f) = disk[f][1] + Len(disk[f]) - 1
  <2> DEFINE q == disk[f]
  <2>1. /\ q \in Seq(Nat) /\ Len(q) > 0 /\ q[1] > 0
        /\ \A k \in 1..Len(q) : q[k] = q[1] + k - 1
    BY <1>1 DEF IsPiece
  <2> HIDE DEF q
  <2>2. Len(q) \in Nat \ {0} /\ q[1] \in Nat \ {0} /\ q[Len(q)] = q[1] + Len(q) - 1
    BY <2>1
  <2> QED
    BY <2>1, <2>2 DEF q, Last
<1>3. Last(f) \in 1..Len(written)
  BY <1>1, <1>2 DEF IsPiece
<1>4. Lines(f) = disk[f][1]..Last(f)
  <2>1. Lines(f) = {disk[f][k] : k \in 1..Len(disk[f])}
    BY <1>1 DEF Lines
  <2>2. \A l \in disk[f][1]..Last(f) :
           /\ l - disk[f][1] + 1 \in 1..Len(disk[f])
           /\ disk[f][l - disk[f][1] + 1] = l
    BY <1>2
  <2>3. \A k \in 1..Len(disk[f]) : disk[f][k] \in disk[f][1]..Last(f)
    BY <1>2
  <2> QED
    BY <2>1, <2>2, <2>3
<1> QED
  BY <1>1, <1>2, <1>3, <1>4

LEMMA ParseIsInt == ASSUME NEW option \in Options PROVE Parse(option) \in Int
<1> DEFINE size == UnitSize(option.unit)
           whole == option.halves \div 2
<1>1. option.halves \in Nat /\ option.unit \in {"B", "KB", "MB", "GB"}
  BY LogFileAssumption
<1>2. Half \in Nat \ {0}
  BY LogFileAssumption
<1>3. size \in Int
  <2>1. \A b \in Nat : 2 ^ (UnitBits * b) \in Int
    <3>1. \A b \in Nat : UnitBits * b \in Nat
      BY LogFileAssumption
    <3>2. \A e \in Nat : 2 ^ e \in Int
      OBVIOUS
    <3> QED
      BY <3>1, <3>2
  <2> DEFINE b == CASE option.unit = "B" -> 0 [] option.unit = "KB" -> 1
                    [] option.unit = "MB" -> 2 [] option.unit = "GB" -> 3
  <2>2. b \in Nat
    BY <1>1
  <2>3. size = 2 ^ (UnitBits * b)
    BY DEF UnitSize
  <2> HIDE DEF b
  <2> QED
    BY <2>1, <2>2, <2>3
<1>4. whole \in Int
  BY <1>1
<1>5. /\ \A n \in Int : Truncated(n) \in Int
      /\ \A n \in Int : Wrapped(n) \in Int
  <2>1. \A n \in Int : Truncated(n) \in Int
    BY <1>2 DEF Truncated
  <2>2. ASSUME NEW n \in Int PROVE Wrapped(n) \in Int
    <3>1. n + Half \in Int /\ 2 * Half \in Nat \ {0}
      BY <1>2
    <3>2. \A a \in Int, b \in Nat \ {0} : a % b \in Int
      OBVIOUS
    <3>3. (n + Half) % (2 * Half) \in Int
      BY <3>1, <3>2
    <3> QED
      BY <1>2, <3>3 DEF Wrapped
  <2> QED
    BY <2>1, <2>2
<1>6. option.halves * size \in Int /\ size * whole \in Int
  BY <1>1, <1>3, <1>4
<1> HIDE DEF size, whole
<1>7. (option.halves * size) \div 2 \in Int
  BY <1>6
<1>8. Parse(option) \in {Truncated((option.halves * size) \div 2), Wrapped(size * whole), 0}
  BY DEF Parse, size, whole
<1> QED
  BY <1>5, <1>6, <1>7, <1>8

LEMMA InitIInv == Init => IInv
<1> SUFFICES ASSUME Init PROVE IInv
  OBVIOUS
<1> USE DEF Init
<1>1. maxFragSize \in Int
  BY ParseIsInt
<1>2. TypeOK
  <2>1. [f \in Frags |-> Missing] \in [Frags -> Seq(Nat)]
    BY DEF Missing
  <2>2. first \in 1..(Len(written) + 1) /\ written \in Seq(Nat)
    OBVIOUS
  <2>3. fileFrag \in -1..(maxFileFrag - 1)
    BY LogFileAssumption
  <2>4. file \in BOOLEAN /\ skipped \in BOOLEAN /\ state \in {"off", "up", "closed"}
    BY Zenon
  <2> QED
    BY <1>1, <2>1, <2>2, <2>3, <2>4 DEF TypeOK
<1>3. \A f \in Frags : disk[f] = Missing
  OBVIOUS
<1>4. WrittenGrows
  BY DEF WrittenGrows, Upto
<1>5. FragmentsBounded
  BY <1>3 DEF FragmentsBounded
<1>6. FragmentsAreWhole
  BY <1>3 DEF FragmentsAreWhole, Lines, Missing
<1> QED
  BY <1>2, <1>3, <1>4, <1>5, <1>6 DEF IInv, CurrentIsLast, NothingYet, LeftBehind, KeepsTheLatest

(***************************************************************************)
(* Steps that leave the files alone.                                       *)
(***************************************************************************)
LEMMA FilesKept ==
  ASSUME IInv, UNCHANGED <<maxFragSize, disk, written>>
  PROVE  /\ (\A f \in Frags : disk[f] # Missing => IsPiece(f))'
         /\ WrittenGrows' /\ FragmentsAreWhole'
         /\ (\A f \in Frags : disk[f] # Missing => Bytes(f) < maxFragSize + MaxLine)'
<1>1. (\A f \in Frags : disk[f] # Missing => IsPiece(f))'
  BY DEF IInv, IsPiece, Last
<1>2. WrittenGrows'
  BY DEF IInv, WrittenGrows, Upto
<1>3. FragmentsAreWhole'
  <2>1. \A f \in Frags : disk'[f] = disk[f] /\ Lines(f)' = Lines(f)
    BY DEF Lines
  <2> QED
    BY <2>1 DEF IInv, FragmentsAreWhole
<1>4. (\A f \in Frags : disk[f] # Missing => Bytes(f) < maxFragSize + MaxLine)'
  BY DEF IInv, FragmentsBounded, Bytes, Upto, Last
<1> QED
  BY <1>1, <1>2, <1>3, <1>4

LEMMA NextFragIsFrag ==
  ASSUME IInv
  PROVE  /\ NextFrag \in Frags
         /\ fileFrag \in Frags =>
              NextFrag = IF fileFrag = maxFileFrag - 1 THEN 0 ELSE fileFrag + 1
<1>1. fileFrag + 1 \in 0..maxFileFrag /\ maxFileFrag \in Nat \ {0}
  BY LogFileAssumption DEF IInv, TypeOK
<1>2. (fileFrag + 1) % maxFileFrag = IF fileFrag + 1 = maxFileFrag THEN 0 ELSE fileFrag + 1
  BY <1>1
<1> QED
  BY <1>1, <1>2 DEF NextFrag, Frags

LEMMA NewRollingFileIInv == IInv /\ NewRollingFile => IInv'
<1> SUFFICES ASSUME IInv, NewRollingFile PROVE IInv'
  OBVIOUS
<1>1. /\ UNCHANGED <<maxFragSize, disk, written>>
      /\ state' = "up" /\ ~file' /\ file' \in BOOLEAN /\ fragSize' = 0
      /\ first' = Len(written) + 1 /\ skipped' = FALSE /\ maxFragSize > 0
  BY DEF NewRollingFile, NewLine
<1>2. fileFrag' \in -1..(maxFileFrag - 1)
  BY LogFileAssumption DEF NewRollingFile, Frags
<1>3. TypeOK'
  <2>1. file' \in BOOLEAN /\ skipped' \in BOOLEAN
    BY <1>1, Zenon
  <2>2. first' \in 1..(Len(written') + 1) /\ written' \in Seq(Nat)
    BY <1>1 DEF IInv, TypeOK
  <2> QED
    BY <1>1, <1>2, <2>1, <2>2 DEF IInv, TypeOK
<1>4. FragmentsBounded'
  BY <1>1, FilesKept DEF FragmentsBounded
<1>5. KeepsTheLatest'
  <2>1. first'..Len(written') = {}
    BY <1>1 DEF IInv, TypeOK
  <2> QED
    BY <2>1 DEF KeepsTheLatest
<1>6. CurrentIsLast' /\ LeftBehind' /\ NothingYet'
  BY <1>1 DEF CurrentIsLast, LeftBehind, NothingYet, NewLine
<1> QED
  BY <1>1, <1>3, <1>4, <1>5, <1>6, FilesKept DEF IInv

LEMMA OpenFailsIInv == IInv /\ OpenFails => IInv'
<1> SUFFICES ASSUME IInv, OpenFails PROVE IInv'
  OBVIOUS
<1>1. /\ UNCHANGED <<maxFragSize, state, disk, written, first>>
      /\ ~file' /\ file' \in BOOLEAN /\ fragSize' = 0 /\ skipped' = TRUE
      /\ fileFrag' = NextFrag
  BY DEF OpenFails
<1>2. fileFrag' \in -1..(maxFileFrag - 1)
  BY <1>1, NextFragIsFrag DEF Frags
<1>3. TypeOK'
  <2>1. file' \in BOOLEAN /\ skipped' \in BOOLEAN
    BY <1>1, Zenon
  <2> QED
    BY <1>1, <1>2, <2>1 DEF IInv, TypeOK
<1>4. FragmentsBounded'
  BY <1>1, FilesKept DEF FragmentsBounded
<1> QED
  BY <1>1, <1>3, <1>4, FilesKept
  DEF IInv, CurrentIsLast, LeftBehind, NothingYet, KeepsTheLatest

\* Close, and the end of the process.
LEMMA StoppedIInv ==
  ASSUME IInv, state' \in {"off", "closed"}, state # "off", file' \in BOOLEAN,
         UNCHANGED <<maxFragSize, fileFrag, fragSize, disk, written, first, skipped>>
  PROVE  IInv'
<1>1. TypeOK'
  BY DEF IInv, TypeOK
<1>2. FragmentsBounded'
  BY FilesKept DEF FragmentsBounded
<1> QED
  BY <1>1, <1>2, FilesKept
  DEF IInv, CurrentIsLast, LeftBehind, NothingYet, KeepsTheLatest

LEMMA RemoveIInv == ASSUME IInv, NEW f \in Frags, Remove(f) PROVE IInv'
<1>1. /\ UNCHANGED <<maxFragSize, state, fileFrag, file, fragSize, written, first, skipped>>
      /\ state = "off" /\ disk' = [disk EXCEPT ![f] = Missing]
  BY DEF Remove
<1>2. TypeOK'
  BY <1>1 DEF IInv, TypeOK, Missing
<1>3. /\ \A g \in Frags : disk'[g] = disk[g] \/ disk'[g] = Missing
      /\ \A k : Upto(k)' = Upto(k)
  BY <1>1 DEF IInv, TypeOK, Upto
<1>4. ASSUME NEW g \in Frags, disk'[g] # Missing
      PROVE  IsPiece(g)' /\ (Bytes(g) < maxFragSize + MaxLine)'
  <2>1. disk'[g] = disk[g]
    BY <1>3, <1>4
  <2>2. Bytes(g)' = Bytes(g)
    BY <1>3, <2>1 DEF Bytes, Last
  <2> QED
    BY <1>1, <1>4, <2>1, <2>2 DEF IInv, IsPiece, Last, FragmentsBounded
<1>5. FragmentsBounded'
  BY <1>1, <1>4 DEF FragmentsBounded
<1>6. WrittenGrows'
  BY <1>1, <1>3 DEF IInv, WrittenGrows
<1>7. FragmentsAreWhole'
  <2>1. \A g \in Frags : Lines(g)' \subseteq Lines(g)
    BY <1>3 DEF Lines
  <2>2. \A g \in Frags : \A k \in 2..Len(disk[g])' : disk'[g][k] = disk'[g][k - 1] + 1
    BY <1>3 DEF IInv, FragmentsAreWhole, Missing
  <2> QED
    BY <2>1, <2>2 DEF IInv, FragmentsAreWhole
<1> QED
  BY <1>1, <1>2, <1>4, <1>5, <1>6, <1>7
  DEF IInv, CurrentIsLast, LeftBehind, NothingYet, KeepsTheLatest

(***************************************************************************)
(* Write: the current fragment ends with the new line, and its length is   *)
(* fragSize; the other fragments are as they were.                         *)
(***************************************************************************)
LEMMA Written ==
  ASSUME IInv, NEW n \in 1..MaxLine, Write(n)
  PROVE  /\ state = "up" /\ file' = TRUE /\ maxFragSize \in Nat \ {0}
         /\ UNCHANGED <<maxFragSize, state, first, skipped>>
         /\ n \in Nat /\ n <= MaxLine
         /\ written' = Append(written, Upto(Len(written)) + n)
         /\ fileFrag' \in Frags
         /\ fileFrag' = (IF Rolls THEN NextFrag ELSE fileFrag)
         /\ fragSize' = Size(Rolls, n)
         /\ disk' \in [Frags -> Seq(Nat)]
         /\ \A g \in Frags : g # fileFrag' => disk'[g] = disk[g]
         /\ \A g : g = fileFrag' =>
              /\ disk'[g] = Append(IF Rolls THEN <<>> ELSE disk[g], Len(written) + 1)
              /\ ~Rolls => /\ g \in Frags /\ disk[g] # Missing /\ Last(g) = Len(written)
                           /\ fragSize = Bytes(g)
<1>1. /\ state = "up" /\ file' = TRUE
      /\ UNCHANGED <<maxFragSize, state, first, skipped>>
      /\ written' = Append(written, Upto(Len(written)) + n)
      /\ fragSize' = Size(Rolls, n)
      /\ fileFrag' = IF Rolls THEN NextFrag ELSE fileFrag
      /\ disk' = [disk EXCEPT ![fileFrag'] = Append(IF Rolls THEN <<>> ELSE disk[fileFrag'],
                                                    Len(written) + 1)]
  BY Zenon DEF Write, Opened, NewLine
<1>2. n \in Nat /\ n <= MaxLine
  BY LogFileAssumption
<1>3. maxFragSize \in Nat \ {0}
  BY <1>1 DEF IInv, TypeOK
<1>4. ~Rolls => /\ fileFrag \in Frags /\ disk[fileFrag] # Missing
                /\ Last(fileFrag) = Len(written) /\ fragSize = Bytes(fileFrag)
  BY <1>1 DEF Rolls, IInv, CurrentIsLast, FragmentsBounded
<1>5. fileFrag' \in Frags
  BY <1>1, <1>4, NextFragIsFrag
<1>6. /\ disk \in [Frags -> Seq(Nat)]
      /\ Append(IF Rolls THEN <<>> ELSE disk[fileFrag'], Len(written) + 1) \in Seq(Nat)
  BY <1>5 DEF IInv, TypeOK
<1>7. /\ disk' \in [Frags -> Seq(Nat)]
      /\ \A g \in Frags : g # fileFrag' => disk'[g] = disk[g]
      /\ \A g : g = fileFrag' =>
            disk'[g] = Append(IF Rolls THEN <<>> ELSE disk[g], Len(written) + 1)
  BY <1>1, <1>5, <1>6
<1>8. \A g : g = fileFrag' /\ ~Rolls => g = fileFrag
  BY <1>1
<1> QED
  BY <1>1, <1>2, <1>3, <1>4, <1>5, <1>7, <1>8

\* The fragment written to.
LEMMA CurrentFragment ==
  ASSUME IInv, NEW n \in 1..MaxLine, Write(n), NEW c, c = fileFrag'
  PROVE  /\ c \in Frags /\ (disk[c] # Missing)' /\ IsPiece(c)'
         /\ Last(c)' = Len(written) + 1
         /\ Bytes(c)' = fragSize'
         /\ Lines(c)' = (IF Rolls THEN {} ELSE Lines(c)) \cup {Len(written) + 1}
<1> DEFINE q == IF Rolls THEN <<>> ELSE disk[c]
           L == Len(written)
           p == Append(q, L + 1)
<1>1. /\ c \in Frags /\ disk'[c] = p /\ n \in Nat
      /\ written' = Append(written, Upto(L) + n) /\ Len(written') = L + 1 /\ L \in Nat
      /\ fragSize' = Size(Rolls, n)
      /\ ~Rolls => disk[c] # Missing /\ Last(c) = L /\ fragSize = Bytes(c)
  BY Written, Appended
<1>2. ~Rolls => /\ disk[c] \in Seq(Nat) /\ Len(disk[c]) \in Nat \ {0}
                /\ disk[c][1] \in Nat \ {0} /\ disk[c][Len(disk[c])] = Last(c)
                /\ Last(c) = disk[c][1] + Len(disk[c]) - 1
                /\ Lines(c) = disk[c][1]..L
                /\ \A k \in 1..Len(disk[c]) : disk[c][k] = disk[c][1] + k - 1
  BY <1>1, PieceLines DEF IInv, IsPiece, Last
<1>3. q \in Seq(Nat) /\ p \in Seq(Nat) /\ Len(p) = Len(q) + 1 /\ Len(q) \in Nat
      /\ p[Len(p)] = L + 1 /\ \A k \in 1..Len(q) : p[k] = q[k]
  BY <1>1, <1>2
<1> HIDE DEF p
<1>4. p[1] \in Nat \ {0} /\ p[1] = IF Rolls THEN L + 1 ELSE disk[c][1]
  <2>1. CASE Rolls
    BY <1>1, <1>3, <2>1
  <2>2. CASE ~Rolls
    <3>1. 1 \in 1..Len(q) /\ q = disk[c]
      BY <1>2, <1>3, <2>2
    <3> QED
      BY <1>2, <1>3, <2>2, <3>1
  <2> QED
    BY <2>1, <2>2
<1>5. \A k \in 1..Len(p) : p[k] = p[1] + k - 1
  <2>1. CASE Rolls
    BY <1>1, <1>3, <1>4, <2>1
  <2>2. CASE ~Rolls
    <3>1. /\ q = disk[c] /\ p[1] = q[1] /\ q[1] \in Nat /\ Len(q) \in Nat
          /\ \A k \in 1..Len(q) : q[k] = q[1] + k - 1
          /\ L = q[1] + Len(q) - 1
      BY <1>1, <1>2, <1>4, <2>2
    <3> HIDE DEF q
    <3> SUFFICES ASSUME NEW k \in 1..Len(p) PROVE p[k] = p[1] + k - 1
      OBVIOUS
    <3>2. CASE k \in 1..Len(q)
      BY <1>3, <3>1, <3>2
    <3>3. CASE k = Len(p)
      BY <1>3, <3>1, <3>3
    <3> QED
      BY <1>3, <3>2, <3>3
  <2> QED
    BY <2>1, <2>2
<1>6. p # Missing
  <2>1. Missing[1] = 0
    BY DEF Missing
  <2> QED
    BY <1>4, <2>1
<1>7. Last(c)' = L + 1
  BY <1>1, <1>3 DEF Last
<1>8. IsPiece(c)'
  BY <1>1, <1>3, <1>4, <1>5, <1>7 DEF IsPiece
<1>9. Bytes(c)' = fragSize'
  <2>1. /\ \A k \in 0..L : Upto(k)' = Upto(k) /\ Upto(k) \in Nat
        /\ \A k : k = L + 1 => Upto(k)' = Upto(L) + n
    BY <1>1, Appended
  <2> SUFFICES ASSUME NEW k, k = L + 1, NEW l, l = p[1] - 1 PROVE Bytes(c)' = fragSize'
    OBVIOUS
  <2>2. Bytes(c)' = Upto(k)' - Upto(l)'
    BY <1>1, <1>6, <1>7 DEF Bytes
  <2>6. Upto(k)' = Upto(L) + n
    BY <2>1
  <2>3. Bytes(c)' = (Upto(L) + n) - Upto(l)'
    BY <2>6, <2>2
  <2>4. CASE Rolls
    <3>1. l = L
      BY <1>1, <1>4, <2>4
    <3> QED
      BY <1>1, <2>1, <2>3, <2>4, <3>1 DEF Size
  <2>5. CASE ~Rolls
    <3>1. l \in 0..L /\ fragSize = Upto(L) - Upto(l)
      BY <1>1, <1>2, <1>4, <2>5 DEF Bytes
    <3> QED
      BY <1>1, <2>1, <2>3, <2>5, <3>1 DEF Size
  <2> QED
    BY <2>4, <2>5
<1>10. Lines(c)' = (IF Rolls THEN {} ELSE Lines(c)) \cup {L + 1}
  <2>1. Lines(c)' = {p[k] : k \in 1..Len(p)}
    BY <1>1, <1>3, <1>6 DEF Lines
  <2>2. \A k \in 1..Len(p) : k \in 1..Len(q) \/ k = Len(p)
    BY <1>3
  <2>3. CASE Rolls
    BY <1>3, <2>1, <2>2, <2>3
  <2>4. CASE ~Rolls
    <3>1. Lines(c) = {q[k] : k \in 1..Len(q)}
      BY <1>1, <1>2, <2>4 DEF Lines
    <3> HIDE DEF q
    <3>2. Len(p) \in 1..Len(p) /\ \A k \in 1..Len(q) : k \in 1..Len(p) /\ p[k] = q[k]
      BY <1>3
    <3>3. {p[k] : k \in 1..Len(p)} = {q[k] : k \in 1..Len(q)} \cup {p[Len(p)]}
      BY <2>2, <3>2
    <3> QED
      BY <1>3, <2>1, <2>4, <3>1, <3>3
  <2> QED
    BY <2>3, <2>4
<1> QED
  BY <1>1, <1>6, <1>7, <1>8, <1>9, <1>10

\* A fragment not written to.
LEMMA OtherFragment ==
  ASSUME IInv, NEW n \in 1..MaxLine, Write(n), NEW g \in Frags, g # fileFrag'
  PROVE  /\ disk'[g] = disk[g] /\ Last(g)' = Last(g) /\ Lines(g)' = Lines(g)
         /\ disk[g] # Missing => /\ IsPiece(g)' /\ Bytes(g)' = Bytes(g)
<1>1. disk'[g] = disk[g]
  BY Written
<1>2. Last(g)' = Last(g) /\ Lines(g)' = Lines(g)
  BY <1>1 DEF Last, Lines
<1>3. ASSUME disk[g] # Missing PROVE IsPiece(g)' /\ Bytes(g)' = Bytes(g)
  <2>1. /\ Len(written') = Len(written) + 1 /\ Len(written) \in Nat
        /\ \A k \in 0..Len(written) : Upto(k)' = Upto(k)
    BY Written, Appended
  <2>2. /\ IsPiece(g) /\ Last(g) \in 1..Len(written) /\ disk[g][1] \in Nat \ {0}
        /\ Len(disk[g]) \in Nat \ {0} /\ Last(g) = disk[g][1] + Len(disk[g]) - 1
    BY <1>3, PieceLines DEF IInv
  <2>3. IsPiece(g)'
    BY <1>1, <1>2, <2>1, <2>2 DEF IsPiece
  <2>4. disk[g][1] - 1 \in 0..Len(written)
    BY <2>1, <2>2
  <2>5. \A k, l : k = Last(g) /\ l = disk[g][1] - 1 =>
           Bytes(g)' = Upto(k)' - Upto(l)' /\ Bytes(g) = Upto(k) - Upto(l)
    BY <1>1, <1>2, <1>3 DEF Bytes
  <2> QED
    BY <2>1, <2>2, <2>3, <2>4, <2>5
<1> QED
  BY <1>1, <1>2, <1>3

(***************************************************************************)
(* A fragment this process left is one step further behind with each roll, *)
(* and by maxFragSize bytes more.                                          *)
(***************************************************************************)
LEMMA WriteLeavesBehind == ASSUME IInv, NEW n \in 1..MaxLine, Write(n) PROVE LeftBehind'
<1> SUFFICES ASSUME ~skipped, NEW g \in Frags, g # fileFrag',
                    (disk[g] # Missing)', (Last(g) >= first)', NEW l, l = Last(g)
             PROVE  (BytesAfter(Last(g)) >= (Behind(g) - 1) * maxFragSize + fragSize)'
  BY Written DEF LeftBehind
<1> DEFINE L == Len(written)
           m == maxFragSize
<1>1. /\ state = "up" /\ UNCHANGED <<maxFragSize, state, first, skipped>>
      /\ n \in Nat /\ m \in Nat \ {0}
      /\ fileFrag' \in Frags /\ fileFrag' = (IF Rolls THEN NextFrag ELSE fileFrag)
      /\ fragSize' = Size(Rolls, n)
  BY Written
<1>2. /\ Len(written') = L + 1 /\ L \in Nat
      /\ \A k \in 0..L : Upto(k)' = Upto(k) /\ Upto(k) \in Nat
      /\ \A k : k = L + 1 => Upto(k)' = Upto(L) + n
  BY Written, Appended
<1>3. disk[g] # Missing /\ Last(g)' = l /\ l >= first
  BY <1>1, OtherFragment
<1>4. l \in 1..L
  BY <1>3, PieceLines
<1>5. BytesAfter(Last(g))' = BytesAfter(l) + n /\ BytesAfter(l) \in Int
  <2>1. Upto(l)' = Upto(l) /\ Upto(l) \in Nat /\ Upto(L) \in Nat
    BY <1>2, <1>4
  <2>2. \A k : k = Len(written') => Upto(k)' = Upto(L) + n
    BY <1>2
  <2>3. \A k : k = Len(written') => BytesAfter(l)' = Upto(k)' - Upto(l)'
    BY DEF BytesAfter
  <2>4. BytesAfter(Last(g))' = BytesAfter(l)'
    BY <1>3
  <2>5. BytesAfter(l)' = (Upto(L) + n) - Upto(l)
    BY <2>1, <2>2, <2>3
  <2> QED
    BY <1>1, <2>1, <2>4, <2>5 DEF BytesAfter
<1>6. file
  BY <1>1, <1>3, <1>4 DEF IInv, NothingYet, NewLine
<1>7. fragSize \in Nat /\ fileFrag \in Frags
  BY <1>1, <1>6 DEF IInv, TypeOK, CurrentIsLast
<1>8. maxFileFrag \in Nat \ {0}
  BY LogFileAssumption
<1>9. CASE ~Rolls
  <2>1. BytesAfter(l) >= (Behind(g) - 1) * m + fragSize
    BY <1>1, <1>3, <1>6, <1>9 DEF IInv, LeftBehind
  <2>2. Behind(g)' = Behind(g)
    BY <1>1, <1>9 DEF Behind
  <2>3. Behind(g) \in Int
    BY <1>7, <1>8 DEF Behind, Frags
  <2>4. (Behind(g) - 1) * m \in Int
    BY <1>1, <2>3
  <2>5. fragSize' = fragSize + n
    BY <1>1, <1>9 DEF Size
  <2> HIDE DEF m
  <2>6. BytesAfter(l) + n >= (Behind(g) - 1) * m + (fragSize + n)
    BY <1>1, <1>5, <1>7, <2>1, <2>4
  <2> QED
    BY <1>1, <1>5, <2>2, <2>5, <2>6 DEF m
<1>10. CASE Rolls
  <2>1. fragSize >= m /\ fragSize' = n
    BY <1>1, <1>6, <1>10 DEF Rolls, Full, Size, IInv, TypeOK
  <2>2. fileFrag' = IF fileFrag = maxFileFrag - 1 THEN 0 ELSE fileFrag + 1
    BY <1>1, <1>7, <1>10, NextFragIsFrag
  <2>3. CASE g = fileFrag
    <3>1. Behind(g)' = 1
      BY <1>7, <1>8, <2>2, <2>3 DEF Behind, Frags
    <3>2. l = L
      BY <1>1, <1>6, <2>3 DEF IInv, CurrentIsLast
    <3>3. BytesAfter(l) = 0
      BY <1>2, <3>2 DEF BytesAfter
    <3>4. (1 - 1) * m = 0
      BY <1>1
    <3> QED
      BY <1>1, <1>5, <2>1, <3>1, <3>3, <3>4
  <2>4. CASE g # fileFrag
    <3>1. Behind(g)' = Behind(g) + 1 /\ Behind(g) \in Int
      BY <1>7, <1>8, <2>2, <2>4 DEF Behind, Frags
    <3>2. BytesAfter(l) >= (Behind(g) - 1) * m + fragSize
      BY <1>1, <1>3, <1>6, <2>4 DEF IInv, LeftBehind
    <3> DEFINE b == Behind(g)
    <3>3. b \in Int
      BY <3>1
    <3> HIDE DEF b, m
    <3>4. (b + 1 - 1) * m = (b - 1) * m + m /\ (b - 1) * m \in Int
      BY <1>1, <3>3
    <3>5. BytesAfter(l) + n >= (b + 1 - 1) * m + n
      BY <1>1, <1>5, <1>7, <2>1, <3>2, <3>4 DEF b
    <3> QED
      BY <1>1, <1>5, <2>1, <3>1, <3>5 DEF b, m
  <2> QED
    BY <2>3, <2>4
<1> QED
  BY <1>9, <1>10

(***************************************************************************)
(* A line that Write loses is in the fragment furthest behind.             *)
(***************************************************************************)
LEMMA WriteKeepsTheLatest ==
  ASSUME IInv, NEW n \in 1..MaxLine, Write(n) PROVE KeepsTheLatest'
<1> SUFFICES ASSUME ~skipped, NEW k \in first..(Len(written) + 1),
                    ~\E f \in Frags : k \in Lines(f)'
             PROVE  BytesAfter(k)' >= (maxFileFrag - 1) * maxFragSize
  BY Written, Appended DEF KeepsTheLatest
<1> DEFINE L == Len(written)
           m == maxFragSize
           c == fileFrag'
<1>1. /\ state = "up" /\ n \in Nat /\ m \in Nat \ {0}
      /\ fileFrag' \in Frags /\ fileFrag' = (IF Rolls THEN NextFrag ELSE fileFrag)
      /\ first \in Nat \ {0} /\ L \in Nat
  <2>1. first \in Nat \ {0} /\ L \in Nat
    BY DEF IInv, TypeOK
  <2> QED
    BY <2>1, Written
<1>2. /\ Len(written') = L + 1
      /\ \A l \in 0..L : Upto(l)' = Upto(l) /\ Upto(l) \in Nat
      /\ \A l : l = L + 1 => Upto(l)' = Upto(L) + n
  BY Written, Appended
<1>3. maxFileFrag \in Nat \ {0}
  BY LogFileAssumption
<1>4. \A g : g = c => Lines(g)' = (IF Rolls THEN {} ELSE Lines(g)) \cup {L + 1}
  BY CurrentFragment
<1>5. k \in first..L
  BY <1>1, <1>4
<1>6. BytesAfter(k)' = BytesAfter(k) + n /\ BytesAfter(k) \in Int
  <2>1. Upto(k)' = Upto(k) /\ Upto(k) \in Nat /\ Upto(L) \in Nat
    BY <1>1, <1>2, <1>5
  <2>2. \A l : l = Len(written') => Upto(l)' = Upto(L) + n
    BY <1>2
  <2>3. \A l : l = Len(written') => BytesAfter(k)' = Upto(l)' - Upto(k)'
    BY DEF BytesAfter
  <2>4. BytesAfter(k)' = (Upto(L) + n) - Upto(k)
    BY <2>1, <2>2, <2>3
  <2> QED
    BY <1>1, <2>1, <2>4 DEF BytesAfter
<1>7. (maxFileFrag - 1) * m \in Int
  BY <1>1, <1>3
<1>8. SUFFICES BytesAfter(k) >= (maxFileFrag - 1) * m
  BY <1>1, <1>6, <1>7
<1>9. CASE ~\E f \in Frags : k \in Lines(f)
  BY <1>1, <1>5, <1>9 DEF IInv, KeepsTheLatest
<1>10. ASSUME NEW g \in Frags, k \in Lines(g) PROVE BytesAfter(k) >= (maxFileFrag - 1) * m
  <2>1. g = c /\ Rolls
    BY <1>4, <1>10, OtherFragment
  <2>2. disk[g] # Missing
    BY <1>10 DEF Lines
  <2>3. k <= Last(g) /\ Last(g) \in 1..L
    BY <1>1, <1>5, <1>10, <2>2, PieceLines
  <2>4. Last(g) >= first
    BY <1>1, <1>5, <2>3
  <2>5. BytesAfter(k) >= BytesAfter(Last(g)) /\ BytesAfter(Last(g)) \in Int
    <3>1. k \in 0..L /\ Last(g) \in 0..L
      BY <1>1, <1>5, <2>3
    <3>2. Upto(k) <= Upto(Last(g))
      BY <2>3, <3>1 DEF IInv, WrittenGrows
    <3>3. Upto(k) \in Nat /\ Upto(Last(g)) \in Nat /\ Upto(L) \in Nat
      BY <1>1, <1>2, <3>1
    <3> QED
      BY <3>2, <3>3 DEF BytesAfter
  <2>6. file
    BY <1>1, <1>5 DEF IInv, NothingYet, NewLine
  <2>7. fragSize \in Nat /\ fileFrag \in Frags /\ fragSize >= m
    BY <1>1, <2>1, <2>6 DEF IInv, TypeOK, CurrentIsLast, Rolls, Full
  <2>8. g = IF fileFrag = maxFileFrag - 1 THEN 0 ELSE fileFrag + 1
    BY <1>1, <2>1, <2>7, NextFragIsFrag
  <2>9. CASE g = fileFrag
    <3>1. maxFileFrag - 1 = 0
      BY <1>3, <2>7, <2>8, <2>9 DEF Frags
    <3>2. 0 * m = 0
      BY <1>1
    <3>3. BytesAfter(Last(g)) = 0
      <4>1. Last(g) = L
        BY <1>1, <2>6, <2>9 DEF IInv, CurrentIsLast
      <4> QED
        BY <1>1, <1>2, <4>1 DEF BytesAfter
    <3> QED
      BY <1>6, <2>5, <3>1, <3>2, <3>3
  <2>10. CASE g # fileFrag
    <3>1. Behind(g) = maxFileFrag - 1
      BY <1>3, <2>7, <2>8, <2>10 DEF Behind, Frags
    <3>2. BytesAfter(Last(g)) >= (maxFileFrag - 1 - 1) * m + fragSize
      BY <1>1, <2>2, <2>4, <2>6, <2>10, <3>1 DEF IInv, LeftBehind
    <3> DEFINE b == maxFileFrag - 1
    <3>3. b \in Int
      BY <1>3
    <3> HIDE DEF b, m
    <3>4. b * m = (b - 1) * m + m /\ (b - 1) * m \in Int
      BY <1>1, <3>3
    <3> QED
      BY <1>1, <1>6, <2>5, <2>7, <3>2, <3>4 DEF b
  <2> QED
    BY <2>9, <2>10
<1> QED
  BY <1>9, <1>10

LEMMA WriteIInv == ASSUME IInv, NEW n \in 1..MaxLine, Write(n) PROVE IInv'
<1>1. /\ state = "up" /\ file' = TRUE /\ maxFragSize \in Nat \ {0} /\ n \in Nat /\ n <= MaxLine
      /\ UNCHANGED <<maxFragSize, state, first, skipped>>
      /\ written' \in Seq(Nat) /\ Len(written') = Len(written) + 1 /\ Len(written) \in Nat
      /\ fileFrag' \in Frags /\ disk' \in [Frags -> Seq(Nat)]
      /\ fragSize' = Size(Rolls, n)
  BY Written, Appended
<1>2. \A g \in Frags : g # fileFrag' =>
        /\ disk'[g] = disk[g] /\ Last(g)' = Last(g) /\ Lines(g)' = Lines(g)
        /\ disk[g] # Missing => IsPiece(g)' /\ Bytes(g)' = Bytes(g)
  BY OtherFragment
<1>3. \A c : c = fileFrag' =>
        /\ c \in Frags /\ (disk[c] # Missing)' /\ IsPiece(c)'
        /\ Last(c)' = Len(written) + 1 /\ Bytes(c)' = fragSize'
        /\ Lines(c)' = (IF Rolls THEN {} ELSE Lines(c)) \cup {Len(written) + 1}
  BY CurrentFragment
<1>4. fragSize' \in Nat /\ fragSize' < maxFragSize + MaxLine
  <2>1. maxFragSize \in Int /\ fragSize \in Nat /\ MaxLine \in Nat \ {0}
    BY LogFileAssumption DEF IInv, TypeOK
  <2>2. ~Rolls => fragSize < maxFragSize
    BY <2>1 DEF Rolls, Full
  <2> QED
    BY <1>1, <2>1, <2>2 DEF Size
<1>5. TypeOK'
  <2>1. first' \in 1..(Len(written') + 1)
    BY <1>1 DEF IInv, TypeOK
  <2>2. fileFrag' \in -1..(maxFileFrag - 1)
    BY <1>1, LogFileAssumption DEF Frags
  <2>3. file' \in BOOLEAN /\ skipped' \in BOOLEAN
    BY <1>1, Zenon DEF IInv, TypeOK
  <2>4. state' \in {"off", "up", "closed"} /\ maxFragSize' \in Int
    BY <1>1 DEF IInv, TypeOK
  <2> QED
    BY <1>1, <1>4, <2>1, <2>2, <2>3, <2>4 DEF TypeOK
<1>6. (\A f \in Frags : disk[f] # Missing => IsPiece(f))'
  BY <1>2, <1>3
<1>7. WrittenGrows'
  BY Written, Appended
<1>8. CurrentIsLast'
  <2>1. SUFFICES ASSUME NEW c, c = fileFrag'
                 PROVE  c \in Frags /\ disk'[c] # Missing /\ Last(c)' = Len(written')
    BY DEF CurrentIsLast
  <2> QED
    BY <1>1, <1>3, <2>1
<1>9. NothingYet'
  BY <1>1 DEF NothingYet
<1>10. FragmentsBounded'
  <2>1. ASSUME NEW f \in Frags, disk'[f] # Missing
        PROVE  Bytes(f)' < maxFragSize + MaxLine
    <3>1. CASE f = fileFrag'
      BY <1>3, <1>4, <3>1
    <3>2. CASE f # fileFrag'
      BY <1>2, <2>1, <3>2 DEF IInv, FragmentsBounded
    <3> QED
      BY <3>1, <3>2
  <2>2. ASSUME NEW c, c = fileFrag' PROVE fragSize' = Bytes(c)'
    BY <1>3, <2>2
  <2>3. fragSize' = Bytes(fileFrag)'
    BY <2>2
  <2> QED
    BY <1>1, <2>1, <2>3 DEF FragmentsBounded
<1>11. FragmentsAreWhole'
  <2>1. ASSUME NEW f \in Frags, NEW k \in 2..Len(disk'[f])
        PROVE  disk'[f][k] = disk'[f][k - 1] + 1
    <3>1. CASE disk'[f] = Missing
      BY <3>1 DEF Missing
    <3>2. CASE disk'[f] # Missing
      <4> DEFINE q == disk'[f]
      <4>1. /\ q \in Seq(Nat) /\ Len(q) > 0 /\ q[1] \in Nat /\ Len(q) \in Nat
            /\ \A l \in 1..Len(q) : q[l] = q[1] + l - 1
        BY <1>1, <1>6, <3>2 DEF IsPiece
      <4> HIDE DEF q
      <4>2. q[k] = q[k - 1] + 1
        <5>1. k \in 2..Len(q)
          BY DEF q
        <5>2. k \in 1..Len(q) /\ k - 1 \in 1..Len(q)
          BY <4>1, <5>1
        <5>3. q[k] = q[1] + k - 1 /\ q[k - 1] = q[1] + (k - 1) - 1
          BY <4>1, <5>2
        <5>4. k \in Int /\ q[1] \in Int
          BY <4>1, <5>1
        <5>5. \A a, b \in Int : a + b - 1 = (a + (b - 1) - 1) + 1
          OBVIOUS
        <5> QED
          BY <5>3, <5>4, <5>5
      <4> QED
        BY <4>2 DEF q
    <3> QED
      BY <3>1, <3>2
  <2>2. \A f \in Frags : Lines(f) \subseteq 1..Len(written)
    <3> SUFFICES ASSUME NEW f \in Frags, disk[f] # Missing PROVE Lines(f) \subseteq 1..Len(written)
      BY DEF Lines
    <3>1. Lines(f) = disk[f][1]..Last(f) /\ disk[f][1] \in Nat \ {0} /\ Last(f) \in 1..Len(written)
      BY PieceLines
    <3>2. \A a, b, L \in Nat : a # 0 /\ b <= L => a..b \subseteq 1..L
      OBVIOUS
    <3> QED
      BY <1>1, <3>1, <3>2
  <2>3. Len(written) + 1 \notin 1..Len(written)
    BY <1>1
  <2>4. ASSUME NEW f \in Frags, NEW g \in Frags, f # g PROVE Lines(f)' \cap Lines(g)' = {}
    <3>1. Lines(f) \cap Lines(g) = {}
      BY <2>4 DEF IInv, FragmentsAreWhole
    <3>2. CASE f = fileFrag'
      BY <1>2, <1>3, <2>2, <2>3, <2>4, <3>1, <3>2
    <3>3. CASE g = fileFrag'
      BY <1>2, <1>3, <2>2, <2>3, <2>4, <3>1, <3>3
    <3>4. CASE f # fileFrag' /\ g # fileFrag'
      BY <1>2, <3>1, <3>4
    <3> QED
      BY <3>2, <3>3, <3>4
  <2> QED
    BY <2>1, <2>4 DEF FragmentsAreWhole
<1> QED
  BY <1>1, <1>5, <1>6, <1>7, <1>8, <1>9, <1>10, <1>11, WriteLeavesBehind, WriteKeepsTheLatest
  DEF IInv

LEMMA NextIInv == IInv /\ [Next]_vars => IInv'
<1> SUFFICES ASSUME IInv, [Next]_vars PROVE IInv'
  OBVIOUS
<1>1. CASE NewRollingFile
  BY <1>1, NewRollingFileIInv
<1>2. CASE OpenFails
  BY <1>2, OpenFailsIInv
<1>3. CASE Close
  <2>1. file' \in BOOLEAN
    BY <1>3, Zenon DEF Close
  <2> QED
    BY <1>3, <2>1, StoppedIInv DEF Close
<1>4. CASE End
  BY <1>4, StoppedIInv DEF End, IInv, TypeOK
<1>5. CASE \E n \in 1..MaxLine : Write(n)
  BY <1>5, WriteIInv
<1>6. CASE \E f \in Frags : Remove(f)
  BY <1>6, RemoveIInv
<1>7. CASE UNCHANGED vars
  <2>1. FragmentsBounded'
    BY <1>7, FilesKept DEF IInv, FragmentsBounded, Bytes, Last, Upto, vars
  <2>2. KeepsTheLatest' /\ LeftBehind'
    BY <1>7 DEF IInv, KeepsTheLatest, LeftBehind, Lines, BytesAfter, Upto, Last, Behind, vars
  <2>3. TypeOK' /\ CurrentIsLast' /\ NothingYet'
    BY <1>7 DEF IInv, TypeOK, CurrentIsLast, NothingYet, NewLine, Last, vars
  <2> QED
    BY <1>7, <2>1, <2>2, <2>3, FilesKept DEF IInv, vars
<1> QED
  BY <1>1, <1>2, <1>3, <1>4, <1>5, <1>6, <1>7 DEF Next

THEOREM LogInvariant == Spec => []IInv
  BY InitIInv, NextIInv, PTL DEF Spec

(***************************************************************************)
(* The log takes a bounded part of the disk, and rollingFile.fragSize is   *)
(* the length of the file it is about, through restarts and failures and   *)
(* whatever --log-filesize overflowed to.                                  *)
(***************************************************************************)
THEOREM LogIsBounded == Spec => []FragmentsBounded
<1>1. IInv => FragmentsBounded
  BY DEF IInv
<1> QED
  BY <1>1, LogInvariant, PTL

(***************************************************************************)
(* roll never leaves a hole in a fragment, and never has a line in two.    *)
(***************************************************************************)
THEOREM LogIsWhole == Spec => []FragmentsAreWhole
<1>1. IInv => FragmentsAreWhole
  BY DEF IInv
<1> QED
  BY <1>1, LogInvariant, PTL

(***************************************************************************)
(* A process whose fragments could all be opened loses a line only to      *)
(* maxFragSize newer bytes for each fragment but one, from whatever        *)
(* fragment NewRollingFile made it start.                                  *)
(***************************************************************************)
THEOREM LatestLinesAreKept == Spec => []KeepsTheLatest
<1>1. IInv => KeepsTheLatest
  BY DEF IInv
<1> QED
  BY <1>1, LogInvariant, PTL

-----------------------------------------------------------------------------
LEMMA ConnInitIInv == ConnInit => ConnIInv
BY DEF ConnInit, NewConnBuilder, ConnIInv, ConnTypeOK, NoCallOnClosed, OneConnection, Running

\* With the lock and no reader, whatever a reset does leaves one connection.
LEMMA ResetIInv ==
  ASSUME ConnIInv, NEW g, resetConnection(g), Running, UNCHANGED on,
         pc' \in [Users -> {"idle", "RLock", "call", "reset"}],
         \A u \in Users : pc'[u] = "call" => pc[u] = "call"
  PROVE  ConnIInv'
<1>1. \A u \in Users : pc'[u] # "call"
  BY DEF resetConnection, AllUnlocked, Readers
<1>2. connection' \in Conns /\ open' \subseteq Conns
  BY DEF ConnIInv, ConnTypeOK, resetConnection, Build, builder
<1>3. OneConnection'
  BY DEF ConnIInv, OneConnection, Running, resetConnection, Build, builder
<1> QED
  BY <1>1, <1>2, <1>3 DEF ConnIInv, ConnTypeOK, NoCallOnClosed

\* The steps of a call, up to its reset.
LEMMA CallIInv ==
  ASSUME ConnIInv, NEW u \in Users, Start(u) \/ RLock(u) \/ Call(u) \/ LockForRetry(u)
  PROVE  ConnIInv'
<1> USE DEF ConnIInv, ConnTypeOK, NoCallOnClosed, OneConnection, Running, builder, calls
<1>1. CASE Start(u)
  BY <1>1 DEF Start
<1>2. CASE RLock(u)
  BY <1>2 DEF RLock
<1>3. ASSUME NEW results, NEW then \in {"idle", "reset"}, Return(u, results, then)
      PROVE  ConnIInv'
  <2>1. pc' \in [Users -> {"idle", "RLock", "call", "reset"}]
    BY <1>3 DEF Return
  <2>2. \A v \in Users : pc'[v] = "call" => v # u /\ pc[v] = "call"
    BY <1>3 DEF Return
  <2>3. on' \in [Users -> Conns \cup {None}] /\ \A v \in Users : v # u => on'[v] = on[v]
    BY <1>3 DEF Return
  <2> QED
    BY <1>3, <2>1, <2>2, <2>3 DEF Return
<1>4. CASE Call(u)
  BY <1>3, <1>4 DEF Call, SafeRead, SafeWrite, UnsafeRead, UnsafeWrite, UnsafeCall
<1>5. CASE LockForRetry(u)
  BY <1>5 DEF LockForRetry, Lock
<1> QED
  BY <1>1, <1>2, <1>4, <1>5

\* The resets, of a safe call and of a goroutine of an unsafe one.
LEMMA AfterCallIInv ==
  ASSUME ConnIInv,
         LateReset \/ LockLate \/ \E u \in Users : Retry(u) \/ GiveUp(u)
  PROVE  ConnIInv'
<1>1. ASSUME NEW u \in Users, Retry(u) PROVE ConnIInv'
  <2>1. pc' \in [Users -> {"idle", "RLock", "call", "reset"}]
    BY <1>1 DEF Retry, Again, ConnIInv, ConnTypeOK
  <2>2. \A v \in Users : pc'[v] = "call" => pc[v] = "call"
    BY <1>1 DEF Retry, Again, ConnIInv, ConnTypeOK
  <2> QED
    BY <1>1, <2>1, <2>2, ResetIInv DEF Retry
<1>2. ASSUME NEW u \in Users, GiveUp(u) PROVE ConnIInv'
  BY <1>2 DEF GiveUp, ConnIInv, ConnTypeOK, NoCallOnClosed, OneConnection, Running, builder, calls
<1>3. CASE LateReset
  BY <1>3, ResetIInv DEF LateReset, calls, ConnIInv, ConnTypeOK
<1>4. CASE LockLate
  BY <1>4 DEF LockLate, Lock, ConnIInv, ConnTypeOK, NoCallOnClosed, OneConnection, Running,
              builder, calls
<1> QED
  BY <1>1, <1>2, <1>3, <1>4

LEMMA ConnStepIInv == ConnIInv /\ [ConnNext]_connVars => ConnIInv'
<1> SUFFICES ASSUME ConnIInv, [ConnNext]_connVars PROVE ConnIInv'
  OBVIOUS
<1>1. CASE \E u \in Users : Start(u) \/ RLock(u) \/ Call(u) \/ LockForRetry(u)
  BY <1>1, CallIInv
<1>2. CASE LateReset \/ LockLate \/ \E u \in Users : Retry(u) \/ GiveUp(u)
  BY <1>2, AfterCallIInv
<1>3. CASE Break \/ Mend \/ Tick \/ UNCHANGED connVars
  BY <1>3 DEF Break, Mend, Tick, connVars, ConnIInv, ConnTypeOK, NoCallOnClosed, OneConnection,
              Running, builder, calls
<1> QED
  BY <1>1, <1>2, <1>3 DEF ConnNext

(***************************************************************************)
(* The inductive invariant holds in every reachable state.                 *)
(***************************************************************************)
THEOREM ZkConnInvariant == ConnSpec => []ConnIInv
  BY ConnInitIInv, ConnStepIInv, PTL DEF ConnSpec

(***************************************************************************)
(* A call in progress is on the builder's connection, and that is open.    *)
(***************************************************************************)
THEOREM CallsAreOnOpenConnections == ConnSpec => []NoCallOnClosed
<1>1. ConnIInv => NoCallOnClosed
  BY DEF ConnIInv
<1> QED
  BY <1>1, ZkConnInvariant, PTL

(***************************************************************************)
(* While the process runs one connection is open, and both instances have  *)
(* it.                                                                     *)
(***************************************************************************)
THEOREM OneConnectionIsOpen == ConnSpec => []OneConnection
<1>1. ConnIInv => OneConnection
  BY DEF ConnIInv
<1> QED
  BY <1>1, ZkConnInvariant, PTL
=============================================================================
