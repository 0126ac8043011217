------------------------------- MODULE LogFile -------------------------------
(***************************************************************************)
(* The log of either program: utils/log/rolling.go, with the size that     *)
(* main reads by utils/bytesize/bytesize.go.  The log is a ring of         *)
(* maxFileFrag files, fragments of about maxFragSize bytes.  It outlives   *)
(* the process: a restart has nothing but the files that are there to tell *)
(* where to go on.                                                         *)
(*                                                                         *)
(* rollingFile holds its mutex for a whole Write or Close, so each is one  *)
(* action.  Files are external: one may be impossible to open.             *)
(***************************************************************************)
EXTENDS Integers, Sequences

CONSTANTS
  maxFileFrag,  \* 2 in both programs
  Options,      \* values of --log-filesize: records of a number and a unit
  UnitBits,     \* a unit is this many bits more than the one before: 10
  Half,         \* 2^63: an int64 is in -Half..(Half - 1)
  MaxLine,      \* bound: the bytes of a line
  MaxLines,     \* bound: the lines written
  MaxStops      \* bound: the times the process ends, or a file cannot be opened

ASSUME LogFileAssumption ==
  /\ maxFileFrag \in Nat \ {0} /\ MaxLine \in Nat \ {0}
  /\ UnitBits \in Nat /\ Half \in Nat \ {0} /\ MaxLines \in Nat /\ MaxStops \in Nat
  /\ Options \subseteq [halves : Nat, unit : {"B", "KB", "MB", "GB"}]

VARIABLES
  maxFragSize,
  state,      \* of the process: "off", "up", "closed" (rollingFile.closed)
  fileFrag, file, fragSize,  \* of rollingFile: file is whether one is open
  disk,       \* each fragment: Missing, or the lines in it
  written,    \* history: written[k] is the bytes of the lines up to k, of all processes
  first,      \* history: the first line of this process
  skipped,    \* history: a fragment could not be opened in this process
  stops

vars == <<maxFragSize, state, fileFrag, file, fragSize, disk, written, first, skipped, stops>>

Frags == 0..(maxFileFrag - 1)
Missing == <<0>>
NewLine == Len(written) + 1
Upto(k) == IF k = 0 THEN 0 ELSE written[k]

-----------------------------------------------------------------------------
\* An int64 holds what is left of a product, and of a float too large for it,
\* on amd64, the least there is.
Wrapped(n) == ((n + Half) % (2 * Half)) - Half
Truncated(n) == IF n < Half THEN n ELSE -Half

UnitSize(unit) ==
  2 ^ (UnitBits * CASE unit = "B" -> 0 [] unit = "KB" -> 1 [] unit = "MB" -> 2 [] unit = "GB" -> 3)

\* A number is a half count: "1.5" is 3 halves.  ParseInt refuses more than
\* an int64 holds; main panics then, as it does of a size of 0.
Parse(option) ==
  LET whole == option.halves \div 2
      size == UnitSize(option.unit)
  IN IF option.halves % 2 = 1 THEN Truncated((option.halves * size) \div 2)
     ELSE IF whole < Half THEN Wrapped(size * whole) ELSE 0

Init ==
  /\ \E option \in Options : maxFragSize = Parse(option)
  /\ state = "off"
  /\ fileFrag = 0 /\ file = FALSE /\ fragSize = 0
  /\ disk = [f \in Frags |-> Missing]
  /\ written = <<>> /\ first = 1 /\ skipped = FALSE /\ stops = 0

\* f is the first fragment that is missing, or 0 and none is.
FirstMissing(f) ==
  \/ disk[f] = Missing /\ \A g \in Frags : g < f => disk[g] # Missing
  \/ f = 0 /\ \A g \in Frags : disk[g] # Missing

NewRollingFile ==
  /\ state = "off"
  /\ maxFragSize > 0
  /\ state' = "up"
  /\ \E f \in Frags : FirstMissing(f) /\ fileFrag' = f - 1
  /\ file' = FALSE /\ fragSize' = 0
  /\ first' = NewLine /\ skipped' = FALSE
  /\ UNCHANGED <<maxFragSize, disk, written, stops>>

-----------------------------------------------------------------------------
\* Mutant: the file is closed, and the next opened, a write too early.
FullEarly == fragSize + MaxLine >= maxFragSize

Full == fragSize >= maxFragSize

Rolls == ~file \/ Full
NextFrag == (fileFrag + 1) % maxFileFrag

\* Mutant: the file is opened to append to it.
OpenedToAppend(f) == IF disk[f] = Missing THEN <<>> ELSE disk[f]

\* O_TRUNC.
Opened(f) == <<>>

\* Mutant: fragSize is kept when the fragment changes.
SizeKept(rolls, n) == fragSize + n

Size(rolls, n) == IF rolls THEN n ELSE fragSize + n

(***************************************************************************)
(* Write, of n bytes: fewer than the line has if the disk is full.         *)
(***************************************************************************)
Write(n) ==
  /\ state = "up"
  /\ Len(written) < MaxLines
  /\ LET frag == IF Rolls THEN NextFrag ELSE fileFrag
         lines == IF Rolls THEN Opened(frag) ELSE disk[frag]
     IN /\ fileFrag' = frag
        /\ disk' = [disk EXCEPT ![frag] = Append(lines, NewLine)]
  /\ file' = TRUE
  /\ fragSize' = Size(Rolls, n)
  /\ written' = Append(written, Upto(Len(written)) + n)
  /\ UNCHANGED <<maxFragSize, state, first, skipped, stops>>

\* The next fragment cannot be opened: the line is dropped, and the next
\* Write goes on to the fragment after it.
OpenFails ==
  /\ state = "up" /\ Rolls
  /\ stops < MaxStops /\ stops' = stops + 1
  /\ fileFrag' = NextFrag
  /\ file' = FALSE /\ fragSize' = 0
  /\ skipped' = TRUE
  /\ UNCHANGED <<maxFragSize, state, disk, written, first>>

Close ==
  /\ state = "up"
  /\ state' = "closed" /\ file' = FALSE
  /\ UNCHANGED <<maxFragSize, fileFrag, fragSize, disk, written, first, skipped, stops>>

\* The process exits, or is killed.
End ==
  /\ state # "off"
  /\ stops < MaxStops /\ stops' = stops + 1
  /\ state' = "off"
  /\ UNCHANGED <<maxFragSize, fileFrag, file, fragSize, disk, written, first, skipped>>

\* An operator removes a fragment of a process that is not running.
Remove(f) ==
  /\ state = "off"
  /\ disk[f] # Missing
  /\ disk' = [disk EXCEPT ![f] = Missing]
  /\ UNCHANGED <<maxFragSize, state, fileFrag, file, fragSize, written, first, skipped, stops>>

Next ==
  \/ NewRollingFile \/ OpenFails \/ Close \/ End
  \/ \E n \in 1..MaxLine : Write(n)
  \/ \E f \in Frags : Remove(f)

Spec == Init /\ [][Next]_vars

-----------------------------------------------------------------------------
Lines(f) == IF disk[f] = Missing THEN {} ELSE {disk[f][k] : k \in DOMAIN disk[f]}
Last(f) == disk[f][Len(disk[f])]

\* Of a fragment of lines that follow each other, as FragmentsAreWhole says.
Bytes(f) == IF disk[f] = Missing THEN 0 ELSE Upto(Last(f)) - Upto(disk[f][1] - 1)

(***************************************************************************)
(* The log takes a bounded part of the disk: no fragment is longer than    *)
(* the limit by a line or more, and what rollingFile takes for the length  *)
(* of the current one is its length, through restarts, failures to open    *)
(* and sizes that wrapped round to something positive.                     *)
(***************************************************************************)
FragmentsBounded ==
  /\ \A f \in Frags : disk[f] # Missing => Bytes(f) < maxFragSize + MaxLine
  /\ state = "up" /\ file => fragSize = Bytes(fileFrag)

(***************************************************************************)
(* Each fragment is a piece of the log with nothing left out: its lines    *)
(* follow each other as they were written, and none is in two fragments.   *)
(***************************************************************************)
FragmentsAreWhole ==
  /\ \A f \in Frags : \A k \in 2..Len(disk[f]) : disk[f][k] = disk[f][k - 1] + 1
  /\ \A f, g \in Frags : f # g => Lines(f) \cap Lines(g) = {}

(***************************************************************************)
(* The latest lines of a process are there: as long as every fragment      *)
(* could be opened, a line is only gone once maxFragSize bytes for each    *)
(* other fragment were written after it, wherever in the ring the process  *)
(* started.                                                                *)
(***************************************************************************)
BytesAfter(k) == Upto(Len(written)) - Upto(k)

KeepsTheLatest ==
  state = "up" /\ ~skipped =>
    \A k \in first..Len(written) :
      \/ \E f \in Frags : k \in Lines(f)
      \/ BytesAfter(k) >= (maxFileFrag - 1) * maxFragSize
-----------------------------------------------------------------------------
(***************************************************************************)
(* The inductive invariant.  The fragments say enough of the log by their  *)
(* first and last lines; the fragments of this process that were left are  *)
(* as far behind in bytes as they are in the ring.                         *)
(***************************************************************************)
TypeOK ==
  /\ maxFragSize \in Int
  /\ state \in {"off", "up", "closed"}
  /\ fileFrag \in -1..(maxFileFrag - 1)
  /\ file \in BOOLEAN /\ skipped \in BOOLEAN
  /\ fragSize \in Nat
  /\ disk \in [Frags -> Seq(Nat)]
  /\ written \in Seq(Nat)
  /\ first \in 1..(Len(written) + 1)

\* The lines of a fragment are an interval of those written.
IsPiece(f) ==
  /\ Len(disk[f]) > 0
  /\ disk[f][1] > 0
  /\ Last(f) <= Len(written)
  /\ \A k \in 1..Len(disk[f]) : disk[f][k] = disk[f][1] + k - 1

WrittenGrows == \A j, k \in 0..Len(written) : j <= k => Upto(j) <= Upto(k)

CurrentIsLast ==
  state = "up" /\ file =>
    /\ fileFrag \in Frags /\ disk[fileFrag] # Missing
    /\ Last(fileFrag) = Len(written)

NothingYet == state = "up" /\ ~skipped /\ ~file => first = NewLine

Behind(f) == IF f < fileFrag THEN fileFrag - f ELSE fileFrag - f + maxFileFrag

LeftBehind ==
  state = "up" /\ ~skipped /\ file =>
    \A f \in Frags :
      f # fileFrag /\ disk[f] # Missing /\ Last(f) >= first =>
        BytesAfter(Last(f)) >= (Behind(f) - 1) * maxFragSize + fragSize

IInv ==
  /\ TypeOK
  /\ state # "off" => maxFragSize > 0
  /\ \A f \in Frags : disk[f] # Missing => IsPiece(f)
  /\ WrittenGrows
  /\ CurrentIsLast
  /\ NothingYet
  /\ LeftBehind
  /\ FragmentsBounded
  /\ FragmentsAreWhole
  /\ KeepsTheLatest
=============================================================================
