----------------------------- MODULE MCLogFile -----------------------------
(***************************************************************************)
(* A small instance of LogFile for TLC.  A word has eight bits and a KB is *)
(* four bytes: 65 KB wrap round to four bytes, and 2 GB and 2.5 GB are out *)
(* of range.  The lines go round the ring twice.                           *)
(***************************************************************************)
EXTENDS LogFile

MCOptions == [halves : {1, 2, 130}, unit : {"KB"}] \cup [halves : {4, 5}, unit : {"GB"}]
=============================================================================
