----------------------------- MODULE MCDiscovery -----------------------------
(***************************************************************************)
(* Small instances of Discovery for TLC: one service with two balancers    *)
(* that come and go while its watcher reads, another with none, added      *)
(* while the first is in use.                                              *)
(***************************************************************************)
EXTENDS Discovery

CONSTANTS s1, s2, a1, a2

MCServices == {s1, s2}
MCAddrs == [s \in MCServices |-> IF s = s1 THEN {a1, a2} ELSE {}]
=============================================================================
