------------------------------ MODULE MCZkConn ------------------------------
(***************************************************************************)
(* A small instance of ZkConn for TLC: two users of the safe instance and  *)
(* one of the unsafe, so that two resets of one broken connection follow   *)
(* each other, and a third comes late.  Two retries stand for ten.         *)
(***************************************************************************)
EXTENDS ZkConn

CONSTANTS u1, u2, u3, c1, c2
=============================================================================
