--------------------------- MODULE MCRegistration ---------------------------
(***************************************************************************)
(* A small instance of Registration for TLC: three sessions are the        *)
(* current one, the expired one it replaces, and that of an earlier        *)
(* process.                                                                *)
(***************************************************************************)
EXTENDS Registration, TLC

CONSTANTS s1, s2, s3

MCSessions == {s1, s2, s3}
=============================================================================
