--------------------------- MODULE MCBackSockets ---------------------------
(***************************************************************************)
(* A small instance of BackSockets for TLC.  Three addresses make a        *)
(* rotation in which the order can go wrong; three sockets can be three    *)
(* active ones, or one active and two waiting, where a removal moves one   *)
(* of them.  For the liveness run one address, listed again while its old  *)
(* sockets wait, is enough to make the unlocked test go wrong.             *)
(***************************************************************************)
EXTENDS BackSockets, TLC

CONSTANTS a1, a2, a3, s1, s2, s3

MCAddrs == {a1, a2, a3}
MCIds == {s1, s2, s3}

MCOneAddr == {a1}
MCTwoAddrs == {a1, a2}

\* For the safety run: no definition tells addresses or sockets apart.
Symmetry == Permutations(MCAddrs) \cup Permutations(MCIds)
=============================================================================
