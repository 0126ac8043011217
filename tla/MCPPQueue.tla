------------------------------ MODULE MCPPQueue ------------------------------
(***************************************************************************)
(* A small instance of PPQueue for TLC: three workers is the least at      *)
(* which the heap has a left and a right child, and one object more than   *)
(* there are workers leaves room for a duplicate to show.                  *)
(***************************************************************************)
EXTENDS PPQueue, TLC

CONSTANTS w1, w2, w3

MCWorkers == {w1, w2, w3}
MCRefs == 1..4

\* The safety run treats workers alike: no definition tells them apart.
Symmetry == Permutations(MCWorkers)
=============================================================================
