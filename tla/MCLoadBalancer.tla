--------------------------- MODULE MCLoadBalancer ---------------------------
(***************************************************************************)
(* Small instances of LoadBalancer for TLC.  One worker with the capacity  *)
(* for one request and two requests is the least at which a heartbeat can  *)
(* be overtaken by a request, a reply by a STOP and a request by another.  *)
(***************************************************************************)
EXTENDS LoadBalancer, TLC

CONSTANTS w1, r1, r2

MCWorkers == {w1}
MCRequests == {r1, r2}

\* For the runs without liveness: no definition tells requests apart.
Symmetry == Permutations(MCRequests)
=============================================================================
