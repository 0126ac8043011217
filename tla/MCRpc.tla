------------------------------- MODULE MCRpc -------------------------------
(***************************************************************************)
(* A small instance of Rpc for TLC: two proxies, the first with time       *)
(* stamps, whose clients have the same name; a client of the first calls   *)
(* twice, and a service that is not there; two balancers of a service with *)
(* a worker each.  The process ids of the proxies are distinct.            *)
(***************************************************************************)
EXTENDS Rpc

CONSTANTS c1, c2, p1, p2, b1, b2, w1, w2, r1, r2, r3, typo, other, same

MCHome == [c \in {c1, c2} |-> IF c = c1 THEN p1 ELSE p2]
MCName == [c \in {c1, c2} |-> same]
MCCaller == [r \in {r1, r2, r3} |-> IF r = r2 THEN c2 ELSE c1]
MCWants == [r \in {r1, r2, r3} |-> IF r = r3 THEN other ELSE typo]
MCServes == [b \in {b1, b2} |-> typo]
MCOwner == [w \in {w1, w2} |-> IF w = w1 THEN b1 ELSE b2]
\* The first proxy may get a new process id.
MCPids == [p \in {p1, p2} |-> IF p = p1 THEN {1, 2} ELSE {3}]

\* In its place, two hosts whose proxies may have equal process ids: TLC then
\* refutes RepliesReachTheirClient and CallsAreAnswered, as the README says.
MCSamePids == [p \in {p1, p2} |-> {1, 2}]

MCProfile == [p \in {p1, p2} |-> p = p1]
=============================================================================
