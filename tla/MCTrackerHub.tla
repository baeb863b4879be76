---------------------------- MODULE MCTrackerHub ----------------------------
(* Instances of TrackerHub.  Each peer has at most one connection; the      *)
(* peers without one are there to be seen.                                  *)
EXTENDS TrackerHub, TLC

CONSTANTS p1, p2, p3, p4, k1, k2, k3

MCOwner == [k \in Sockets |-> CASE k = k1 -> p1 [] k = k2 -> p2 [] k = k3 -> p3]
\* The peers p1 and p2 are interchangeable, together with their connections.
Symmetry == {[x \in {p1, p2, k1, k2} |-> x],
             [x \in {p1, p2, k1, k2} |->
                CASE x = p1 -> p2 [] x = p2 -> p1 [] x = k1 -> k2 [] x = k2 -> k1]}
=============================================================================
