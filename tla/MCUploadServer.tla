--------------------------- MODULE MCUploadServer ---------------------------
(* Instances of UploadServer.  There are two sizes of allocation; each has  *)
(* enough of them for what the cache, the leases, the response queues and   *)
(* the pool can occupy together.                                            *)
EXTENDS UploadServer, TLC

CONSTANTS Small, Large, SmallBytes, LargeBytes

MCBuffers == Small \cup Large
MCBytes == [b \in MCBuffers |-> IF b \in Small THEN SmallBytes ELSE LargeBytes]

\* Names, requests and allocations of one size are interchangeable.
Symmetry == Permutations(Small) \cup Permutations(Large)
              \cup Permutations(Segments) \cup Permutations(Requests)
=============================================================================
