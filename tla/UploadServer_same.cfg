\* Two uploads at a time over a cache that holds one segment: every store
\* evicts.  The pool keeps two allocations.
SPECIFICATION Spec
CONSTANTS
  Segments = {s1, s2}
  Small = {a1, a2, a3, a4, a5}
  Large = {}
  SmallBytes = 1
  LargeBytes = 1
  Buffers <- MCBuffers
  Bytes <- MCBytes
  MaxAllocation = 1
  Sizes = {1}
  SizeClasses = {1, 2, 4}
  NoBuffer = none
  Blank = blank
  MaxBytes = 1
  Ttl = 1
  MaxPooled = 2
  MaxRetainedPerBucket = 2
  MaxRetainedBytes = 2
  Requests = {r1, r2}
  MaxConnections = 2
  Chunks = 2
  HighWater = 2
SYMMETRY Symmetry
INVARIANTS TypeOK LeasedBytesIntact OneOwner NoLeak
