\* One upload at a time; three segments, an overflow that evicts several
\* entries, and a payload too large for the pool, which keeps one allocation.
SPECIFICATION Spec
CONSTANTS
  Segments = {s1, s2, s3}
  Small = {a1, a2, a3}
  Large = {b1, b2}
  SmallBytes = 1
  LargeBytes = 2
  Buffers <- MCBuffers
  Bytes <- MCBytes
  MaxAllocation = 2
  Sizes = {1, 2}
  SizeClasses = {1, 2, 4}
  NoBuffer = none
  Blank = blank
  MaxBytes = 2
  Ttl = 1
  MaxPooled = 1
  MaxRetainedPerBucket = 1
  MaxRetainedBytes = 1
  Requests = {r1}
  MaxConnections = 1
  Chunks = 2
  HighWater = 2
SYMMETRY Symmetry
INVARIANTS ByteAccounting PoolSound
PROPERTIES StoredSurvives
