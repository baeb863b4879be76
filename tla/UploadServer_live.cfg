\* A payload of 3 bytes has a size class of 4, larger than the whole cache: set
\* refuses it, but only after it dropped the entry of that name.  Two requests
\* compete for one slot; progress of uploads and of stop().
SPECIFICATION Spec
CONSTANTS
  Segments = {s1}
  Small = {a1, a2, a3}
  Large = {b1, b2}
  SmallBytes = 2
  LargeBytes = 4
  Buffers <- MCBuffers
  Bytes <- MCBytes
  MaxAllocation = 4
  Sizes = {2, 3}
  SizeClasses = {1, 2, 4}
  NoBuffer = none
  Blank = blank
  MaxBytes = 3
  Ttl = 1
  MaxPooled = 4
  MaxRetainedPerBucket = 1
  MaxRetainedBytes = 4
  Requests = {r1, r2}
  MaxConnections = 1
  Chunks = 2
  HighWater = 2
INVARIANTS SlotAccounting
PROPERTIES UploadsEnd StopCompletes
