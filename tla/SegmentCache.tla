---------------------------- MODULE SegmentCache ----------------------------
(***************************************************************************)
(* The peer's segment cache (peer/src/cache.ts) and the buffer pool its    *)
(* bytes live in (peer/src/buffer-pool.ts).                                *)
(*                                                                         *)
(* A cache entry owns exactly one view of one backing allocation, so an    *)
(* entry is identified with its backing buffer: "entry b" is the CacheEntry*)
(* whose data lies in allocation b.  The operations are synchronous in the *)
(* code and therefore one action each.  This module has no Next of its     *)
(* own: UploadServer composes the operations with the asynchronous readers *)
(* that hold leases on the entries.                                        *)
(***************************************************************************)
EXTENDS Integers, FiniteSets

CONSTANTS
  Segments,             \* segment names
  Buffers,              \* allocations the runtime can hand out
  Bytes,                \* byteLength of each allocation
  MaxAllocation,        \* the largest of them, a bound on Bytes
  Sizes,                \* payload lengths passed to set
  SizeClasses,          \* the powers of two bucketSize() can return
  NoBuffer,             \* "no entry"
  Blank,                \* contents of an allocation that holds no segment
  MaxBytes,             \* SegmentCache.maxBytes
  Ttl,                  \* ticks after which an entry is expired
  MaxPooled,            \* BufferPool.maxPooledBufferBytes
  MaxRetainedPerBucket, \* BufferPool.maxRetainedPerBucket
  MaxRetainedBytes      \* BufferPool.maxRetainedBytes

ASSUME BufferAssumption ==
  /\ IsFiniteSet(Buffers)
  /\ NoBuffer \notin Buffers
  /\ Blank \notin Segments
  /\ MaxAllocation \in Nat
  /\ Bytes \in [Buffers -> 1..MaxAllocation]

\* Every pool of the program has the default maxPooledBufferBytes, a power of
\* two, so that a payload small enough to be pooled has a size class that is.
ASSUME LimitAssumption ==
  /\ Sizes \subseteq Nat
  /\ SizeClasses \subseteq Nat
  /\ MaxBytes \in Nat \ {0}
  /\ Ttl \in Nat \ {0}
  /\ MaxPooled \in SizeClasses \ {0}
  /\ MaxRetainedPerBucket \in Nat \ {0}
  /\ MaxRetainedBytes \in Nat \ {0}

VARIABLES
  cached,        \* entries: segment -> entry, or NoBuffer
  older,         \* insertion order of the entries Map: <<b, c>> if b precedes c
  age,           \* ticks since storedAt, saturating at Ttl
  leases,        \* CacheEntry.leases
  evicted,       \* removed entries that a lease keeps alive
  totalBytes,    \* SegmentCache.totalBytes
  tracked,       \* keys of BufferPool.leases: views the pool takes back
  retained,      \* BufferPool.available, all buckets together
  retainedBytes, \* BufferPool.retainedBytes
  content        \* what the bytes of each allocation spell: a segment or Blank

cacheVars == <<cached, older, age, leases, evicted, totalBytes>>
poolVars  == <<tracked, retained, retainedBytes, content>>
storeVars == <<cached, older, age, leases, evicted, totalBytes,
               tracked, retained, retainedBytes, content>>

-----------------------------------------------------------------------------
(* Byte counts.  The bytes of a set of buffers are counted as elements, so  *)
(* that sums are cardinalities.                                             *)

ByteCells(B) == {p \in B \X (1..MaxAllocation) : p[2] <= Bytes[p[1]]}
Weight(B) == Cardinality(ByteCells(B))

\* The entries of the Map, and every allocation the cache still refers to.
Entries == {b \in Buffers : \E s \in Segments : cached[s] = b}
Live    == Entries \cup evicted

\* The allocation bucketSize(z) asks for: the next power of two, or the exact
\* size of a payload that is too large to pool.
BucketSize(z) ==
  IF z > MaxPooled THEN z
  ELSE CHOOSE c \in SizeClasses : z <= c /\ c < 2 * z

Expired(b) == age[b] = Ttl

-----------------------------------------------------------------------------
(* Removing entries *)

\* Mutant of Freed: remove forgets to look at the leases.
FreedThoughLeased(R) == R \cap tracked

\* Entries whose removal hands their view back to the pool right away.
Freed(R) == {b \in R : b \in tracked /\ leases[b] = 0}

\* Mutant of Keeps: release checks no limit.
KeepsEverything(K, freed, order, pool, pooledBytes) == K = freed

\* K is what a pool holding `pool` (pooledBytes bytes) keeps of the views
\* `freed`, which BufferPool.release receives one by one in the order `order`.
Keeps(K, freed, order, pool, pooledBytes) ==
  /\ K \subseteq freed
  /\ \A b \in freed :
       LET before == {c \in K : <<c, b>> \in order}
       IN  b \in K <=>
             /\ Cardinality({c \in pool \cup before : Bytes[c] = Bytes[b]})
                  < MaxRetainedPerBucket
             /\ pooledBytes + Weight(before) + Bytes[b] <= MaxRetainedBytes

\* BufferPool.release zeroes what it retains.
Wiped(K) == [b \in Buffers |-> IF b \in K THEN Blank ELSE content[b]]

\* SegmentCache.remove for each entry of R, in Map order.
RemoveEntries(R) ==
  \E K \in SUBSET Freed(R) :
    /\ Keeps(K, Freed(R), older, retained, retainedBytes)
    /\ cached' = [s \in Segments |->
                    IF cached[s] \in R THEN NoBuffer ELSE cached[s]]
    /\ older' = {p \in older : p[1] \notin R /\ p[2] \notin R}
    /\ age' = [b \in Buffers |-> IF b \in R THEN 0 ELSE age[b]]
    /\ evicted' = evicted \cup {b \in R : leases[b] > 0}
    /\ totalBytes' = totalBytes - Weight(R)
    /\ tracked' = tracked \ Freed(R)
    /\ retained' = retained \cup K
    /\ retainedBytes' = retainedBytes + Weight(K)
    /\ content' = Wiped(K)
    /\ UNCHANGED leases

\* Deleting and re-inserting a key moves its entry to the end of the Map.
MostRecent(b) ==
  {p \in older : p[1] # b /\ p[2] # b} \cup {<<c, b>> : c \in Entries \ {b}}

-----------------------------------------------------------------------------
(* Operations of SegmentCache *)

StoreInit ==
  /\ cached = [s \in Segments |-> NoBuffer]
  /\ older = {}
  /\ age = [b \in Buffers |-> 0]
  /\ leases = [b \in Buffers |-> 0]
  /\ evicted = {}
  /\ totalBytes = 0
  /\ tracked = {}
  /\ retained = {}
  /\ retainedBytes = 0
  /\ content = [b \in Buffers |-> Blank]

\* Time passes for every entry.
Tick ==
  /\ age' = [b \in Buffers |->
               IF b \in Entries /\ age[b] < Ttl THEN age[b] + 1 ELSE age[b]]
  /\ UNCHANGED <<cached, older, leases, evicted, totalBytes, poolVars>>

\* touch or has: an expired entry is removed on the way.
DropIfExpired(s) ==
  /\ cached[s] \in Buffers
  /\ Expired(cached[s])
  /\ RemoveEntries({cached[s]})

\* get (and a HEAD request, which leases and releases without yielding).
Touch(s) ==
  /\ cached[s] \in Buffers
  /\ ~Expired(cached[s])
  /\ older' = MostRecent(cached[s])
  /\ UNCHANGED <<cached, age, leases, evicted, totalBytes, poolVars>>

\* lease: touch, then pin the entry.
Lease(s) ==
  /\ cached[s] \in Buffers
  /\ ~Expired(cached[s])
  /\ older' = MostRecent(cached[s])
  /\ leases' = [leases EXCEPT ![cached[s]] = @ + 1]
  /\ UNCHANGED <<cached, age, evicted, totalBytes, poolVars>>

\* CacheLease.release of entry b: the last lease of an evicted entry returns
\* its view to the pool.
Release(b) ==
  /\ leases' = [leases EXCEPT ![b] = @ - 1]
  /\ LET last  == b \in evicted /\ leases[b] = 1
         freed == IF last /\ b \in tracked THEN {b} ELSE {}
     IN \E K \in SUBSET freed :
          /\ Keeps(K, freed, {}, retained, retainedBytes)
          /\ evicted' = IF last THEN evicted \ {b} ELSE evicted
          /\ tracked' = tracked \ freed
          /\ retained' = retained \cup K
          /\ retainedBytes' = retainedBytes + Weight(K)
          /\ content' = Wiped(K)
  /\ UNCHANGED <<cached, older, age, totalBytes>>

\* size, bytes and keys sweep the expired entries first.
EvictExpired ==
  LET R == {b \in Entries : Expired(b)}
  IN  R # {} /\ RemoveEntries(R)

Clear == Entries # {} /\ RemoveEntries(Entries)

-----------------------------------------------------------------------------
(* Storing an entry.  set runs four phases without yielding: drop the entry *)
(* stored under the name, acquire an allocation, insert, evict the oldest.  *)

\* The entry `set` replaces.
Replaced(s) == {cached[s]} \cap Buffers

\* What BufferPool.acquire(z) can return from a pool: a retained allocation of
\* the size class if there is one, otherwise a new one, which no live object
\* refers to.
Acquirable(z, pool, held) ==
  LET reusable == {c \in pool : Bytes[c] = BucketSize(z)}
  IN  IF reusable # {} THEN reusable
      ELSE {c \in Buffers : /\ Bytes[c] = BucketSize(z)
                            /\ c \notin Live \cup held \cup retained}

\* Mutant of BytesLeft: acquire leaves the reused allocation counted.
BytesBefore(K, b) == retainedBytes + Weight(K)

\* Bytes in the pool after it kept K and acquire took b, if it was there.
BytesLeft(K, b) ==
  retainedBytes + Weight(K) - Weight((retained \cup K) \cap {b})

\* Mutant of Overflow: the loop takes entries from the end of the Map.
OverflowNewest(E, keys, order, total) ==
  /\ E \subseteq keys
  /\ \A e \in keys :
       e \in E <=> total - Weight({c \in keys : <<e, c>> \in order}) > MaxBytes

\* E is what the loop `while totalBytes > maxBytes` removes from the front of
\* a Map with these keys and order, whose entries hold `total` bytes.
Overflow(E, keys, order, total) ==
  /\ E \subseteq keys
  /\ \A e \in keys :
       e \in E <=> total - Weight({c \in keys : <<c, e>> \in order}) > MaxBytes
  /\ total - Weight(E) <= MaxBytes \/ E = keys

\* The rounded-up allocation exceeds the whole cache: give it back.  The entry
\* that had the name is gone by now.
Reject(old, K, b, pool, pooledBytes) ==
  \E L \in SUBSET {b} :
    /\ Keeps(L, {b}, {}, pool, pooledBytes)
    /\ cached' = [t \in Segments |-> IF cached[t] \in old THEN NoBuffer ELSE cached[t]]
    /\ older' = {p \in older : p[1] \notin old /\ p[2] \notin old}
    /\ age' = [c \in Buffers |-> IF c \in old THEN 0 ELSE age[c]]
    /\ evicted' = evicted \cup {c \in old : leases[c] > 0}
    /\ totalBytes' = totalBytes - Weight(old)
    /\ tracked' = tracked \ Freed(old)
    /\ retained' = pool \cup L
    /\ retainedBytes' = pooledBytes + Weight(L)
    /\ content' = Wiped(K \cup {b})
    /\ UNCHANGED leases

\* Insert entry b under s, then evict from the front until the bytes fit.
Insert(s, b, pooled, old, K, pool, pooledBytes) ==
  LET rest  == Entries \ old
      order == {p \in older : p[1] \notin old /\ p[2] \notin old}
                 \cup {<<c, b>> : c \in rest}
      total == totalBytes - Weight(old) + Bytes[b]
      named == [cached EXCEPT ![s] = b]
  IN \E E \in SUBSET (rest \cup {b}) :
     /\ Overflow(E, rest \cup {b}, order, total)
     /\ \E L \in SUBSET Freed(E) :
       /\ Keeps(L, Freed(E), order, pool, pooledBytes)
       /\ cached' = [t \in Segments |-> IF named[t] \in E THEN NoBuffer ELSE named[t]]
       /\ older' = {p \in order : p[1] \notin E /\ p[2] \notin E}
       /\ age' = [c \in Buffers |-> IF c \in old \cup E \cup {b} THEN 0 ELSE age[c]]
       /\ evicted' = evicted \cup {c \in old \cup E : leases[c] > 0}
       /\ totalBytes' = total - Weight(E)
       /\ tracked' = (tracked \ Freed(old \cup E)) \cup (IF pooled THEN {b} ELSE {})
       /\ retained' = pool \cup L
       /\ retainedBytes' = pooledBytes + Weight(L)
       /\ content' = [Wiped(K \cup L) EXCEPT ![b] = s]
       /\ UNCHANGED leases

\* set(s, data) for a payload of z bytes.  `held` are allocations that objects
\* outside the cache still refer to.
Set(s, z, held) ==
  /\ 0 < z /\ z <= MaxBytes
  /\ LET old == Replaced(s)
     IN \E K \in SUBSET Freed(old) :
        /\ Keeps(K, Freed(old), {}, retained, retainedBytes)
        /\ \E b \in Acquirable(z, retained \cup K, held) :
          LET pool   == (retained \cup K) \ {b}
              pooledBytes == BytesLeft(K, b)
          IN  IF Bytes[b] > MaxBytes
              THEN Reject(old, K, b, pool, pooledBytes)
              ELSE Insert(s, b, BucketSize(z) <= MaxPooled,
                          old, K, pool, pooledBytes)

-----------------------------------------------------------------------------
\* The types of the variables of the cache and the pool.
StoreTypeOK ==
  /\ cached \in [Segments -> Buffers \cup {NoBuffer}]
  /\ older \subseteq Buffers \X Buffers
  /\ age \in [Buffers -> 0..Ttl]
  /\ leases \in [Buffers -> Nat]
  /\ evicted \subseteq Buffers
  /\ totalBytes \in Nat
  /\ tracked \subseteq Buffers
  /\ retained \subseteq Buffers
  /\ retainedBytes \in Nat
  /\ content \in [Buffers -> Segments \cup {Blank}]
=============================================================================
