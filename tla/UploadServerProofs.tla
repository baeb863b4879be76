------------------------- MODULE UploadServerProofs -------------------------
(***************************************************************************)
(* Proofs about UploadServer: its invariants hold for every number of      *)
(* segments, requests, allocations and every setting of the limits.        *)
(***************************************************************************)
EXTENDS UploadServer, FiniteSetTheorems, WellFoundedInduction, TLAPS

-----------------------------------------------------------------------------
(* Byte counts *)

\* The bytes of any set of buffers are a finite set.
LEMMA CellsFinite ==
  ASSUME NEW B \in SUBSET Buffers
  PROVE  IsFiniteSet(ByteCells(B)) /\ Weight(B) \in Nat
<1>1. IsFiniteSet(B)
  BY BufferAssumption, FS_Subset
<1>2. IsFiniteSet(1..MaxAllocation)
  BY BufferAssumption, FS_Interval
<1>3. IsFiniteSet(B \X (1..MaxAllocation))
  BY <1>1, <1>2, FS_Product
<1>4. IsFiniteSet(ByteCells(B))
  BY <1>3, FS_Subset DEF ByteCells
<1> QED
  BY <1>4, FS_CardinalityType DEF Weight

\* Disjoint sets of buffers add up.
LEMMA WeightUnion ==
  ASSUME NEW A \in SUBSET Buffers, NEW B \in SUBSET Buffers, A \cap B = {}
  PROVE  Weight(A \cup B) = Weight(A) + Weight(B)
<1>1. ByteCells(A \cup B) = ByteCells(A) \cup ByteCells(B)
  BY DEF ByteCells
<1>2. ByteCells(A) \cap ByteCells(B) = {}
  BY DEF ByteCells
<1>3. IsFiniteSet(ByteCells(A)) /\ IsFiniteSet(ByteCells(B))
      /\ Weight(A) \in Nat /\ Weight(B) \in Nat
  BY CellsFinite
<1>4. Cardinality(ByteCells(A) \cup ByteCells(B))
        = Cardinality(ByteCells(A)) + Cardinality(ByteCells(B))
            - Cardinality(ByteCells(A) \cap ByteCells(B))
  BY <1>3, FS_Union
<1>5. Cardinality({}) = 0
  BY FS_EmptySet
<1>6. Weight(A \cup B) = Weight(A) + Weight(B) - 0
  BY <1>1, <1>2, <1>4, <1>5 DEF Weight
<1> QED
  BY <1>3, <1>6

\* Taking buffers out of a set takes their bytes out of the count.
LEMMA WeightDifference ==
  ASSUME NEW B \in SUBSET Buffers, NEW A \in SUBSET B
  PROVE  Weight(B \ A) = Weight(B) - Weight(A)
<1>1. (B \ A) \cup A = B /\ (B \ A) \cap A = {}
  OBVIOUS
<1>2. A \in SUBSET Buffers /\ (B \ A) \in SUBSET Buffers
  OBVIOUS
<1>3. Weight(B) = Weight(B \ A) + Weight(A)
  BY <1>1, <1>2, WeightUnion
<1> QED
  BY <1>2, <1>3, CellsFinite

\* One buffer counts its own length; none count nothing.
LEMMA WeightSingle ==
  ASSUME NEW b \in Buffers
  PROVE  Weight({b}) = Bytes[b]
<1>1. Bytes[b] \in 1..MaxAllocation /\ MaxAllocation \in Nat
  BY BufferAssumption
<1>2. ByteCells({b}) = {b} \X (1..Bytes[b])
  BY <1>1 DEF ByteCells
<1>3. IsFiniteSet({b}) /\ Cardinality({b}) = 1
  BY FS_Singleton
<1>4. IsFiniteSet(1..Bytes[b]) /\ Cardinality(1..Bytes[b]) = Bytes[b]
  BY <1>1, FS_Interval
<1>5. Cardinality({b} \X (1..Bytes[b]))
        = Cardinality({b}) * Cardinality(1..Bytes[b])
  BY <1>3, <1>4, FS_Product, Zenon
<1>6. Cardinality({b} \X (1..Bytes[b])) = 1 * Bytes[b]
  BY <1>3, <1>4, <1>5
<1>7. Cardinality({b} \X (1..Bytes[b])) = Bytes[b]
  BY <1>1, <1>6
<1> QED
  BY <1>2, <1>7 DEF Weight

\* No buffers, no bytes.
LEMMA WeightEmpty == Weight({}) = 0
<1>1. ByteCells({}) = {}
  BY DEF ByteCells
<1> QED
  BY <1>1, FS_EmptySet DEF Weight

-----------------------------------------------------------------------------
(* The cache and its pool *)

\* What holds of the cache between operations, whoever holds the leases.
StoreInv ==
  /\ StoreTypeOK
  /\ OneOwner
  /\ \A b \in Buffers : leases[b] > 0 => b \in Live
  /\ \A b \in evicted : leases[b] > 0
  /\ tracked = {b \in Live : Bytes[b] <= MaxPooled}
  /\ older \subseteq Entries \X Entries
  /\ \A s \in Segments : cached[s] \in Buffers => content[cached[s]] = s
  /\ RetainedBlank
  /\ ByteAccounting

\* What an operation owes to the holders of leases: it neither takes a lease
\* away nor touches the bytes under one.
LeasesKept ==
  /\ leases' = leases
  /\ \A b \in Buffers : leases[b] > 0 => content'[b] = content[b]

\* Removing any set of entries keeps the store consistent.
LEMMA RemoveEntriesInv ==
  ASSUME StoreInv, NEW R \in SUBSET Entries, RemoveEntries(R)
  PROVE  StoreInv' /\ LeasesKept
<1> DEFINE F == Freed(R)
           P == {b \in R : leases[b] > 0}
<1>1. PICK K \in SUBSET F :
    /\ cached' = [s \in Segments |->
                    IF cached[s] \in R THEN NoBuffer ELSE cached[s]]
    /\ older' = {p \in older : p[1] \notin R /\ p[2] \notin R}
    /\ age' = [b \in Buffers |-> IF b \in R THEN 0 ELSE age[b]]
    /\ evicted' = evicted \cup P
    /\ totalBytes' = totalBytes - Weight(R)
    /\ tracked' = tracked \ F
    /\ retained' = retained \cup K
    /\ retainedBytes' = retainedBytes + Weight(K)
    /\ content' = Wiped(K)
    /\ leases' = leases
  BY DEF RemoveEntries
<1>2. /\ R \subseteq Buffers /\ Entries \subseteq Buffers /\ K \subseteq R
      /\ F \subseteq R /\ P \subseteq R /\ retained \subseteq Buffers
  BY DEF Entries, Freed, StoreInv, StoreTypeOK
<1>3. Entries' = Entries \ R
  BY <1>1, <1>2, BufferAssumption DEF Entries, StoreInv, StoreTypeOK
<1>4. Live' = Live \ {b \in R : leases[b] = 0}
  BY <1>1, <1>2, <1>3 DEF Live, StoreInv, StoreTypeOK, OneOwner
<1>5. /\ Weight(Entries') = Weight(Entries) - Weight(R)
      /\ Weight(R) \in Nat /\ Weight(K) \in Nat /\ Weight(Entries') \in Nat
  BY <1>2, <1>3, WeightDifference, CellsFinite
<1>6. Weight(retained \cup K) = Weight(retained) + Weight(K)
  <2>1. retained \cap K = {}
    BY <1>2 DEF StoreInv, OneOwner, Live
  <2> QED
    BY <1>2, <2>1, WeightUnion
<1>7. \A b \in Buffers : leases[b] > 0 => content'[b] = content[b]
  BY <1>1 DEF Freed, Wiped, StoreInv, StoreTypeOK
<1>8. StoreTypeOK'
  BY <1>1, <1>2, <1>5, BufferAssumption, LimitAssumption
     DEF StoreInv, StoreTypeOK, ByteAccounting, Wiped, Freed
<1>9. OneOwner'
  BY <1>1, <1>2, <1>3, <1>4, BufferAssumption
     DEF StoreInv, StoreTypeOK, OneOwner, Live, Freed
<1>10. /\ (\A b \in Buffers : leases[b] > 0 => b \in Live)'
       /\ (\A b \in evicted : leases[b] > 0)'
  BY <1>1, <1>2, <1>4 DEF StoreInv, StoreTypeOK
<1>11. (tracked = {b \in Live : Bytes[b] <= MaxPooled})'
  BY <1>1, <1>2, <1>4 DEF StoreInv, StoreTypeOK, Freed
<1>12. (older \subseteq Entries \X Entries)'
  BY <1>1, <1>3 DEF StoreInv
<1>13. (\A s \in Segments : cached[s] \in Buffers => content[cached[s]] = s)'
  BY <1>1, <1>2, BufferAssumption DEF StoreInv, StoreTypeOK, Wiped, Freed
<1>14. RetainedBlank'
  BY <1>1, <1>2 DEF StoreInv, RetainedBlank, Wiped
<1>15. ByteAccounting'
  BY <1>1, <1>5, <1>6, LimitAssumption DEF StoreInv, StoreTypeOK, ByteAccounting
<1> QED
  BY <1>1, <1>7, <1>8, <1>9, <1>10, <1>11, <1>12, <1>13, <1>14, <1>15
     DEF StoreInv, LeasesKept

\* Entries found expired by a lookup or a sweep, and clear.
LEMMA SweepInv ==
  ASSUME StoreInv,
         \/ \E s \in Segments : DropIfExpired(s)
         \/ EvictExpired
         \/ Clear
  PROVE  StoreInv' /\ LeasesKept
<1>1. PICK R \in SUBSET Entries : RemoveEntries(R)
  BY DEF DropIfExpired, EvictExpired, Clear, Entries
<1> QED
  BY <1>1, RemoveEntriesInv

\* Moving an entry to the end of the Map disturbs nothing but the order.
LEMMA MostRecentInv ==
  ASSUME StoreInv, NEW s \in Segments, cached[s] \in Buffers,
         older' = MostRecent(cached[s])
  PROVE  older' \subseteq Entries \X Entries
<1>1. cached[s] \in Entries
  BY DEF Entries
<1> QED
  BY <1>1 DEF MostRecent, StoreInv

\* touch re-inserts the entry at the end of the Map.
LEMMA TouchInv ==
  ASSUME StoreInv, NEW s \in Segments, Touch(s)
  PROVE  StoreInv' /\ LeasesKept
<1>1. older' \subseteq Entries \X Entries
  BY MostRecentInv DEF Touch
<1>2. /\ UNCHANGED <<cached, age, leases, evicted, totalBytes>>
      /\ UNCHANGED <<tracked, retained, retainedBytes, content>>
  BY DEF Touch, poolVars
<1>3. Entries' = Entries /\ Live' = Live
  BY <1>2 DEF Entries, Live
<1>4. StoreTypeOK'
  BY <1>1, <1>2 DEF StoreInv, StoreTypeOK, Entries
<1> QED
  BY <1>1, <1>2, <1>3, <1>4
     DEF StoreInv, LeasesKept, OneOwner, RetainedBlank, ByteAccounting

\* The clock ages the entries and changes nothing else.
LEMMA TickInv ==
  ASSUME StoreInv, Tick
  PROVE  StoreInv' /\ LeasesKept
<1>1. /\ UNCHANGED <<cached, older, leases, evicted, totalBytes>>
      /\ UNCHANGED <<tracked, retained, retainedBytes, content>>
      /\ age' = [b \in Buffers |->
                   IF b \in Entries /\ age[b] < Ttl THEN age[b] + 1 ELSE age[b]]
  BY DEF Tick, poolVars
<1>2. Entries' = Entries /\ Live' = Live
  BY <1>1 DEF Entries, Live
<1>3. StoreTypeOK'
  BY <1>1, LimitAssumption DEF StoreInv, StoreTypeOK
<1> QED
  BY <1>1, <1>2, <1>3
     DEF StoreInv, LeasesKept, OneOwner, RetainedBlank, ByteAccounting

\* Taking a lease pins a live entry that holds the segment asked for.
LEMMA LeaseInv ==
  ASSUME StoreInv, NEW s \in Segments, Lease(s)
  PROVE  /\ StoreInv'
         /\ cached[s] \in Live /\ content[cached[s]] = s
         /\ leases' = [leases EXCEPT ![cached[s]] = @ + 1]
         /\ content' = content
<1>1. older' \subseteq Entries \X Entries
  BY MostRecentInv DEF Lease
<1>2. /\ UNCHANGED <<cached, age, evicted, totalBytes>>
      /\ UNCHANGED <<tracked, retained, retainedBytes, content>>
      /\ leases' = [leases EXCEPT ![cached[s]] = @ + 1]
      /\ cached[s] \in Buffers
  BY DEF Lease, poolVars
<1>3. Entries' = Entries /\ Live' = Live /\ cached[s] \in Live
  BY <1>2 DEF Entries, Live
<1>4. StoreTypeOK'
  BY <1>1, <1>2 DEF StoreInv, StoreTypeOK, Entries
<1>5. /\ (\A b \in Buffers : leases[b] > 0 => b \in Live)'
      /\ (\A b \in evicted : leases[b] > 0)'
  BY <1>2, <1>3 DEF StoreInv, StoreTypeOK
<1> QED
  BY <1>1, <1>2, <1>3, <1>4, <1>5
     DEF StoreInv, OneOwner, RetainedBlank, ByteAccounting

\* Releasing a lease returns the view of an evicted entry with its last lease.
LEMMA ReleaseInv ==
  ASSUME StoreInv, NEW b \in Buffers, leases[b] > 0, Release(b)
  PROVE  /\ StoreInv'
         /\ leases' = [leases EXCEPT ![b] = @ - 1]
         /\ \A c \in Buffers : leases'[c] > 0 => content'[c] = content[c]
<1> DEFINE last  == b \in evicted /\ leases[b] = 1
           freed == IF last /\ b \in tracked THEN {b} ELSE {}
<1>1. PICK K \in SUBSET freed :
    /\ leases' = [leases EXCEPT ![b] = @ - 1]
    /\ evicted' = (IF last THEN evicted \ {b} ELSE evicted)
    /\ tracked' = tracked \ freed
    /\ retained' = retained \cup K
    /\ retainedBytes' = retainedBytes + Weight(K)
    /\ content' = Wiped(K)
    /\ UNCHANGED <<cached, older, age, totalBytes>>
  BY DEF Release
<1>2. K \subseteq Buffers /\ K \subseteq evicted /\ retained \subseteq Buffers
  BY DEF StoreInv, StoreTypeOK
<1>3. Entries' = Entries
  BY <1>1 DEF Entries
<1>4. Live' = IF last THEN Live \ {b} ELSE Live
  BY <1>1, <1>3 DEF Live, StoreInv, OneOwner
<1>5. Weight(retained \cup K) = Weight(retained) + Weight(K) /\ Weight(K) \in Nat
  <2>1. retained \cap K = {}
    BY <1>2 DEF StoreInv, OneOwner, Live
  <2> QED
    BY <1>2, <2>1, WeightUnion, CellsFinite
<1>6. \A c \in Buffers : leases'[c] > 0 => content'[c] = content[c]
  BY <1>1 DEF Wiped, StoreInv, StoreTypeOK
<1>7. StoreTypeOK'
  BY <1>1, <1>2, <1>5 DEF StoreInv, StoreTypeOK, Wiped
<1>8. OneOwner'
  BY <1>1, <1>2, <1>3, <1>4 DEF StoreInv, OneOwner, Live
<1>9. /\ (\A c \in Buffers : leases[c] > 0 => c \in Live)'
      /\ (\A c \in evicted : leases[c] > 0)'
  BY <1>1, <1>4 DEF StoreInv, StoreTypeOK
<1>10. (tracked = {c \in Live : Bytes[c] <= MaxPooled})'
  BY <1>1, <1>4 DEF StoreInv
<1>11. (\A s \in Segments : cached[s] \in Buffers => content[cached[s]] = s)'
  BY <1>1, <1>2 DEF StoreInv, OneOwner, Entries, Wiped
<1>12. RetainedBlank'
  BY <1>1, <1>2 DEF StoreInv, RetainedBlank, Wiped
<1>13. ByteAccounting'
  BY <1>1, <1>3, <1>5 DEF StoreInv, ByteAccounting
<1> QED
  BY <1>1, <1>3, <1>6, <1>7, <1>8, <1>9, <1>10, <1>11, <1>12, <1>13 DEF StoreInv

\* What set(s, ...) has in hand once it dropped the old entry and acquired
\* allocation b: b belongs to nobody, and the pool's byte count is exact.
Acquired(s, K, b, pool, pooledBytes) ==
  /\ K \in SUBSET Freed(Replaced(s))
  /\ b \in Buffers /\ leases[b] = 0
  /\ b \notin evicted /\ b \notin Entries \ Replaced(s)
  /\ pool \subseteq retained \cup K /\ b \notin pool
  /\ pooledBytes = Weight(pool)

\* A refused payload leaves a consistent store, without the old entry.
LEMMA RejectInv ==
  ASSUME StoreInv, NEW s \in Segments, NEW K, NEW b, NEW pool, NEW pooledBytes,
         Acquired(s, K, b, pool, pooledBytes),
         Reject(Replaced(s), K, b, pool, pooledBytes)
  PROVE  StoreInv' /\ LeasesKept
<1> DEFINE old == Replaced(s)
           P == {c \in old : leases[c] > 0}
<1>1. PICK L \in SUBSET {b} :
    /\ cached' = [t \in Segments |-> IF cached[t] \in old THEN NoBuffer ELSE cached[t]]
    /\ older' = {p \in older : p[1] \notin old /\ p[2] \notin old}
    /\ age' = [c \in Buffers |-> IF c \in old THEN 0 ELSE age[c]]
    /\ evicted' = evicted \cup P
    /\ totalBytes' = totalBytes - Weight(old)
    /\ tracked' = tracked \ Freed(old)
    /\ retained' = pool \cup L
    /\ retainedBytes' = pooledBytes + Weight(L)
    /\ content' = Wiped(K \cup {b})
    /\ leases' = leases
  BY DEF Reject
<1>2. /\ old \subseteq Entries /\ Entries \subseteq Buffers /\ K \subseteq old
      /\ pool \subseteq Buffers /\ L \subseteq Buffers
      /\ Freed(old) \subseteq old
      /\ b \in Buffers /\ leases[b] = 0 /\ b \notin evicted
      /\ b \notin Entries \ old /\ b \notin pool
      /\ pool \subseteq retained \cup K /\ pooledBytes = Weight(pool)
      /\ \A c \in K : leases[c] = 0 /\ c \in tracked
  BY DEF Acquired, Replaced, Entries, Freed, StoreInv, StoreTypeOK
<1>3. Entries' = Entries \ old
  BY <1>1, <1>2, BufferAssumption DEF Entries, StoreInv, StoreTypeOK
<1>4. Live' = Live \ {c \in old : leases[c] = 0}
  BY <1>1, <1>2, <1>3 DEF Live, StoreInv, StoreTypeOK, OneOwner
<1>5. /\ Weight(Entries') = Weight(Entries) - Weight(old)
      /\ Weight(old) \in Nat /\ Weight(L) \in Nat /\ Weight(Entries') \in Nat
      /\ Weight(pool) \in Nat
  BY <1>2, <1>3, WeightDifference, CellsFinite
<1>6. Weight(pool \cup L) = Weight(pool) + Weight(L)
  BY <1>2, WeightUnion
<1>7. \A c \in Buffers : leases[c] > 0 => content'[c] = content[c]
  BY <1>1, <1>2 DEF Wiped, StoreInv, StoreTypeOK
<1>8. StoreTypeOK'
  BY <1>1, <1>2, <1>5, BufferAssumption, LimitAssumption
     DEF StoreInv, StoreTypeOK, ByteAccounting, Wiped
<1>9. OneOwner'
  BY <1>1, <1>2, <1>3, <1>4, BufferAssumption
     DEF StoreInv, StoreTypeOK, OneOwner, Live
<1>10. /\ (\A c \in Buffers : leases[c] > 0 => c \in Live)'
       /\ (\A c \in evicted : leases[c] > 0)'
  BY <1>1, <1>2, <1>4 DEF StoreInv, StoreTypeOK
<1>11. (tracked = {c \in Live : Bytes[c] <= MaxPooled})'
  BY <1>1, <1>2, <1>4 DEF StoreInv, StoreTypeOK, Freed
<1>12. (older \subseteq Entries \X Entries)'
  BY <1>1, <1>3 DEF StoreInv
<1>13. (\A t \in Segments : cached[t] \in Buffers => content[cached[t]] = t)'
  BY <1>1, <1>2, BufferAssumption DEF StoreInv, StoreTypeOK, Wiped, Entries
<1>14. RetainedBlank'
  BY <1>1, <1>2 DEF StoreInv, StoreTypeOK, RetainedBlank, Wiped
<1>15. ByteAccounting'
  BY <1>1, <1>2, <1>5, <1>6, LimitAssumption DEF StoreInv, StoreTypeOK, ByteAccounting
<1> QED
  BY <1>1, <1>7, <1>8, <1>9, <1>10, <1>11, <1>12, <1>13, <1>14, <1>15
     DEF StoreInv, LeasesKept

\* The new entry survives its own eviction loop, and the loop ends within the
\* limit.
LEMMA InsertInv ==
  ASSUME StoreInv, NEW s \in Segments, NEW K, NEW b, NEW pool, NEW pooledBytes,
         Acquired(s, K, b, pool, pooledBytes), Bytes[b] <= MaxBytes,
         Insert(s, b, Bytes[b] <= MaxPooled, Replaced(s), K, pool, pooledBytes)
  PROVE  StoreInv' /\ LeasesKept /\ cached'[s] = b /\ content'[b] = s
<1> DEFINE old   == Replaced(s)
           rest  == Entries \ old
           order == {p \in older : p[1] \notin old /\ p[2] \notin old}
                      \cup {<<c, b>> : c \in rest}
           total == totalBytes - Weight(old) + Bytes[b]
           named == [cached EXCEPT ![s] = b]
<1>1. PICK E \in SUBSET (rest \cup {b}), L \in SUBSET Buffers :
    /\ L \subseteq Freed(E)
    /\ Overflow(E, rest \cup {b}, order, total)
    /\ cached' = [t \in Segments |-> IF named[t] \in E THEN NoBuffer ELSE named[t]]
    /\ older' = {p \in order : p[1] \notin E /\ p[2] \notin E}
    /\ age' = [c \in Buffers |-> IF c \in old \cup E \cup {b} THEN 0 ELSE age[c]]
    /\ evicted' = evicted \cup {c \in old \cup E : leases[c] > 0}
    /\ totalBytes' = total - Weight(E)
    /\ tracked' = (tracked \ Freed(old \cup E))
                    \cup (IF Bytes[b] <= MaxPooled THEN {b} ELSE {})
    /\ retained' = pool \cup L
    /\ retainedBytes' = pooledBytes + Weight(L)
    /\ content' = [Wiped(K \cup L) EXCEPT ![b] = s]
    /\ leases' = leases
  BY DEF Insert, Freed, StoreInv, StoreTypeOK
<1>2. /\ old \subseteq Entries /\ Entries \subseteq Buffers /\ K \subseteq old
      /\ pool \subseteq Buffers
      /\ Freed(old) \subseteq old
      /\ b \in Buffers /\ leases[b] = 0 /\ b \notin evicted
      /\ b \notin rest /\ b \notin pool
      /\ pool \subseteq retained \cup K /\ pooledBytes = Weight(pool)
      /\ \A c \in K : leases[c] = 0 /\ c \in tracked
      /\ \A c \in L : leases[c] = 0 /\ c \in tracked /\ c \in E
  <2>1. \A c \in L : leases[c] = 0 /\ c \in tracked /\ c \in E
    BY <1>1 DEF Freed
  <2> QED
    BY <2>1 DEF Acquired, Replaced, Entries, Freed, StoreInv, StoreTypeOK
<1>3. /\ Weight(rest) = Weight(Entries) - Weight(old)
      /\ Weight(old) \in Nat /\ Weight(Entries) \in Nat /\ Weight(rest) \in Nat
      /\ Bytes[b] \in Nat
  <2>1. Bytes[b] \in Nat
    BY <1>2, BufferAssumption
  <2>2. rest \in SUBSET Buffers /\ old \in SUBSET Buffers
    BY <1>2
  <2>3. Weight(Entries \ old) = Weight(Entries) - Weight(old)
    BY <1>2, WeightDifference
  <2> QED
    BY <1>2, <2>1, <2>2, <2>3, CellsFinite
<1>4. total = Weight(rest) + Bytes[b]
  BY <1>3 DEF StoreInv, ByteAccounting
<1>5. b \notin E
  <2>1. {c \in rest \cup {b} : <<c, b>> \in order} = rest
    BY <1>2 DEF StoreInv
  <2>2. total - Weight(rest) = Bytes[b] /\ MaxBytes \in Nat
    BY <1>3, <1>4, LimitAssumption
  <2>3. b \in E <=> total - Weight(rest) > MaxBytes
    BY <1>1, <2>1 DEF Overflow
  <2> QED
    BY <1>3, <2>2, <2>3
<1>6. E \subseteq rest /\ E \subseteq Buffers /\ L \subseteq Buffers
  BY <1>1, <1>2, <1>5
<1>7. Entries' = (rest \ E) \cup {b}
  BY <1>1, <1>2, <1>5, <1>6, BufferAssumption
     DEF Entries, Replaced, StoreInv, StoreTypeOK, OneOwner
<1>8. Live' = (Live \ {c \in old \cup E : leases[c] = 0}) \cup {b}
  BY <1>1, <1>2, <1>6, <1>7 DEF Live, StoreInv, StoreTypeOK, OneOwner
<1>9. /\ Weight(Entries') = Weight(rest) - Weight(E) + Bytes[b]
      /\ Weight(E) \in Nat /\ Weight(L) \in Nat /\ Weight(pool) \in Nat
      /\ Weight(Entries') \in Nat
  <2>1. Weight(rest \ E) = Weight(rest) - Weight(E)
    BY <1>2, <1>6, WeightDifference
  <2>2. Weight((rest \ E) \cup {b}) = Weight(rest \ E) + Weight({b})
    BY <1>2, <1>6, WeightUnion
  <2>3. (rest \ E) \cup {b} \in SUBSET Buffers
    BY <1>2
  <2> QED
    BY <1>2, <1>6, <1>7, <2>1, <2>2, <2>3, WeightSingle, CellsFinite
<1>10. Weight(pool \cup L) = Weight(pool) + Weight(L)
  <2>1. pool \cap L = {}
    BY <1>2, <1>6 DEF StoreInv, OneOwner, Live
  <2> QED
    BY <1>2, <1>6, <2>1, WeightUnion
<1>11. \A c \in Buffers : leases[c] > 0 => content'[c] = content[c]
  BY <1>1, <1>2 DEF Wiped, StoreInv, StoreTypeOK
<1>12. StoreTypeOK'
  <2>1. cached' \in [Segments -> Buffers \cup {NoBuffer}]
    BY <1>1, <1>2 DEF StoreInv, StoreTypeOK
  <2>2. older' \subseteq Buffers \X Buffers
    BY <1>1, <1>2 DEF StoreInv, StoreTypeOK
  <2>3. content' \in [Buffers -> Segments \cup {Blank}]
    BY <1>1, <1>2 DEF StoreInv, StoreTypeOK, Wiped
  <2>4. age' \in [Buffers -> 0..Ttl] /\ leases' \in [Buffers -> Nat]
    BY <1>1, LimitAssumption DEF StoreInv, StoreTypeOK
  <2>5. totalBytes' \in Nat /\ retainedBytes' \in Nat
    BY <1>1, <1>2, <1>3, <1>4, <1>9
  <2>6. evicted' \subseteq Buffers /\ tracked' \subseteq Buffers /\ retained' \subseteq Buffers
    BY <1>1, <1>2, <1>6 DEF StoreInv, StoreTypeOK
  <2> QED
    BY <2>1, <2>2, <2>3, <2>4, <2>5, <2>6 DEF StoreTypeOK
<1>13. OneOwner'
  <2>1. (\A t, u \in Segments : cached[t] = cached[u] /\ cached[t] \in Buffers => t = u)'
    BY <1>1, <1>2, <1>6, BufferAssumption
       DEF StoreInv, StoreTypeOK, OneOwner, Entries, Replaced
  <2>2. (Entries \cap evicted = {})'
    BY <1>1, <1>2, <1>6, <1>7 DEF StoreInv, OneOwner
  <2>3. (Live \cap retained = {})'
    BY <1>1, <1>2, <1>5, <1>6, <1>8 DEF StoreInv, OneOwner, Live
  <2> QED
    BY <2>1, <2>2, <2>3 DEF OneOwner
<1>14. /\ (\A c \in Buffers : leases[c] > 0 => c \in Live)'
       /\ (\A c \in evicted : leases[c] > 0)'
  BY <1>1, <1>2, <1>8 DEF StoreInv, StoreTypeOK
<1>15. (tracked = {c \in Live : Bytes[c] <= MaxPooled})'
  BY <1>1, <1>2, <1>5, <1>6, <1>8 DEF StoreInv, StoreTypeOK, Freed
<1>16. (older \subseteq Entries \X Entries)'
  BY <1>1, <1>2, <1>5, <1>6, <1>7 DEF StoreInv
<1>17. cached'[s] = b /\ content'[b] = s
  BY <1>1, <1>2, <1>5 DEF StoreInv, StoreTypeOK, Wiped
<1>18. (\A t \in Segments : cached[t] \in Buffers => content[cached[t]] = t)'
  <2>1. ASSUME NEW t \in Segments, t # s, cached'[t] \in Buffers
        PROVE  content'[cached'[t]] = t
    <3>1. cached'[t] = cached[t] /\ cached[t] \in Buffers /\ cached[t] \notin E
      BY <1>1, <2>1, BufferAssumption DEF StoreInv, StoreTypeOK
    <3>2. cached[t] \in rest
      BY <2>1, <3>1 DEF Entries, Replaced, StoreInv, OneOwner
    <3>3. cached[t] # b /\ cached[t] \notin K \cup L
      BY <1>2, <3>1, <3>2
    <3> QED
      BY <1>1, <2>1, <3>1, <3>3 DEF StoreInv, StoreTypeOK, Wiped
  <2> QED
    BY <1>17, <2>1
<1>19. RetainedBlank'
  BY <1>1, <1>2, <1>5, <1>6 DEF StoreInv, StoreTypeOK, RetainedBlank, Wiped
<1>20. ByteAccounting'
  <2>1. E # rest \cup {b}
    BY <1>5
  <2>2. total - Weight(E) <= MaxBytes
    BY <1>1, <2>1 DEF Overflow
  <2>3. totalBytes' = Weight(Entries')
    BY <1>1, <1>3, <1>4, <1>9
  <2> QED
    BY <1>1, <1>2, <1>10, <2>2, <2>3 DEF ByteAccounting
<1> QED
  BY <1>1, <1>11, <1>12, <1>13, <1>14, <1>15, <1>16, <1>17, <1>18, <1>19, <1>20
     DEF StoreInv, LeasesKept

\* What acquire leaves in the pool is counted.
LEMMA PoolCounted ==
  ASSUME StoreInv, NEW K \in SUBSET Live, NEW b
  PROVE  BytesLeft(K, b) = Weight((retained \cup K) \ {b})
<1> DEFINE whole  == retained \cup K
           reused == whole \cap {b}
<1>1. K \in SUBSET Buffers /\ retained \in SUBSET Buffers /\ retained \cap K = {}
  BY DEF StoreInv, StoreTypeOK, OneOwner, Live, Entries
<1>2. Weight(whole) = Weight(retained) + Weight(K)
  BY <1>1, WeightUnion
<1>3. Weight(whole \ reused) = Weight(whole) - Weight(reused)
  BY <1>1, WeightDifference
<1>4. whole \ reused = whole \ {b}
  OBVIOUS
<1>5. Weight(retained) \in Nat /\ Weight(K) \in Nat /\ Weight(reused) \in Nat
  BY <1>1, CellsFinite
<1>6. BytesLeft(K, b) = Weight(retained) + Weight(K) - Weight(reused)
  BY DEF BytesLeft, StoreInv, ByteAccounting
<1> HIDE DEF whole, reused
<1>7. BytesLeft(K, b) = Weight(whole \ {b})
  <2>1. Weight(whole \ {b}) = Weight(whole) - Weight(reused)
    BY <1>3, <1>4, Zenon
  <2> QED
    BY <1>2, <1>5, <1>6, <2>1
<1> QED
  BY <1>7 DEF whole

\* set, with either outcome.
LEMMA SetInv ==
  ASSUME StoreInv, NEW s \in Segments, NEW z \in Sizes, NEW held, Set(s, z, held)
  PROVE  /\ StoreInv' /\ LeasesKept
         /\ BucketSize(z) <= MaxBytes => cached'[s] \in Buffers /\ content'[cached'[s]] = s
<1> DEFINE old == Replaced(s)
<1>1. PICK K \in SUBSET Freed(old), b \in Buffers :
    /\ b \in Acquirable(z, retained \cup K, held)
    /\ LET pool   == (retained \cup K) \ {b}
           pooledBytes == BytesLeft(K, b)
       IN IF Bytes[b] > MaxBytes
          THEN Reject(old, K, b, pool, pooledBytes)
          ELSE Insert(s, b, BucketSize(z) <= MaxPooled, old, K, pool, pooledBytes)
  <2>1. \A K \in SUBSET Freed(old) : Acquirable(z, retained \cup K, held) \subseteq Buffers
    BY DEF Acquirable, Freed, StoreInv, StoreTypeOK
  <2> QED
    BY <2>1 DEF Set
<1> DEFINE pool   == (retained \cup K) \ {b}
           pooledBytes == BytesLeft(K, b)
<1>2. Bytes[b] = BucketSize(z)
  BY <1>1 DEF Acquirable
<1>3. /\ retained \cup K \in SUBSET Buffers /\ K \in SUBSET Buffers
      /\ K \subseteq Live /\ retained \cap Live = {}
  BY DEF Freed, Replaced, Live, Entries, StoreInv, StoreTypeOK, OneOwner
<1>4. pooledBytes = Weight(pool)
  BY <1>3, PoolCounted
<1>5. leases[b] = 0 /\ b \notin evicted /\ b \notin Entries \ old
  <2>1. CASE b \in K
    BY <2>1 DEF Freed, Replaced, Entries, StoreInv, OneOwner
  <2>2. CASE b \notin K
    <3>1. b \notin Live
      BY <1>1, <1>3, <2>2 DEF Acquirable
    <3> QED
      BY <3>1 DEF Live, StoreInv, StoreTypeOK
  <2> QED
    BY <2>1, <2>2
<1>6. Acquired(s, K, b, pool, pooledBytes)
  BY <1>1, <1>4, <1>5 DEF Acquired
<1>7. CASE Bytes[b] > MaxBytes
  <2>1. Reject(old, K, b, pool, pooledBytes)
    BY <1>1, <1>7
  <2>2. ~(BucketSize(z) <= MaxBytes)
    <3>1. Bytes[b] \in Nat /\ MaxBytes \in Nat
      BY BufferAssumption, LimitAssumption
    <3> QED
      BY <1>2, <1>7, <3>1
  <2> QED
    BY <1>6, <2>1, <2>2, RejectInv
<1>8. CASE ~(Bytes[b] > MaxBytes)
  <2>1. Insert(s, b, Bytes[b] <= MaxPooled, old, K, pool, pooledBytes)
    BY <1>1, <1>2, <1>8
  <2>2. Bytes[b] <= MaxBytes
    BY <1>8, BufferAssumption, LimitAssumption
  <2> QED
    BY <1>6, <2>1, <2>2, InsertInv
<1> QED
  BY <1>7, <1>8

-----------------------------------------------------------------------------
(* The upload server *)

\* The handlers holding a lease on entry b, given where each handler waits.
Holders(ph, bf, b) == {r \in Requests : ph[r] # "idle" /\ bf[r] = b}

\* The inductive invariant: the store is consistent, each entry counts exactly
\* its handlers, and every handler's bytes are those of its segment.  A handler
\* that paces its next chunk has one left to write.
IInv ==
  /\ TypeOK
  /\ \A r \in Requests : phase[r] = "pacing" => sent[r] < Chunks
  /\ StoreInv
  /\ \A b \in Buffers : leases[b] = Cardinality(Holders(phase, buf, b))
  /\ \A r \in Serving : buf[r] \in Buffers /\ content[buf[r]] = seg[r]
  /\ SlotAccounting

\* The handlers that lease an allocation are finitely many.
LEMMA HoldersFinite ==
  /\ IsFiniteSet(Serving)
  /\ \A ph, bf, b : IsFiniteSet(Holders(ph, bf, b))
BY UploadAssumption, FS_Subset DEF Serving, Holders

\* A handler's entry is leased.
LEMMA ServingLeased ==
  ASSUME IInv, NEW r \in Serving
  PROVE  leases[buf[r]] > 0
<1>1. r \in Holders(phase, buf, buf[r]) /\ buf[r] \in Buffers
  BY DEF Serving, Holders, IInv
<1>2. Holders(phase, buf, buf[r]) # {} /\ IsFiniteSet(Holders(phase, buf, buf[r]))
  BY <1>1, HoldersFinite
<1>3. Cardinality(Holders(phase, buf, buf[r])) \in Nat /\ Cardinality(Holders(phase, buf, buf[r])) # 0
  BY <1>2, FS_EmptySet, FS_CardinalityType
<1> QED
  BY <1>1, <1>3 DEF IInv

\* The inductive invariant implies what the module states.
LEMMA IInvImplies ==
  ASSUME IInv
  PROVE  LeasedBytesIntact /\ OneOwner /\ NoLeak /\ ByteAccounting
         /\ SlotAccounting /\ RetainedBlank
<1>1. LeasedBytesIntact
  <2> SUFFICES ASSUME NEW r \in Serving
               PROVE  /\ buf[r] \in Live
                      /\ buf[r] \notin retained
                      /\ content[buf[r]] = seg[r]
    BY DEF LeasedBytesIntact
  <2>1. leases[buf[r]] > 0 /\ buf[r] \in Buffers
    BY ServingLeased DEF IInv
  <2>2. buf[r] \in Live
    BY <2>1 DEF IInv, StoreInv
  <2> QED
    BY <2>2 DEF IInv, StoreInv, OneOwner
<1>2. NoLeak
  BY DEF NoLeak, IInv, StoreInv, Holders
<1> QED
  BY <1>1, <1>2 DEF IInv, StoreInv

\* A step of the cache that leaves leases alone leaves the handlers alone.
LEMMA CacheStepInv ==
  ASSUME IInv, StoreInv', LeasesKept, UNCHANGED uploadVars
  PROVE  IInv'
<1>1. /\ UNCHANGED <<listen, stopping, active>>
      /\ UNCHANGED <<phase, seg, buf, sent, open, queued>>
      /\ leases' = leases
  BY DEF uploadVars, requestVars, LeasesKept
<1>2. Serving' = Serving /\ (\A b : Holders(phase', buf', b) = Holders(phase, buf, b))
  BY <1>1 DEF Serving, Holders
<1>3. TypeOK'
  BY <1>1 DEF IInv, TypeOK, StoreInv
<1>4. (\A r \in Serving : buf[r] \in Buffers /\ content[buf[r]] = seg[r])'
  BY <1>1, <1>2, ServingLeased DEF IInv, LeasesKept
<1>5. \A b \in Buffers : leases'[b] = Cardinality(Holders(phase', buf', b))
  BY <1>1, <1>2 DEF IInv
<1>6. SlotAccounting'
  BY <1>1, <1>2 DEF IInv, SlotAccounting
<1> QED
  BY <1>1, <1>3, <1>4, <1>5, <1>6 DEF IInv

\* Steps that move no lease and no slot.
LEMMA QuietInv ==
  ASSUME IInv, TypeOK', UNCHANGED storeVars, UNCHANGED <<active, buf, seg>>,
         \A r \in Requests : phase'[r] = "idle" <=> phase[r] = "idle",
         \A r \in Requests : phase'[r] = "pacing" => sent'[r] < Chunks
  PROVE  IInv'
<1>1. /\ UNCHANGED <<cached, older, age, leases, evicted, totalBytes>>
      /\ UNCHANGED <<tracked, retained, retainedBytes, content>>
  BY DEF storeVars
<1>2. Entries' = Entries /\ Live' = Live
  BY <1>1 DEF Entries, Live
<1>3. StoreInv'
  BY <1>1, <1>2
     DEF IInv, StoreInv, StoreTypeOK, OneOwner, RetainedBlank, ByteAccounting
<1>4. Serving' = Serving /\ (\A b : Holders(phase', buf', b) = Holders(phase, buf, b))
  BY DEF Serving, Holders
<1>5. SlotAccounting'
  BY <1>4 DEF IInv, SlotAccounting
<1> QED
  BY <1>1, <1>3, <1>4, <1>5 DEF IInv

\* Accepting a request adds one handler, one slot and one lease.
LEMMA AcceptInv ==
  ASSUME IInv, NEW r \in Requests, NEW s \in Segments, Accept(r, s)
  PROVE  IInv'
<1> DEFINE b == cached[s]
<1>1. /\ phase[r] = "idle" /\ active < MaxConnections /\ Lease(s)
      /\ active' = active + 1
      /\ phase' = [phase EXCEPT ![r] = "pacing"]
      /\ seg' = [seg EXCEPT ![r] = s]
      /\ buf' = [buf EXCEPT ![r] = b]
      /\ sent' = [sent EXCEPT ![r] = 0]
      /\ open' = [open EXCEPT ![r] = TRUE]
      /\ UNCHANGED <<listen, stopping, queued>>
      /\ b \in Buffers
  BY DEF Accept, Lease
<1>2. /\ StoreInv'
      /\ content[b] = s
      /\ leases' = [leases EXCEPT ![b] = @ + 1]
      /\ content' = content
  BY <1>1, LeaseInv DEF IInv
<1>3. TypeOK'
  BY <1>1, <1>2, UploadAssumption DEF IInv, TypeOK, StoreInv
<1>4. Serving' = Serving \cup {r} /\ r \notin Serving
  BY <1>1 DEF Serving, IInv, TypeOK
<1>5. /\ Holders(phase', buf', b) = Holders(phase, buf, b) \cup {r} /\ r \notin Holders(phase, buf, b)
      /\ \A c \in Buffers : c # b => Holders(phase', buf', c) = Holders(phase, buf, c)
  BY <1>1 DEF Holders, IInv, TypeOK
<1>6. \A c \in Buffers : leases'[c] = Cardinality(Holders(phase', buf', c))
  <2>1. Cardinality(Holders(phase', buf', b)) = Cardinality(Holders(phase, buf, b)) + 1
    BY <1>5, HoldersFinite, FS_AddElement
  <2>2. leases'[b] = Cardinality(Holders(phase', buf', b))
    BY <1>1, <1>2, <2>1 DEF IInv, StoreInv, StoreTypeOK
  <2>3. ASSUME NEW c \in Buffers, c # b
        PROVE  leases'[c] = Cardinality(Holders(phase', buf', c))
    <3>1. leases[c] = Cardinality(Holders(phase, buf, c))
      BY DEF IInv
    <3>2. leases'[c] = leases[c]
      BY <1>2, <2>3 DEF IInv, StoreInv, StoreTypeOK
    <3>3. Holders(phase', buf', c) = Holders(phase, buf, c)
      BY <1>5, <2>3
    <3> QED
      BY <3>1, <3>2, <3>3
  <2> QED
    BY <2>2, <2>3
<1>7. (\A q \in Serving : buf[q] \in Buffers /\ content[buf[q]] = seg[q])'
  BY <1>1, <1>2, <1>4 DEF IInv, TypeOK
<1>8. SlotAccounting'
  <2>1. Cardinality(Serving') = Cardinality(Serving) + 1
    BY <1>4, HoldersFinite, FS_AddElement
  <2> QED
    BY <1>1, <2>1, UploadAssumption DEF IInv, SlotAccounting, TypeOK
<1>9. \A q \in Requests : phase'[q] = "pacing" => sent'[q] < Chunks
  BY <1>1, UploadAssumption DEF IInv, TypeOK
<1> QED
  BY <1>2, <1>3, <1>6, <1>7, <1>8, <1>9 DEF IInv

\* Every way a handler ends gives back one slot and one lease.
LEMMA FinishInv ==
  ASSUME IInv, NEW r \in Serving, NEW waiting \in Nat, Finish(r, waiting)
  PROVE  IInv'
<1> DEFINE b == buf[r]
<1>1. /\ Release(b)
      /\ active' = active - 1
      /\ phase' = [phase EXCEPT ![r] = "idle"]
      /\ open' = [open EXCEPT ![r] = waiting > 0]
      /\ queued' = [queued EXCEPT ![r] = waiting]
      /\ sent' = [sent EXCEPT ![r] = 0]
      /\ UNCHANGED <<listen, stopping, seg, buf>>
      /\ b \in Buffers /\ r \in Requests /\ phase[r] # "idle"
  BY DEF Finish, IInv, Serving
<1>2. /\ StoreInv'
      /\ leases' = [leases EXCEPT ![b] = @ - 1]
      /\ \A c \in Buffers : leases'[c] > 0 => content'[c] = content[c]
  BY <1>1, ServingLeased, ReleaseInv DEF IInv
<1>3. Serving' = Serving \ {r}
  BY <1>1 DEF Serving, IInv, TypeOK
<1>4. Cardinality(Serving') = Cardinality(Serving) - 1 /\ Cardinality(Serving) \in Nat
  BY <1>3, HoldersFinite, FS_RemoveElement, FS_CardinalityType
<1>5. Cardinality(Serving) # 0
  BY HoldersFinite, FS_EmptySet
<1>6. TypeOK'
  <2>1. active' \in Nat
    BY <1>1, <1>4, <1>5 DEF IInv, SlotAccounting
  <2> QED
    BY <1>1, <1>2, <2>1, UploadAssumption DEF IInv, TypeOK, StoreInv
<1>7. /\ Holders(phase', buf', b) = Holders(phase, buf, b) \ {r} /\ r \in Holders(phase, buf, b)
      /\ \A c \in Buffers : c # b => Holders(phase', buf', c) = Holders(phase, buf, c)
  BY <1>1 DEF Holders, IInv, TypeOK
<1>8. \A c \in Buffers : leases'[c] = Cardinality(Holders(phase', buf', c))
  <2>1. Cardinality(Holders(phase', buf', b)) = Cardinality(Holders(phase, buf, b)) - 1
    <3> DEFINE H == Holders(phase, buf, b)
    <3>1. IsFiniteSet(H) /\ r \in H
      BY <1>7, HoldersFinite
    <3>2. Cardinality(H \ {r}) = Cardinality(H) - 1
      <4> HIDE DEF H
      <4> QED
        BY <3>1, FS_RemoveElement
    <3> QED
      BY <1>7, <3>2
  <2>2. leases'[b] = Cardinality(Holders(phase', buf', b))
    BY <1>1, <1>2, <2>1 DEF IInv, StoreInv, StoreTypeOK
  <2>3. ASSUME NEW c \in Buffers, c # b
        PROVE  leases'[c] = Cardinality(Holders(phase', buf', c))
    <3>1. leases[c] = Cardinality(Holders(phase, buf, c))
      BY DEF IInv
    <3>2. leases'[c] = leases[c]
      BY <1>2, <2>3 DEF IInv, StoreInv, StoreTypeOK
    <3>3. Holders(phase', buf', c) = Holders(phase, buf, c)
      BY <1>7, <2>3
    <3> QED
      BY <3>1, <3>2, <3>3
  <2> QED
    BY <2>2, <2>3
<1>9. (\A q \in Serving : buf[q] \in Buffers /\ content[buf[q]] = seg[q])'
  <2> SUFFICES ASSUME NEW q \in Serving'
               PROVE  buf[q] \in Buffers /\ content'[buf[q]] = seg[q]
    BY <1>1
  <2>1. q \in Serving /\ q # r /\ buf[q] \in Buffers /\ content[buf[q]] = seg[q]
    BY <1>3 DEF IInv
  <2>2. q \in Holders(phase', buf', buf[q])
    <3>1. q \in Holders(phase, buf, buf[q])
      BY <2>1 DEF Holders, Serving
    <3>2. CASE buf[q] = b
      BY <1>7, <2>1, <3>1, <3>2
    <3>3. CASE buf[q] # b
      BY <1>7, <2>1, <3>1, <3>3
    <3> QED
      BY <3>2, <3>3
  <2>3. /\ Cardinality(Holders(phase', buf', buf[q])) \in Nat
        /\ Cardinality(Holders(phase', buf', buf[q])) # 0
    BY <2>2, HoldersFinite, FS_EmptySet, FS_CardinalityType
  <2>4. leases'[buf[q]] > 0
    BY <1>8, <2>1, <2>3
  <2> QED
    BY <1>2, <2>1, <2>4
<1>10. SlotAccounting'
  BY <1>1, <1>4, UploadAssumption DEF IInv, SlotAccounting
<1>11. \A q \in Requests : phase'[q] = "pacing" => sent'[q] < Chunks
  BY <1>1 DEF IInv, TypeOK
<1> QED
  BY <1>2, <1>6, <1>8, <1>9, <1>10, <1>11 DEF IInv

\* The program starts with an empty cache, an empty pool and no request.
LEMMA InitInv == Init => IInv
<1> SUFFICES ASSUME Init PROVE IInv
  OBVIOUS
<1> USE DEF Init, StoreInit
<1>1. Entries = {} /\ Live = {} /\ Serving = {}
  BY BufferAssumption DEF Entries, Live, Serving
<1>2. TypeOK
  <2>1. StoreTypeOK
    BY BufferAssumption, LimitAssumption DEF StoreTypeOK
  <2>2. 0 \in 0..Chunks /\ 0 \in Nat
    BY UploadAssumption
  <2> QED
    BY <2>1, <2>2 DEF TypeOK
<1>3. StoreInv
  BY <1>1, <1>2, WeightEmpty, BufferAssumption, LimitAssumption
     DEF TypeOK, StoreInv, OneOwner, RetainedBlank, ByteAccounting
<1>4. \A b \in Buffers : leases[b] = Cardinality(Holders(phase, buf, b))
  <2>1. \A b \in Buffers : Holders(phase, buf, b) = {}
    BY DEF Holders
  <2> QED
    BY <2>1, FS_EmptySet
<1>5. SlotAccounting
  BY <1>1, FS_EmptySet, UploadAssumption DEF SlotAccounting
<1> QED
  BY <1>1, <1>2, <1>3, <1>4, <1>5, UploadAssumption DEF IInv

\* A handler's step writes a chunk and waits again, or finishes.
LEMMA HandlerInv ==
  ASSUME IInv, NEW r \in Requests, Handler(r)
  PROVE  IInv'
<1> USE DEF Serving
<1>1. queued[r] \in Nat /\ sent[r] \in 0..Chunks /\ 0 \in Nat
  BY DEF IInv, TypeOK
<1>2. CASE WriteChunk(r)
  <2> DEFINE waiting == queued[r] + 1
  <2>1. CASE sent[r] + 1 = Chunks /\ Finish(r, waiting)
    BY <1>1, <1>2, <2>1, FinishInv DEF WriteChunk
  <2>2. CASE /\ waiting >= HighWater \/ sent[r] + 1 # Chunks
             /\ phase' = [phase EXCEPT
                  ![r] = IF waiting >= HighWater THEN "blocked" ELSE "pacing"]
             /\ sent' = [sent EXCEPT ![r] = @ + 1]
             /\ queued' = [queued EXCEPT ![r] = waiting]
             /\ UNCHANGED <<storeVars, listen, stopping, active, seg, buf, open>>
    <3>1. phase[r] = "pacing"
      BY <1>2 DEF WriteChunk
    <3>2. sent[r] < Chunks
      BY <3>1 DEF IInv
    <3>3. TypeOK'
      BY <1>1, <2>2, <3>2, UploadAssumption DEF IInv, TypeOK, StoreTypeOK, storeVars
    <3>4. \A q \in Requests : phase'[q] = "pacing" => sent'[q] < Chunks
      BY <1>1, <2>2, <3>2, UploadAssumption DEF IInv, TypeOK
    <3> QED
      BY <2>2, <3>1, <3>3, <3>4, QuietInv DEF IInv, TypeOK
  <2> QED
    BY <1>2, <2>1, <2>2 DEF WriteChunk
<1>3. CASE Abandon(r)
  BY <1>1, <1>3, FinishInv DEF Abandon
<1>4. CASE Drained(r)
  <2>1. CASE Finish(r, 0)
    BY <1>1, <1>4, <2>1, FinishInv DEF Drained
  <2>2. CASE /\ phase' = [phase EXCEPT ![r] = "pacing"]
             /\ sent[r] < Chunks
             /\ UNCHANGED <<storeVars, listen, stopping, active, seg, buf, sent,
                            open, queued>>
    <3>1. phase[r] = "blocked"
      BY <1>4 DEF Drained
    <3>2. TypeOK'
      BY <2>2 DEF IInv, TypeOK, StoreTypeOK, storeVars
    <3>3. \A q \in Requests : phase'[q] = "pacing" => sent'[q] < Chunks
      BY <2>2 DEF IInv, TypeOK
    <3> QED
      BY <2>2, <3>1, <3>2, <3>3, QuietInv DEF IInv, TypeOK
  <2> QED
    BY <1>4, <2>1, <2>2 DEF Drained
<1>5. CASE ClosedWhileBlocked(r)
  BY <1>1, <1>5, FinishInv DEF ClosedWhileBlocked
<1>6. CASE Stalled(r)
  BY <1>1, <1>6, FinishInv DEF Stalled
<1> QED
  BY <1>2, <1>3, <1>4, <1>5, <1>6 DEF Handler

\* What the network and the owner of the server do moves no lease.
LEMMA OutsideInv ==
  ASSUME IInv,
         \/ Start \/ Stop \/ CloseServer
         \/ \E outcome \in {"open", "idle"} : Opened(outcome)
         \/ \E r \in Requests : Flush(r) \/ Disconnect(r)
  PROVE  IInv'
<1>1. UNCHANGED storeVars /\ UNCHANGED <<active, phase, buf, seg, sent>>
  BY DEF Start, Stop, CloseServer, Opened, Flush, Disconnect, requestVars
<1>2. TypeOK'
  <2>1. StoreTypeOK'
    BY <1>1 DEF IInv, TypeOK, StoreTypeOK, storeVars
  <2>2. CASE Start \/ Stop \/ \E outcome \in {"open", "idle"} : Opened(outcome)
    BY <2>1, <2>2 DEF Start, Stop, Opened, requestVars, IInv, TypeOK
  <2>3. CASE CloseServer
    BY <2>1, <2>3 DEF CloseServer, IInv, TypeOK
  <2>4. ASSUME NEW r \in Requests, Flush(r)
        PROVE  TypeOK'
    BY <2>1, <2>4 DEF Flush, IInv, TypeOK
  <2>5. ASSUME NEW r \in Requests, Disconnect(r)
        PROVE  TypeOK'
    BY <2>1, <2>5 DEF Disconnect, IInv, TypeOK
  <2> QED
    BY <2>2, <2>3, <2>4, <2>5
<1> QED
  BY <1>1, <1>2, QuietInv DEF IInv

\* A step of the cache, by the fetcher, a lookup, a sweep or the clock.
LEMMA CacheInv ==
  ASSUME IInv, CacheStep
  PROVE  IInv'
<1>1. StoreInv' /\ LeasesKept /\ UNCHANGED uploadVars
  <2>1. ASSUME NEW s \in Segments, NEW z \in Sizes, Store(s, z)
        PROVE  StoreInv' /\ LeasesKept /\ UNCHANGED uploadVars
    BY <2>1, SetInv DEF Store, IInv
  <2>2. ASSUME NEW s \in Segments, Read(s)
        PROVE  StoreInv' /\ LeasesKept /\ UNCHANGED uploadVars
    BY <2>2, TouchInv DEF Read, IInv
  <2>3. ASSUME \/ \E s \in Segments : Expire(s)
               \/ Sweep \/ ClearCache
        PROVE  StoreInv' /\ LeasesKept /\ UNCHANGED uploadVars
    BY <2>3, SweepInv DEF Expire, Sweep, ClearCache, IInv
  <2>4. CASE Time
    BY <2>4, TickInv DEF Time, IInv
  <2> QED
    BY <2>1, <2>2, <2>3, <2>4 DEF CacheStep
<1> QED
  BY <1>1, CacheStepInv

\* Every step preserves the inductive invariant.
LEMMA NextInv == IInv /\ [Next]_vars => IInv'
<1> SUFFICES ASSUME IInv, [Next]_vars PROVE IInv'
  OBVIOUS
<1>1. CASE Start \/ Stop \/ CloseServer
           \/ \E outcome \in {"open", "idle"} : Opened(outcome)
  BY <1>1, OutsideInv
<1>2. ASSUME NEW r \in Requests, NEW s \in Segments, Accept(r, s)
      PROVE  IInv'
  BY <1>2, AcceptInv
<1>3. ASSUME NEW r \in Requests, Handler(r)
      PROVE  IInv'
  BY <1>3, HandlerInv
<1>4. ASSUME NEW r \in Requests, Flush(r) \/ Disconnect(r)
      PROVE  IInv'
  BY <1>4, OutsideInv
<1>5. CASE CacheStep
  BY <1>5, CacheInv
<1>6. CASE UNCHANGED vars
  <2>1. UNCHANGED storeVars /\ UNCHANGED <<active, phase, buf, seg, sent>>
    BY <1>6 DEF vars, requestVars
  <2>2. TypeOK'
    BY <1>6 DEF vars, requestVars, storeVars, IInv, TypeOK, StoreTypeOK
  <2> QED
    BY <2>1, <2>2, QuietInv DEF IInv
<1> QED
  BY <1>1, <1>2, <1>3, <1>4, <1>5, <1>6 DEF Next

\* IInv holds in every state: it starts true and every step keeps it.
THEOREM Invariance == Spec => []IInv
BY InitInv, NextInv, PTL DEF Spec

\* The variables have their types: no counter of bytes, leases or upload slots
\* ever goes below zero.
THEOREM TypeCorrect == Spec => []TypeOK
<1>1. IInv => TypeOK
  BY DEF IInv
<1> QED
  BY <1>1, Invariance, PTL

\* While an upload runs its bytes are those of its segment (uploader.ts, the
\* lease around writeLimited), whatever the cache does meanwhile.
THEOREM UploadsReadTheirSegment == Spec => []LeasedBytesIntact
BY IInvImplies, Invariance, PTL

\* No allocation is ever in two hands (cache.ts, buffer-pool.ts).
THEOREM BuffersAreOwned == Spec => []OneOwner
BY IInvImplies, Invariance, PTL

\* No allocation is lost: an evicted entry lives on only under a lease, each
\* entry counts exactly its handlers, and the pool awaits the live views that
\* it may keep (cache.ts: remove, release; buffer-pool.ts: leases).
THEOREM NothingLeaks == Spec => []NoLeak
BY IInvImplies, Invariance, PTL

\* The byte counters of the cache and the pool are exact, the cache stays
\* within maxBytes and the pool offers only zeroed allocations.
THEOREM BytesAreCounted == Spec => [](ByteAccounting /\ RetainedBlank)
<1>1. IInv => ByteAccounting /\ RetainedBlank
  BY IInvImplies
<1> QED
  BY <1>1, Invariance, PTL

\* activeConnections counts the running uploads and respects maxConnections.
THEOREM SlotsAreCounted == Spec => []SlotAccounting
BY IInvImplies, Invariance, PTL

\* set never evicts what it just stored.
THEOREM StoreSurvives == Spec => StoredSurvives
<1> DEFINE A == \A s \in Segments, z \in Sizes :
                  /\ cached'[s] = NoBuffer /\ cached' # cached
                  /\ BucketSize(z) <= MaxBytes
                  => ~Store(s, z)
<1>1. IInv => A
  <2> SUFFICES ASSUME IInv, NEW s \in Segments, NEW z \in Sizes, Store(s, z),
                      cached'[s] = NoBuffer, BucketSize(z) <= MaxBytes
               PROVE  FALSE
    BY Zenon
  <2> QED
    BY SetInv, BufferAssumption DEF Store, IInv
<1>2. IInv /\ [Next]_vars => [A]_vars
  BY <1>1
<1> QED
  BY <1>2, Invariance, PTL DEF Spec, StoredSurvives

-----------------------------------------------------------------------------
(* The limits of the pool.  BufferPool.release checks them for one view at a *)
(* time, and what it has taken before in the same operation is what precedes *)
(* the view in the Map: the proof needs that the Map orders its entries.     *)

Bounded(P) ==
  /\ Weight(P) <= MaxRetainedBytes
  /\ \A b \in P : Cardinality({c \in P : Bytes[c] = Bytes[b]}) <= MaxRetainedPerBucket

\* order is a strict total order of S.
Orders(order, S) ==
  /\ \A b \in S : <<b, b>> \notin order
  /\ \A b, c, d \in S : <<b, c>> \in order /\ <<c, d>> \in order => <<b, d>> \in order
  /\ \A b, c \in S : b # c => <<b, c>> \in order \/ <<c, b>> \in order

PoolInv == Bounded(retained) /\ Orders(older, Entries)

\* The weight of a part is no more than that of the whole.
LEMMA WeightMonotone ==
  ASSUME NEW B \in SUBSET Buffers, NEW A \in SUBSET B
  PROVE  Weight(A) <= Weight(B)
<1>1. Weight(B \ A) = Weight(B) - Weight(A)
  BY WeightDifference
<1>2. A \in SUBSET Buffers /\ (B \ A) \in SUBSET Buffers
  OBVIOUS
<1>3. Weight(A) \in Nat /\ Weight(B) \in Nat /\ Weight(B \ A) \in Nat
  BY <1>2, CellsFinite
<1> QED
  BY <1>1, <1>3

\* A pool that gives an allocation away stays within its limits.
LEMMA BoundedPart ==
  ASSUME NEW P \in SUBSET Buffers, Bounded(P), NEW Q \in SUBSET P
  PROVE  Bounded(Q)
<1>1. Weight(Q) <= Weight(P) /\ Weight(Q) \in Nat /\ Weight(P) \in Nat
  <2>1. Q \in SUBSET Buffers
    OBVIOUS
  <2> QED
    BY <2>1, WeightMonotone, CellsFinite
<1>2. ASSUME NEW b \in Q
      PROVE  Cardinality({c \in Q : Bytes[c] = Bytes[b]}) <= MaxRetainedPerBucket
  <2> DEFINE A == {c \in Q : Bytes[c] = Bytes[b]}
             B == {c \in P : Bytes[c] = Bytes[b]}
  <2>1. IsFiniteSet(B) /\ A \in SUBSET B /\ B \in SUBSET Buffers
    BY BufferAssumption, FS_Subset
  <2>2. Cardinality(A) <= Cardinality(B) /\ IsFiniteSet(A)
    <3> HIDE DEF A, B
    <3> QED
      BY <2>1, FS_Subset
  <2>3. Cardinality(A) \in Nat /\ Cardinality(B) \in Nat
    BY <2>1, <2>2, FS_CardinalityType
  <2>4. Cardinality(B) <= MaxRetainedPerBucket
    BY DEF Bounded
  <2> QED
    BY <2>2, <2>3, <2>4, LimitAssumption
<1> QED
  BY <1>1, <1>2, LimitAssumption DEF Bounded

\* The last of some ordered allocations.
LEMMA LastOf ==
  ASSUME NEW K \in SUBSET Buffers, K # {}, NEW order, Orders(order, K)
  PROVE  \E k \in K : \A c \in K \ {k} : <<c, k>> \in order
<1> DEFINE After(k) == {c \in K : <<k, c>> \in order}
           ranks == {Cardinality(After(k)) : k \in K}
<1>1. \A k \in K : IsFiniteSet(After(k)) /\ Cardinality(After(k)) \in Nat
  <2> SUFFICES ASSUME NEW k \in K PROVE IsFiniteSet(After(k))
    BY FS_CardinalityType
  <2>1. After(k) \in SUBSET Buffers
    OBVIOUS
  <2> HIDE DEF After
  <2> QED
    BY <2>1, BufferAssumption, FS_Subset
<1>2. ranks \subseteq Nat /\ ranks # {}
  BY <1>1
<1>3. PICK x \in ranks : \A y \in ranks : ~(<<y, x>> \in OpToRel(<, Nat))
  <2> HIDE DEF ranks
  <2> QED
    BY <1>2, WFMin, NatLessThanWellFounded, Zenon
<1>4. PICK k \in K : x = Cardinality(After(k))
  OBVIOUS
<1>5. ASSUME NEW c \in K PROVE ~(Cardinality(After(c)) < Cardinality(After(k)))
  <2>1. Cardinality(After(c)) \in ranks
    OBVIOUS
  <2>2. ~(<<Cardinality(After(c)), Cardinality(After(k))>> \in OpToRel(<, Nat))
    BY <1>3, <1>4, <2>1
  <2>3. <<Cardinality(After(c)), Cardinality(After(k))>> \in Nat \X Nat
    BY <1>1
  <2> HIDE DEF After
  <2> QED
    BY <2>2, <2>3 DEF OpToRel
<1>6. ASSUME NEW c \in K, c # k PROVE <<c, k>> \in order
  <2>1. SUFFICES ASSUME <<k, c>> \in order PROVE FALSE
    BY <1>6 DEF Orders
  <2>2. After(c) \subseteq After(k)
    BY <2>1 DEF Orders
  <2>3. c \in After(k) /\ c \notin After(c)
    BY <2>1 DEF Orders
  <2>4. Cardinality(After(c)) <= Cardinality(After(k))
        /\ Cardinality(After(c)) # Cardinality(After(k))
    <3> HIDE DEF After
    <3> QED
      BY <1>1, <2>2, <2>3, FS_Subset
  <2>5. Cardinality(After(c)) \in Nat /\ Cardinality(After(k)) \in Nat
    BY <1>1
  <2> QED
    BY <1>5, <2>4, <2>5
<1> QED
  BY <1>6

\* What release keeps of several views stays within the limits.
LEMMA KeepsBounded ==
  ASSUME NEW P \in SUBSET Buffers, Bounded(P), NEW freed \in SUBSET Buffers,
         P \cap freed = {}, NEW K, NEW order, Orders(order, freed),
         Keeps(K, freed, order, P, Weight(P))
  PROVE  Bounded(P \cup K)
<1>1. K \subseteq freed /\ K \in SUBSET Buffers /\ P \cap K = {}
  BY DEF Keeps
<1>2. ASSUME NEW k \in K
      PROVE  LET before == {c \in K : <<c, k>> \in order}
             IN /\ Cardinality({c \in P \cup before : Bytes[c] = Bytes[k]}) < MaxRetainedPerBucket
                /\ Weight(P) + Weight(before) + Bytes[k] <= MaxRetainedBytes
  BY <1>1 DEF Keeps
<1>3. Weight(P \cup K) <= MaxRetainedBytes
  <2>1. CASE K = {}
    BY <2>1 DEF Bounded
  <2>2. CASE K # {}
    <3>1. Orders(order, K)
      BY <1>1 DEF Orders
    <3>2. PICK k \in K : \A c \in K \ {k} : <<c, k>> \in order
      BY <1>1, <2>2, <3>1, LastOf
    <3>3. {c \in K : <<c, k>> \in order} = K \ {k}
      BY <3>1, <3>2 DEF Orders
    <3>4. Weight(P) + Weight(K \ {k}) + Bytes[k] <= MaxRetainedBytes
      BY <1>2, <3>3
    <3>5. Weight(K \ {k}) = Weight(K) - Weight({k}) /\ Weight({k}) = Bytes[k]
      BY <1>1, WeightDifference, WeightSingle
    <3>6. Weight(P \cup K) = Weight(P) + Weight(K)
      BY <1>1, WeightUnion
    <3>7. Weight(P) \in Nat /\ Weight(K) \in Nat /\ Bytes[k] \in Nat
      BY <1>1, CellsFinite, BufferAssumption
    <3> QED
      BY <3>4, <3>5, <3>6, <3>7
  <2> QED
    BY <2>1, <2>2
<1>4. ASSUME NEW b \in P \cup K
      PROVE  Cardinality({c \in P \cup K : Bytes[c] = Bytes[b]}) <= MaxRetainedPerBucket
  <2> DEFINE Same == {c \in K : Bytes[c] = Bytes[b]}
             all == {c \in P \cup K : Bytes[c] = Bytes[b]}
  <2>1. CASE Same = {}
    <3>1. b \in P /\ all = {c \in P : Bytes[c] = Bytes[b]}
      BY <2>1
    <3> QED
      BY <3>1 DEF Bounded
  <2>2. CASE Same # {}
    <3>1. Orders(order, Same) /\ Same \in SUBSET Buffers
      BY <1>1 DEF Orders
    <3>2. PICK k \in Same : \A c \in Same \ {k} : <<c, k>> \in order
      <4> HIDE DEF Same
      <4> QED
        BY <2>2, <3>1, LastOf
    <3> DEFINE before == {c \in K : <<c, k>> \in order}
               others == {c \in P \cup before : Bytes[c] = Bytes[k]}
    <3>3. all \subseteq others \cup {k} /\ others \in SUBSET Buffers
      BY <1>1, <3>2
    <3>4. Cardinality(others) < MaxRetainedPerBucket
      BY <1>2, <3>2
    <3> HIDE DEF others, all
    <3>5. IsFiniteSet(others)
      BY <3>3, BufferAssumption, FS_Subset
    <3>6. /\ IsFiniteSet(others \cup {k}) /\ Cardinality(others) \in Nat
          /\ Cardinality(others \cup {k}) <= Cardinality(others) + 1
      <4>1. Cardinality(others) \in Nat
        BY <3>5, FS_CardinalityType
      <4>2. /\ IsFiniteSet(others \cup {k})
            /\ Cardinality(others \cup {k}) =
                 IF k \in others THEN Cardinality(others) ELSE Cardinality(others) + 1
        BY <3>5, FS_AddElement
      <4> QED
        BY <4>1, <4>2
    <3>7. Cardinality(all) <= Cardinality(others \cup {k}) /\ IsFiniteSet(all)
      BY <3>3, <3>6, FS_Subset
    <3>8. Cardinality(all) \in Nat /\ Cardinality(others \cup {k}) \in Nat
      BY <3>6, <3>7, FS_CardinalityType
    <3> QED
      BY <3>4, <3>6, <3>7, <3>8, LimitAssumption DEF all
  <2> QED
    BY <2>1, <2>2
<1> QED
  BY <1>3, <1>4 DEF Bounded

\* One view has no others to follow.
LEMMA OrdersOne ==
  ASSUME NEW S, NEW b, S \subseteq {b}
  PROVE  Orders({}, S)
BY DEF Orders

LEMMA RemovePool ==
  ASSUME StoreInv, PoolInv, NEW R \in SUBSET Entries, RemoveEntries(R)
  PROVE  PoolInv'
<1>1. PICK K \in SUBSET Freed(R) :
    /\ Keeps(K, Freed(R), older, retained, retainedBytes)
    /\ cached' = [s \in Segments |-> IF cached[s] \in R THEN NoBuffer ELSE cached[s]]
    /\ older' = {p \in older : p[1] \notin R /\ p[2] \notin R}
    /\ retained' = retained \cup K
  BY DEF RemoveEntries
<1>2. /\ Freed(R) \subseteq Entries /\ Entries \subseteq Buffers
      /\ retained \in SUBSET Buffers /\ Freed(R) \in SUBSET Buffers
      /\ retained \cap Freed(R) = {} /\ retainedBytes = Weight(retained)
  BY DEF Freed, Entries, StoreInv, StoreTypeOK, OneOwner, Live, ByteAccounting
<1>3. Orders(older, Freed(R))
  BY <1>2 DEF PoolInv, Orders
<1>4. Bounded(retained \cup K)
  BY <1>1, <1>2, <1>3, KeepsBounded DEF PoolInv
<1>5. Entries' = Entries \ R
  BY <1>1, <1>2, BufferAssumption DEF Entries, StoreInv, StoreTypeOK
<1>6. Orders(older', Entries')
  BY <1>1, <1>5 DEF PoolInv, Orders
<1> QED
  BY <1>1, <1>4, <1>6 DEF PoolInv, Bounded

LEMMA MostRecentPool ==
  ASSUME StoreInv, PoolInv, NEW b \in Entries, older' = MostRecent(b),
         cached' = cached, retained' = retained
  PROVE  PoolInv'
<1>1. Entries' = Entries
  BY DEF Entries
<1>2. Orders(older', Entries)
  BY DEF PoolInv, Orders, MostRecent
<1> QED
  BY <1>1, <1>2 DEF PoolInv, Bounded

LEMMA ReleasePool ==
  ASSUME StoreInv, PoolInv, NEW b \in Buffers, Release(b)
  PROVE  PoolInv'
<1> DEFINE freed == IF b \in evicted /\ leases[b] = 1 /\ b \in tracked THEN {b} ELSE {}
<1>1. PICK K \in SUBSET freed :
    /\ Keeps(K, freed, {}, retained, retainedBytes)
    /\ retained' = retained \cup K
    /\ UNCHANGED <<cached, older>>
  BY DEF Release
<1>2. /\ retained \in SUBSET Buffers /\ freed \in SUBSET Buffers
      /\ retained \cap freed = {} /\ retainedBytes = Weight(retained)
  BY DEF StoreInv, StoreTypeOK, OneOwner, Live, ByteAccounting
<1>3. Orders({}, freed)
  BY OrdersOne
<1> HIDE DEF freed
<1>4. Bounded(retained \cup K)
  BY <1>1, <1>2, <1>3, KeepsBounded DEF PoolInv
<1>5. Entries' = Entries
  BY <1>1 DEF Entries
<1> QED
  BY <1>1, <1>4, <1>5 DEF PoolInv, Bounded

LEMMA RejectPool ==
  ASSUME StoreInv, PoolInv, NEW s \in Segments, NEW K, NEW b \in Buffers, NEW P \in SUBSET Buffers,
         Bounded(P), b \notin P, Reject(Replaced(s), K, b, P, Weight(P))
  PROVE  PoolInv'
<1> DEFINE old == Replaced(s)
<1>1. PICK L \in SUBSET {b} :
    /\ Keeps(L, {b}, {}, P, Weight(P))
    /\ cached' = [t \in Segments |-> IF cached[t] \in old THEN NoBuffer ELSE cached[t]]
    /\ older' = {p \in older : p[1] \notin old /\ p[2] \notin old}
    /\ retained' = P \cup L
  BY DEF Reject
<1>2. Bounded(P \cup L)
  BY <1>1, OrdersOne, KeepsBounded
<1>3. Entries' = Entries \ old
  BY <1>1, BufferAssumption DEF Entries, Replaced, StoreInv, StoreTypeOK
<1>4. Orders(older', Entries')
  BY <1>1, <1>3 DEF PoolInv, Orders
<1> QED
  BY <1>1, <1>2, <1>4 DEF PoolInv, Bounded

LEMMA InsertPool ==
  ASSUME StoreInv, PoolInv, NEW s \in Segments, NEW K, NEW b, NEW P \in SUBSET Buffers,
         Bounded(P), Acquired(s, K, b, P, Weight(P)), NEW pooled,
         Insert(s, b, pooled, Replaced(s), K, P, Weight(P))
  PROVE  PoolInv'
<1> DEFINE old   == Replaced(s)
           rest  == Entries \ old
           order == {p \in older : p[1] \notin old /\ p[2] \notin old}
                      \cup {<<c, b>> : c \in rest}
           named == [cached EXCEPT ![s] = b]
<1>1. PICK E \in SUBSET (rest \cup {b}), L \in SUBSET Buffers :
    /\ L \subseteq Freed(E)
    /\ Keeps(L, Freed(E), order, P, Weight(P))
    /\ cached' = [t \in Segments |-> IF named[t] \in E THEN NoBuffer ELSE named[t]]
    /\ older' = {p \in order : p[1] \notin E /\ p[2] \notin E}
    /\ retained' = P \cup L
  BY DEF Insert, Freed, StoreInv, StoreTypeOK
<1>2. /\ Freed(E) \subseteq E /\ Freed(E) \in SUBSET Buffers
      /\ b \notin rest /\ P \cap Freed(E) = {}
  <2>1. Freed(E) \subseteq E /\ Freed(E) \in SUBSET Buffers
    BY DEF Freed, StoreInv, StoreTypeOK
  <2>2. b \notin rest /\ b \notin P
    BY DEF Acquired
  <2>3. P \subseteq retained \cup old
    BY DEF Acquired, Freed
  <2>4. rest \cap (retained \cup old) = {}
    BY DEF StoreInv, OneOwner, Live
  <2> QED
    BY <2>1, <2>2, <2>3, <2>4
<1>3. Orders(order, rest \cup {b})
  BY <1>2 DEF PoolInv, Orders, StoreInv
<1>4. Orders(order, Freed(E))
  BY <1>2, <1>3 DEF Orders
<1>5. Bounded(P \cup L)
  <2> HIDE DEF order
  <2> QED
    BY <1>1, <1>2, <1>4, KeepsBounded
<1>6. Entries' \subseteq (rest \cup {b}) \ E
  BY <1>1, BufferAssumption DEF Entries, Replaced, StoreInv, StoreTypeOK, OneOwner
<1>7. Orders(older', Entries')
  BY <1>1, <1>3, <1>6 DEF Orders
<1> QED
  BY <1>1, <1>5, <1>7 DEF PoolInv, Bounded

LEMMA SetPool ==
  ASSUME StoreInv, PoolInv, NEW s \in Segments, NEW z, NEW held, Set(s, z, held)
  PROVE  PoolInv'
<1> DEFINE old == Replaced(s)
<1>1. PICK K \in SUBSET Freed(old), b \in Buffers :
    /\ Keeps(K, Freed(old), {}, retained, retainedBytes)
    /\ b \in Acquirable(z, retained \cup K, held)
    /\ LET pool   == (retained \cup K) \ {b}
           pooledBytes == BytesLeft(K, b)
       IN IF Bytes[b] > MaxBytes
          THEN Reject(old, K, b, pool, pooledBytes)
          ELSE Insert(s, b, BucketSize(z) <= MaxPooled, old, K, pool, pooledBytes)
  <2>1. \A K \in SUBSET Freed(old) : Acquirable(z, retained \cup K, held) \subseteq Buffers
    BY DEF Acquirable, Freed, StoreInv, StoreTypeOK
  <2> QED
    BY <2>1 DEF Set
<1> DEFINE pool == (retained \cup K) \ {b}
<1>2. /\ K \subseteq Live /\ Freed(old) \in SUBSET Buffers /\ Freed(old) \subseteq {cached[s]}
      /\ retained \in SUBSET Buffers /\ retained \cap Live = {} /\ Freed(old) \subseteq Live
      /\ retainedBytes = Weight(retained)
  BY DEF Freed, Replaced, Live, Entries, StoreInv, StoreTypeOK, OneOwner, ByteAccounting
<1>3. Bounded(retained \cup K)
  <2>1. Orders({}, Freed(old))
    BY <1>2, OrdersOne
  <2> QED
    BY <1>1, <1>2, <2>1, KeepsBounded DEF PoolInv
<1>4. Bounded(pool) /\ pool \in SUBSET Buffers /\ b \notin pool
  BY <1>2, <1>3, BoundedPart
<1>5. BytesLeft(K, b) = Weight(pool)
  BY <1>2, PoolCounted
<1>6. leases[b] = 0 /\ b \notin evicted /\ b \notin Entries \ old
  <2>1. CASE b \in K
    BY <2>1 DEF Freed, Replaced, Entries, StoreInv, OneOwner
  <2>2. CASE b \notin K
    <3>1. b \notin Live
      BY <1>1, <1>2, <2>2 DEF Acquirable
    <3> QED
      BY <3>1 DEF Live, StoreInv, StoreTypeOK
  <2> QED
    BY <2>1, <2>2
<1>7. Acquired(s, K, b, pool, Weight(pool))
  BY <1>1, <1>6 DEF Acquired
<1> HIDE DEF pool
<1>8. CASE Bytes[b] > MaxBytes
  <2>1. Reject(old, K, b, pool, Weight(pool))
    BY <1>1, <1>5, <1>8 DEF pool
  <2> QED
    BY <1>4, <2>1, RejectPool
<1>9. CASE ~(Bytes[b] > MaxBytes)
  <2>1. Insert(s, b, BucketSize(z) <= MaxPooled, old, K, pool, Weight(pool))
    BY <1>1, <1>5, <1>9 DEF pool
  <2> QED
    BY <1>4, <1>7, <2>1, InsertPool
<1> QED
  BY <1>8, <1>9

LEMMA PoolInit == Init => PoolInv
<1> SUFFICES ASSUME Init PROVE PoolInv
  OBVIOUS
<1>1. Entries = {} /\ retained = {}
  BY BufferAssumption DEF Init, StoreInit, Entries
<1> QED
  BY <1>1, WeightEmpty, LimitAssumption DEF PoolInv, Bounded, Orders

LEMMA PoolNext == IInv /\ PoolInv /\ [Next]_vars => PoolInv'
<1> SUFFICES ASSUME IInv, StoreInv, PoolInv, [Next]_vars PROVE PoolInv'
  BY DEF IInv
<1>1. CASE UNCHANGED <<cached, older, retained>>
  BY <1>1 DEF PoolInv, Bounded, Entries
<1>2. ASSUME NEW r \in Serving, NEW waiting, Finish(r, waiting) PROVE PoolInv'
  BY <1>2, ReleasePool DEF Finish, IInv
<1>3. ASSUME NEW s \in Segments, cached[s] \in Buffers, older' = MostRecent(cached[s]),
             cached' = cached, retained' = retained
      PROVE  PoolInv'
  BY <1>3, MostRecentPool DEF Entries
<1>4. ASSUME NEW r \in Requests, NEW s \in Segments, Accept(r, s) PROVE PoolInv'
  BY <1>3, <1>4 DEF Accept, Lease, poolVars
<1>5. ASSUME NEW r \in Requests, Handler(r) PROVE PoolInv'
  <2>1. phase[r] # "idle" /\ r \in Serving
    BY <1>5 DEF Handler, WriteChunk, Abandon, Drained, ClosedWhileBlocked, Stalled, Serving
  <2>2. (\E waiting : Finish(r, waiting)) \/ UNCHANGED storeVars
    BY <1>5 DEF Handler, WriteChunk, Abandon, Drained, ClosedWhileBlocked, Stalled
  <2> QED
    BY <1>1, <1>2, <2>1, <2>2 DEF storeVars
<1>6. ASSUME NEW s \in Segments, NEW z \in Sizes, Store(s, z) PROVE PoolInv'
  BY <1>6, SetPool DEF Store
<1>7. ASSUME NEW s \in Segments, Read(s) PROVE PoolInv'
  BY <1>3, <1>7 DEF Read, Touch, poolVars
<1>8. ASSUME (\E s \in Segments : Expire(s)) \/ Sweep \/ ClearCache PROVE PoolInv'
  <2>1. PICK R \in SUBSET Entries : RemoveEntries(R)
    BY <1>8 DEF Expire, Sweep, ClearCache, DropIfExpired, EvictExpired, Clear, Entries
  <2> QED
    BY <2>1, RemovePool
<1>9. CASE Time
  BY <1>1, <1>9 DEF Time, Tick, poolVars
<1>10. CASE UNCHANGED vars
  BY <1>1, <1>10 DEF vars, storeVars
<1>11. CASE Start \/ Stop \/ CloseServer
            \/ (\E outcome \in {"open", "idle"} : Opened(outcome))
            \/ (\E r \in Requests : Flush(r) \/ Disconnect(r))
  BY <1>1, <1>11 DEF Start, Stop, CloseServer, Opened, Flush, Disconnect, storeVars
<1> QED
  BY <1>4, <1>5, <1>6, <1>7, <1>8, <1>9, <1>10, <1>11 DEF Next, CacheStep

\* The pool keeps within both of its limits, and zeroed, whatever is given
\* back in one operation (buffer-pool.ts: release).
THEOREM PoolStaysSound == Spec => []PoolSound
<1>1. IInv /\ PoolInv => PoolSound
  BY IInvImplies DEF PoolInv, Bounded, PoolSound, PoolBounded
<1>2. Spec => [](IInv /\ PoolInv)
  BY InitInv, NextInv, PoolInit, PoolNext, PTL DEF Spec
<1> QED
  BY <1>1, <1>2, PTL
=============================================================================
