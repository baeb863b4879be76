---------------------------- MODULE UploadServer ----------------------------
(***************************************************************************)
(* The peer's HTTP upload server (peer/src/uploader.ts) reading from the   *)
(* segment cache.  A request handler is asynchronous: between its awaits   *)
(* the fetcher stores segments, entries expire, clients stop reading or    *)
(* disconnect and the server is stopped.                                   *)
(*                                                                         *)
(* Node's HTTP response is external.  It keeps a reference to every chunk  *)
(* passed to write() until the operating system takes the bytes, and       *)
(* write() returns false once HighWater chunks are waiting.                *)
(***************************************************************************)
EXTENDS SegmentCache

CONSTANTS
  Requests,       \* concurrent GET requests
  MaxConnections, \* UploadServerOptions.maxConnections
  Chunks,         \* writes a segment takes (maximumChunkBytes each)
  HighWater       \* queued chunks at which response.write returns false

ASSUME UploadAssumption ==
  /\ IsFiniteSet(Requests)
  /\ MaxConnections \in Nat \ {0}
  /\ Chunks \in Nat \ {0}
  /\ HighWater \in Nat \ {0}

VARIABLES
  listen,   \* the listening socket: idle, opening, open, closed
  stopping, \* stopPromise is set
  active,   \* activeConnections
  phase,    \* where each handler waits: idle, pacing (bucket.consume), blocked
  seg,      \* segment it serves
  buf,      \* allocation its lease (and its queued chunks) refer to
  sent,     \* chunks passed to response.write
  open,     \* the response is neither finished nor destroyed
  queued    \* chunks the response still refers to

requestVars == <<phase, seg, buf, sent, open, queued>>
vars == <<storeVars, listen, stopping, active, requestVars>>

Serving == {r \in Requests : phase[r] # "idle"}

\* Allocations that only the queue of a response still refers to.
Held == {b \in Buffers : \E r \in Requests : queued[r] > 0 /\ buf[r] = b}

Init ==
  /\ StoreInit
  /\ listen = "idle"
  /\ stopping = FALSE
  /\ active = 0
  /\ phase = [r \in Requests |-> "idle"]
  /\ seg = [r \in Requests |-> Blank]
  /\ buf = [r \in Requests |-> NoBuffer]
  /\ sent = [r \in Requests |-> 0]
  /\ open = [r \in Requests |-> FALSE]
  /\ queued = [r \in Requests |-> 0]

-----------------------------------------------------------------------------
(* Starting and stopping *)

Start ==
  /\ listen = "idle" /\ ~stopping
  /\ listen' = "opening"
  /\ UNCHANGED <<storeVars, stopping, active, requestVars>>

\* listen() calls back, or fails and start() may be called again.
Opened(outcome) ==
  /\ listen = "opening"
  /\ listen' = outcome
  /\ UNCHANGED <<storeVars, stopping, active, requestVars>>

Stop ==
  /\ ~stopping
  /\ stopping' = TRUE
  /\ UNCHANGED <<storeVars, listen, active, requestVars>>

\* Mutant of CloseServer: stop() gives up when the start it waited for failed.
CloseListening ==
  /\ stopping
  /\ listen = "open"
  /\ listen' = "closed"
  /\ open' = [r \in Requests |-> FALSE]
  /\ queued' = [r \in Requests |-> 0]
  /\ UNCHANGED <<storeVars, stopping, active, phase, seg, buf, sent>>

\* stop() waits for a pending start, then closes every connection.
CloseServer ==
  /\ stopping
  /\ listen \in {"idle", "open"}
  /\ listen' = "closed"
  /\ open' = [r \in Requests |-> FALSE]
  /\ queued' = [r \in Requests |-> 0]
  /\ UNCHANGED <<storeVars, stopping, active, phase, seg, buf, sent>>

-----------------------------------------------------------------------------
(* Requests *)

\* A GET for a cached segment takes an upload slot and a lease.  Requests
\* turned away (401, 429, 400, 404) change nothing, but see Expire.
Accept(r, s) ==
  /\ listen = "open"
  /\ phase[r] = "idle" /\ ~open[r]
  /\ active < MaxConnections
  /\ Lease(s)
  /\ active' = active + 1
  /\ phase' = [phase EXCEPT ![r] = "pacing"]
  /\ seg' = [seg EXCEPT ![r] = s]
  /\ buf' = [buf EXCEPT ![r] = cached[s]]
  /\ sent' = [sent EXCEPT ![r] = 0]
  /\ open' = [open EXCEPT ![r] = TRUE]
  /\ UNCHANGED <<listen, stopping, queued>>

\* response.end() and the finally block, when `waiting` chunks are queued.
Finish(r, waiting) ==
  /\ Release(buf[r])
  /\ active' = active - 1
  /\ phase' = [phase EXCEPT ![r] = "idle"]
  /\ open' = [open EXCEPT ![r] = waiting > 0]
  /\ queued' = [queued EXCEPT ![r] = waiting]
  /\ sent' = [sent EXCEPT ![r] = 0]
  /\ UNCHANGED <<listen, stopping, seg, buf>>

\* bucket.consume resolves: write the next chunk, then wait for the client,
\* go round the loop, or finish.
WriteChunk(r) ==
  /\ phase[r] = "pacing"
  /\ open[r]
  /\ LET waiting == queued[r] + 1
     IN \/ /\ waiting < HighWater
           /\ sent[r] + 1 = Chunks
           /\ Finish(r, waiting)
        \/ /\ waiting >= HighWater \/ sent[r] + 1 # Chunks
           /\ phase' = [phase EXCEPT
                ![r] = IF waiting >= HighWater THEN "blocked" ELSE "pacing"]
           /\ sent' = [sent EXCEPT ![r] = @ + 1]
           /\ queued' = [queued EXCEPT ![r] = waiting]
           /\ UNCHANGED <<storeVars, listen, stopping, active, seg, buf, open>>

\* Mutant of Abandon: a return that is not covered by the finally block.
AbandonLeaking(r) ==
  /\ phase[r] = "pacing"
  /\ ~open[r]
  /\ phase' = [phase EXCEPT ![r] = "idle"]
  /\ UNCHANGED <<storeVars, listen, stopping, active, seg, buf, sent, open, queued>>

\* bucket.consume resolves after the response was destroyed.
Abandon(r) ==
  /\ phase[r] = "pacing"
  /\ ~open[r]
  /\ Finish(r, 0)

\* The drain event: everything queued was taken.
Drained(r) ==
  /\ phase[r] = "blocked"
  /\ open[r] /\ queued[r] = 0
  /\ \/ sent[r] = Chunks /\ Finish(r, 0)
     \/ /\ sent[r] < Chunks
        /\ phase' = [phase EXCEPT ![r] = "pacing"]
        /\ UNCHANGED <<storeVars, listen, stopping, active, seg, buf, sent,
                       open, queued>>

\* The close event ends the wait; the loop finds the response destroyed.
ClosedWhileBlocked(r) ==
  /\ phase[r] = "blocked"
  /\ ~open[r]
  /\ Finish(r, 0)

\* Mutant of Stalled: no stall timer.
NeverStalled(r) == r \notin Requests /\ Finish(r, 0)

\* The client read nothing for stallTimeoutMs: destroy the response.
Stalled(r) ==
  /\ phase[r] = "blocked"
  /\ open[r]
  /\ Finish(r, 0)

\* The operating system takes a queued chunk.
Flush(r) ==
  /\ open[r] /\ queued[r] > 0
  /\ queued' = [queued EXCEPT ![r] = @ - 1]
  /\ open' = [open EXCEPT ![r] = phase[r] # "idle" \/ queued[r] > 1]
  /\ UNCHANGED <<storeVars, listen, stopping, active, phase, seg, buf, sent>>

\* Mutant of Disconnect: a close listener gives the slot back as well.
DisconnectFreeing(r) ==
  /\ open[r]
  /\ open' = [open EXCEPT ![r] = FALSE]
  /\ queued' = [queued EXCEPT ![r] = 0]
  /\ active' = active - 1
  /\ UNCHANGED <<storeVars, listen, stopping, phase, seg, buf, sent>>

\* The client goes away.
Disconnect(r) ==
  /\ open[r]
  /\ open' = [open EXCEPT ![r] = FALSE]
  /\ queued' = [queued EXCEPT ![r] = 0]
  /\ UNCHANGED <<storeVars, listen, stopping, active, phase, seg, buf, sent>>

-----------------------------------------------------------------------------
(* Cache operations of the fetcher, the tracker client and the health route *)

uploadVars == <<listen, stopping, active, requestVars>>

\* PeerClient.run starts fetching only once its upload server listens.
Store(s, z) ==
  /\ listen \in {"open", "closed"}
  /\ Set(s, z, Held)
  /\ UNCHANGED uploadVars
Read(s)    == Touch(s) /\ UNCHANGED uploadVars
Expire(s)  == DropIfExpired(s) /\ UNCHANGED uploadVars
Sweep      == EvictExpired /\ UNCHANGED uploadVars
ClearCache == Clear /\ UNCHANGED uploadVars
Time       == Tick /\ UNCHANGED uploadVars

CacheStep ==
  \/ \E s \in Segments : Read(s) \/ Expire(s) \/ \E z \in Sizes : Store(s, z)
  \/ Sweep \/ ClearCache \/ Time

Handler(r) ==
  WriteChunk(r) \/ Abandon(r) \/ Drained(r) \/ ClosedWhileBlocked(r) \/ Stalled(r)

Next ==
  \/ Start \/ Stop \/ CloseServer
  \/ \E outcome \in {"open", "idle"} : Opened(outcome)
  \/ \E r \in Requests :
       \/ \E s \in Segments : Accept(r, s)
       \/ Handler(r)
       \/ Flush(r) \/ Disconnect(r)
  \/ CacheStep

\* Timers fire and the bandwidth limiter lets every waiter through; clients
\* and the operating system owe nothing.
Fairness ==
  /\ WF_vars(\E outcome \in {"open", "idle"} : Opened(outcome))
  /\ WF_vars(CloseServer)
  /\ \A r \in Requests : WF_vars(Handler(r))

Spec == Init /\ [][Next]_vars /\ Fairness

-----------------------------------------------------------------------------
(* Properties *)

\* The type of every variable.
TypeOK ==
  /\ StoreTypeOK
  /\ listen \in {"idle", "opening", "open", "closed"}
  /\ stopping \in BOOLEAN
  /\ active \in Nat
  /\ phase \in [Requests -> {"idle", "pacing", "blocked"}]
  /\ seg \in [Requests -> Segments \cup {Blank}]
  /\ buf \in [Requests -> Buffers \cup {NoBuffer}]
  /\ sent \in [Requests -> 0..Chunks]
  /\ open \in [Requests -> BOOLEAN]
  /\ queued \in [Requests -> Nat]

\* Whatever is evicted, expired, replaced or cleared while an upload runs,
\* the bytes it is still to write are the segment it was asked for, and its
\* allocation is not up for reuse (the lease of cache.ts pins it).
LeasedBytesIntact ==
  \A r \in Serving : /\ buf[r] \in Live
                     /\ buf[r] \notin retained
                     /\ content[buf[r]] = seg[r]

\* Every allocation has one owner: two entries never share one, a removed
\* entry is in no other's hands, and the pool offers only what nobody uses.
OneOwner ==
  /\ \A s, t \in Segments : cached[s] = cached[t] /\ cached[s] \in Buffers => s = t
  /\ Entries \cap evicted = {}
  /\ Live \cap retained = {}

\* No allocation leaks: an evicted entry survives only while a handler has a
\* lease on it, each entry counts exactly its handlers, and the pool awaits
\* the return of exactly the live views small enough to be pooled.
NoLeak ==
  /\ \A b \in Buffers :
       leases[b] = Cardinality({r \in Requests : phase[r] # "idle" /\ buf[r] = b})
  /\ \A b \in evicted : leases[b] > 0
  /\ tracked = {b \in Live : Bytes[b] <= MaxPooled}

\* Both byte counters are exact after any sequence of operations, also when an
\* allocation goes from one counter to the other within a single set, and the
\* cache ends every operation within its limit.
ByteAccounting ==
  /\ totalBytes = Weight(Entries)
  /\ totalBytes <= MaxBytes
  /\ retainedBytes = Weight(retained)

\* What the pool retains for reuse holds no bytes of an old segment.
RetainedBlank == \A b \in retained : content[b] = Blank

\* However many views come back at once, the pool keeps within its limits.
PoolBounded ==
  /\ Weight(retained) <= MaxRetainedBytes
  /\ \A b \in retained :
       Cardinality({c \in retained : Bytes[c] = Bytes[b]}) <= MaxRetainedPerBucket

\* What the pool keeps, it keeps within its limits and zeroed, in whatever order
\* evictions, leases and stores of several sizes give allocations back.
PoolSound == PoolBounded /\ RetainedBlank

\* Upload slots are neither leaked nor given twice, on any exit path.
SlotAccounting == active = Cardinality(Serving) /\ active <= MaxConnections

\* Eviction never takes the entry that made the cache overflow: a stored
\* segment is there afterwards, whatever had to go.
StoredSurvives ==
  [][\A s \in Segments, z \in Sizes :
       /\ cached'[s] = NoBuffer /\ cached' # cached
       /\ BucketSize(z) <= MaxBytes
       => ~Store(s, z)]_vars

\* cache.ts:12, "Pins cached bytes until an asynchronous consumer has finished
\* with them": a chunk a response has yet to send still spells its segment.
QueuedBytesIntact ==
  \A r \in Requests : queued[r] > 0 => content[buf[r]] = seg[r]

\* Every upload ends, although clients may stop reading.
UploadsEnd == \A r \in Requests : phase[r] # "idle" ~> phase[r] = "idle"

\* stop() completes, whatever start() was doing.
StopCompletes == stopping ~> (listen = "closed" /\ Serving = {})
=============================================================================
