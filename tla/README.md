# OpenStreamGrid in TLA+

OpenStreamGrid distributes HLS live streams with the help of the viewers: an
origin segments the stream, peers (Node processes or browsers) fetch each
segment from one another or from the origin, and a tracker tells the peers of a
broadcast about each other and about the segments each one has.

This directory models the parts of it whose correctness depends on the order of
asynchronous events, checks the models with TLC and proves their main
invariants with TLAPS. `PROJECT.json` lists the runs, the source lines
each definition stands for, the hazards of the code and the findings.

    tlc -workers 2 -config UploadServer_same.cfg MCUploadServer.tla
    tlc -workers 2 -config Machines_safe.cfg MCMachines.tla
    tlapm UploadServerProofs.tla

## The system

All of it is TypeScript on single-threaded event loops: a handler runs
undisturbed to its next `await`, and what is hard is what happens between two
awaits, between two timers, and between two processes.

| Component | State | Operations | Hard part | What makes it correct |
| --- | --- | --- | --- | --- |
| Segment cache, buffer pool (`peer/src/cache.ts`, `buffer-pool.ts`) | entries in LRU order, leases, pooled allocations, byte counters | get, has, lease, release, set, clear, sweep; acquire, release | entries are evicted while uploads read them; allocations are reused | bytes under a lease do not change; every allocation has one owner; counters are exact |
| Upload server (`uploader.ts`, `bandwidth-limiter.ts`) | upload slots, responses, token bucket | start, stop, GET segment, health | slow or vanished clients, stop during start | slots and leases come back on every path; uploads end |
| Segment fetcher (`fetcher.ts`) | requests in flight by segment, consumers of each, sources | fetchSegment, fetchBatch, hedged fetch, stop | shared requests, aborts, two answers to one request | one fetch per segment; an abort concerns only its consumer; bytes are counted once |
| Tracker client (`peer/src/tracker.ts`, `sdk/src/ws-client.ts`) | session token, socket, peers known, segments reported | join, start, stop, reconnect, refresh, report | events of an old socket, lost reports, back-off | the tracker ends up knowing the peer's segments |
| Transports (`transport-manager.ts`, `webrtc-transport.ts`, `http-transport.ts`) | start and stop in progress, connections, pending answers, upload slots | start, stop, fetch, signaling, transfer | start and stop overlap, late answers, ends that disagree | what was stopped stays stopped; no slot leaks; a segment arrives whole or not at all |
| Verifier (`peer/src/verifier.ts`, `sdk/src/verifier.ts`) | known hashes (LRU), hash requests in flight | verify | shared requests that fail | nothing unverified is accepted |
| Peer application (`client.ts`, `playlist.ts`) | attempts per segment, abort signal | playlist loop, batches, shutdown | failures of part of a batch, order of shutdown | no segment is skipped while attempts are left |
| Schedulers (`common/src/scheduler.ts` and policies) | probe and latency statistics | plan a segment, plan a batch | any policy may return any plan | a valid plan whatever the policy does |
| Tracker store (`tracker/src/store.ts`, `sqlite-store.ts`) | broadcasts, peers, inventories, traffic, failure reports | register, join, leave, report, remove stale | crash of the process, quorum over time | both stores behave alike; totals never fall |
| Neighbor views (`neighbor-views.ts`) | who sees whom, who is seen by whom | add, fill, leave | two relations kept in step under churn | bounded, symmetric bookkeeping; full views |
| WebSocket hub (`websocket.ts`) | subscriptions, pending batch, flush in progress | subscribe, publish, batch, slice, remove | batches overtake snapshots, views change during a flush | clients converge to the store |
| Tracker server (`server.ts`) | SSE clients, rate-limit buckets, metrics, sweep timer | REST routes, SSE, sweeps, start, stop | coalesced events, sweeps between requests | the store and the hub change together; what is gone is forgotten |
| Browser plugins (`sdk/src/hls-plugin.ts`, `shaka-plugin.ts`) | attachment, registration, pending loads and parts | attach, detach, load | detach during registration, loads that share a request | a detached plugin is silent; only verified bytes are shared |
| Origin (`origin/src/streamer.ts`, `sidecars.ts`, `server.ts`) | ffmpeg process, restart attempts, hashes, the broadcast's lease | start, stop, restart, serve, register | restarts race with stop, files change while read, registrations overtake each other | no process after stop; hashes match files; the tracker lists what is live |

How they interact: the peer application drives tracker client, fetcher and
uploader; the fetcher stores in the cache what the uploader reads from it; the
tracker client reports the cache's keys to the hub, which changes the store and
tells the other clients; REST routes of the tracker change the same store and
call the hub; the transports carry segments between a fetcher and an uploader
(or a WebRTC transport on the other side), using the hub as a relay.

## Modules

### SegmentCache, UploadServer

`SegmentCache` has the state and the operations of `SegmentCache` and
`BufferPool`. An entry owns one allocation, so an entry *is* its allocation
`b`; the entries' Map is `cached` (the names) and `older` (the insertion order,
as a relation). Bytes are counted as elements of sets (`Weight`), which makes
sums cardinalities. Contents matter only as "the segment `s`" or `Blank`;
`release` wipes what it retains. `Set` runs its four phases in one action,
because the code does not yield: drop the replaced entry, acquire, insert,
evict from the front until the bytes fit. Each phase hands its result to the
next as an argument, so that the choice of the reused allocation and of the
retained views (limits per bucket and in total) is made with what the earlier
phases left.

`UploadServer` composes it with the request handlers. A handler is where its
`await` is: `pacing` (in `bucket.consume`) or `blocked` (in
`waitForDrainOrClose`). Between two of its steps anything else may run: stores,
expiry, `clear`, other handlers, a disconnect, `stop`. Node's response is
external: it keeps up to `HighWater` chunks and refers to their bytes until the
operating system takes them. A request that is turned away changes nothing and
has no action, except that an expired entry is dropped on the way (`Expire`).

### NeighborViews, TrackerHub

`NeighborViews` is the two Maps as relations, `sees` and `seenBy`, with `fill`
as a choice among all sets of additions and evictions that random sampling can
produce. The code looks at a budget of at least 64 candidates; the model lets
`fill` see every member, which is what the code does for audiences up to 64.

`TrackerHub` composes the views with the store's members and inventories, the
REST and WebSocket reports, and the hub's batches. A WebSocket is ordered, so a
client is represented by what all messages sent to it make it know
(`mirror[k]`, the `peers` of `TrackerClient`): a message is its effect on the
mirror. A client subscribes as `immediate`, `batched` (`inventory_batch`) or
`viewer` (also `neighbor_view`). A flush in slices is `flushing`, `updates`,
`queue` and `current` (the closure variables of `sendViewerBatches`), one slice
per `Slice`. The one handler that would be an unreadable nest of choices,
removing several peers and announcing each departure with its refills, is split
into `RemovePeers`, `PeerLeft` and `Refill`; nothing else is enabled until it
is over (`Idle`), as in the code.

Not in the model: the limit on a peer's inventory (`limitInventory`), the
message, report and connection limits, WebRTC signaling, and several
connections of one peer. What a client hears about its own peer is left out of
its mirror, because clients do not use it.

### SegmentFlights

`SegmentFlights` is the segment fetcher. A flight is an `InFlightSegment` with
the call that serves it (`fetchUncachedSegment`, or `fetchAssignedSegment` in a
wave); `phase` is where that call is: `listing` (it awaits the tracker), `peer`,
`origin`, `hedged`, and then fulfilled or rejected. The Map is `inFlight`. A
consumer is a call of `fetchSegment` or an entry of a wave; `waits` is the
flight whose `consumerControllers` hold its controller.

A request is a state of its own, `peer[f]` and `origin[f]`, because it may
outlive its flight: the loser of a hedged fetch answers when the race is over,
and the flight's record cannot be used for another fetch until it has. What it
answers then is a state nobody reads, except that `fetchFromPeer` counts its
success itself unless the hedge has told it not to (`Accounts`). The bytes
counted and the peers blamed are history variables, one per flight, so that
counting a fetch twice can be seen. So is why `fetchFromPeer` threw (`failure`):
the peer failed, its data do not match the published hash, the request was cut
off, or `verify` could not get the hash from the origin. `recordPeerFailure`
reports the last of these against the peer as a failed connection, like any error
that is not a `PeerFetchError` (`ReportedReason`).

External: which source answers and how, and the scheduler's plan, which may be
any. Left out: the batches' assignment of peers to segments, the computation of
hashes (only what a check comes to is modelled), the limit on waves, and the
second consumers' copies of the bytes.

### TrackerSession

`TrackerSession` is one peer's membership: the life of `PeerClient.run` around
its `TrackerClient` (`stage`), the client's socket, timers, session token and
`lastReportedSegments`, and the tracker's record of that one peer. The browser's
`WsTrackerClient` has the same sockets, timers and reports.

A request over HTTP is where it is: `sent`, `granted`, `refused`. It may be
handled although the client has given up waiting, in which case it is an
`orphan` that the tracker sees later or that has already changed the tracker. A
socket carries `subscribe`, status messages, reports and peer messages. Reports
are differences, so those on the way are represented by their net effect,
`wireAdd` and `wireDel`; all of it is lost with the connection. `subscribed` and
`refused` are the tracker's side of the present socket. `touched` and `kept` are
history variables, for `ReportsArrive`.

External: the cache's contents, the clock, and what the hub has to say. Left
out: the length of the back-off, message budgets, the expiry timer of a socket at
the tracker (it closes the connection, which may happen at any time), and the
removal of the broadcast.

### WebRtcTransfer

`WebRtcTransfer` is a Node peer (`WebRtcTransport`) and a browser
(`BrowserWebRtcPeer`) that ask each other for segments. A request has a phase at
the asking end (`phase`: it waits for the signaling socket, gathers, has offered,
receives, verifies) and one at the serving end (`serve`), each with its own end
of the connection (`asks`, `serves`). The two ends close at different times, and
closing one loses what is under way to it. Offers and answers are `mail` at the
tracker, which may keep it for ever; the data channel is a sequence in each
direction. `slots` is `activeUploadConnections` and `held[r]` says that
`acceptOffer` of `r` has not finished. The signaling socket of the Node peer is
shared: `opener` is who called `ensureSignalSocket`, because only that caller's
time-out is heard while it opens. A request that times out before is `expired`
and still waits.

Statistics, ICE servers, the number of bytes and the pacing of an upload are left
out; a chunk is its number.

### PeerApplication

`PeerApplication` is `run()` of the Node peer around them: the upload server, the
tracker client and the transport manager started together, `consumePlaylist` over
a window of segments that slides, and `shutdown` after an abort or a failure at
any `await`. `route[s]` is where the fetch of a segment stands: over WebRTC, over
HTTP, from the origin. `attempts` is `SegmentAttempts`, and `tries` the history
that says how often a segment was really fetched. The parts of the system that
have modules of their own are one variable each here.

### TrackerStore, SqliteStore

`TrackerStore` is the specification of a tracker store: the operations of
`TrackerStoreBackend`, one atomic action each, over `db`, what callers see, and
`durable`, what a crash leaves. It is also what the store in memory does, with
nothing durable. `SqliteStore` runs each operation as the code does, one prepared
statement after the other (`script`) over five tables whose foreign keys cascade,
inside a transaction; segment reports, heartbeats and statistics open the group
transaction of the turn (`groupWrites`), which `setImmediate` commits. A statement
may fail, which undoes its call alone, and the process may die between any two,
which undoes what was not committed. The rows of segments are a sequence, in the
order of their row ids; `Those` and `Less` are the queries and loops over it. The
traffic of the peers that left is a sum, written as the cardinality of a set with
one element for each unit (`Carried`). The tables are mapped to `db` and `durable` by `View`
(`INSTANCE TrackerStore WITH db <- View(before), durable <- View(disk)`), and
`ImplementsStore` is the specification of the store as a property of it. Where an
inventory is cut, the specification leaves open which segments go, as long as one
more would not have fitted. `InventoryFits` is both limits of `limitInventory`, on
the segments and on the characters of their names (`Length`); `Newest` is the longest
rest of the inventory within both, which is nothing at all when the newest name alone
is too long.

### FailureReports

`FailureReports` is `PeerFailureConsensus` with the trust scores that it lowers.
`observations` is what the consensus remembers and loses with the process;
`recent` is the history of the reports of the last window, against which
`TrustJustified` holds it.

### PluginSession, PluginLoads

`PluginSession` is the browser plugin's membership: attach, detach and attach
again, registration and refresh over HTTP, and the client's socket. Requests are
in slots, with or without a token (`authorized`, `bare`), and both requests and
answers may overtake each other or be lost. `listed` is the tracker's record.

`PluginLoads` is one media segment as the loaders of a player ask for it: the
cache, the request they share with who waits for it, peers alone, a hedge or the
origin alone, and the segment that the plugin puts together from the parts of a
low-latency playlist (`parts`, `assembly`). A loader is where its callbacks are,
and `holds` is what it is about to hand to its player. Bytes are `good` (those
that were published), `bad` (any others), or `raw` (an origin's that had no hash
to check them); peers, origin and parts may deliver good and bad ones, and `Check`
is what the verifier makes of them. Without a verifier (`verifying`, the option
`verifySegments`) it makes nothing of them: they are played, cached and shared.

### SegmentScheduling

`SegmentScheduling` is `planBatch` as a machine that plans one segment per step.
What a policy returns is a choice from the plans it can compute, whatever the
scores are; a custom policy returns anything. `Safely` is `planSegmentSafely`,
and a deadline-aware scheduler sits on top of either.

### BroadcastLease, StreamSupervision

`BroadcastLease` is the registration of a broadcast, with time counted in refresh
intervals. A registration that is being retried, one that the origin no longer
waits for and the tracker's record are each known by what is left of their lease
(`loops`, `stray`, `record`); old ones may arrive late. The origin may crash, the
tracker be down and come back with the record it had or without.

`StreamSupervision` is `HlsStreamer` under `OriginServer`: start, the exits of
ffmpeg, restarts with back-off, `stop()` at any moment, and the hashes of what it
publishes. One segment is written per start of ffmpeg, known by the number of
that start, so that a hash computed from one and stored beside another is seen. It
is a file before it is listed (`Write`, `Publish`): the interval hashes what is
listed, a request for a sidecar any file, and `whole` says whether the segment was
listed when the hash was begun. `sidecars` has only the sidecar of the segment that
is there; those of earlier starts, whose names no segment has any more, are left
out. An exit is by SIGTERM or not (`ChildExits`).

### MCMachines

The modules from `SegmentFlights` on, and the hub with clients of every mode, do
not touch each other's variables in the model. `MCMachines` runs all of them: its
first states choose which one takes the steps (`machine`), and the others keep
their first state, so that their states add up rather than multiply. It extends
`SegmentFlights` and `TrackerSession`, whose constants carry assumptions, and
instantiates the others. The invariants of the two it extends are checked as they
stand, since they hold in a machine's first state; those of the others are checked
where that machine runs. `TypeOK` is the fetcher's, `MachineTypeOK` that of
whichever machine runs. `NothingLeftBehind` says of three machines that nothing
outlives its stop: `NothingLeftBehind` and `TriesAreBounded` of `PeerApplication`,
`StopIsFinal` of `WebRtcTransfer` and `NobodyWaitsAborted` of `SegmentFlights`.
Promises of the same kind are one formula with a disjunct per machine
(`RequestsEnd`, `StopsEnd`, `ServiceReturns`): the machine never changes, so that
the formula says the same as one of each, and each machine's fairness is its
module's (`Owed`).

### Mutants

Next to some definitions stands a mutant, the same definition with a plausible
bug. It is used by no specification; substituting it for the definition makes a
property fail, which shows that the property depends on it.

## Runs

| Run | Instance | Question |
| --- | --- | --- |
| `UploadServer_same` | 2 segments, 5 allocations of one size, a cache of one entry, a pool of two, 2 requests of 2 chunks | every store evicts under a reader: do uploads read their own segment, does every allocation keep one owner, does none leak |
| `UploadServer_large` | 3 segments, sizes 1 and 2, of which only 1 is pooled; a cache of 2 bytes, a pool of one; 1 request | one store evicts two entries; are the byte counters exact, does the pool keep its limits and blank its allocations, does a store leave what was just stored |
| `UploadServer_live` | payloads of 2 and 3 bytes with size classes 2 and 4 in a cache of 3 bytes; 2 requests, 1 slot; no symmetry | the refused payload and the slot limit: slots are counted, uploads end, `stop()` completes |
| `TrackerHub_sliced` | 3 peers with views of 1, all viewers, delta reports over sockets (`SocketSpec`), one viewer per slice, no rejoining | views and mirrors stay right, and batches stay net changes, while views change during a flush |
| `Machines_safe` | twelve machines, see below; no fairness | nothing any of them must never do, and the SQLite store implements the specification of a store |
| `Machines_live` | nine machines with their fairness | what was asked ends, what was stopped stays stopped, what was lost comes back; slots, sidecars and the SQLite store again on larger instances |

The instances of `Machines_safe`, and of `Machines_live` where it differs:

| Machine | `Machines_safe` | `Machines_live` |
| --- | --- | --- |
| `SegmentFlights` | 1 segment, 2 flights, 2 consumers of whom one can abort: one fetch at a time, bytes counted once, no false blame, aborts that stay private | 1 flight: everybody is answered |
| `TrackerSession` | 1 segment, a tracker with an API key that the peer does not have: never stranded, silent after `stop()`, its reports arrive | no segment: it comes back, and once gone it is forgotten |
| `WebRtcTransfer` | one request each way, 2 chunks, 1 slot: whole segments, `stop()` is final | 2 requests to one uploader, 1 chunk, 1 slot: slots are returned, requests end |
| `PeerApplication` | 4 segments in a window of 3, 2 attempts, batches of 2: nothing left behind, attempts bounded | the same: `run()` returns after an abort |
| `SegmentScheduling` | 2 peers, up to 3 segments, every policy and any plan: each segment from one source that has it, the origin in time | |
| `PluginSession` | 2 requests under way, 3 attaches: a detached plugin is silent | 1 request under way, 2 attaches: an attached viewer is listed again |
| `PluginLoads` | 2 loaders, 2 parts, with and without a verifier: with one, only published bytes are shared; loaders do not end each other's load | |
| `TrackerHub` | 2 peers, clients of all modes, all kinds of reports, rejoining, whole flushes: membership and no resurrection | 2 viewers, one per slice: a batch is sent although its timer fired during a flush |
| `SqliteStore` | 1 broadcast, 1 peer, 3 segments of which 1 may be kept, one with a name that is too long | 2 peers for one place, with traffic that outlives them |
| `FailureReports` | 3 peers, a quorum of 2, one reason | |
| `BroadcastLease` | lease of 2 intervals, 1 outage (types only) | lease of 3, 2 outages: the broadcast of a running origin is listed again and again, that of a dead one forgotten |
| `StreamSupervision` | 1 restart (types only) | 2 restarts: sidecars match, `stop()` ends and nothing starts after it, ffmpeg returns |

Bounds. Two requests are enough for one to hold a lease on an entry that the
other's segment evicts, and for two leases on one entry; two chunks are enough
for an upload to be between chunks and blocked. The allocations are as many as
cache, leases, responses and pool can occupy together, so that `acquire` never
fails for want of one. Ages saturate at `Ttl`.
Three peers with views of one are the least in which a newcomer finds a view
full and an eviction leaves a viewer who must be told; two viewers are the
least for a flush to have two slices. One segment is enough to tell an addition
from a removal, because peers' inventories are independent of each other and an
update acts on each segment separately. Without rejoining, `sliced` is bounded
by its departures, and may therefore stop; rejoining between slices is the
subject of `TrackerHub_resurrect`.
A flight touches the cache and the map only at its own segment, so one segment
is enough; a second flight starts while the first one's loser is still out,
and of two consumers one can leave while the other stays. The two flights are alike
(`Symmetry` in `MCMachines`).
Of bytes that a check tells apart only good and bad ones matter, and two loaders
are enough for one to leave while the other waits, or to find what the other's load
has cached.
Reports, too, act on each segment separately. Nothing of the session is counted,
so `TrackerSession` has no bound but its one segment.
Two requests to an uploader of one slot are the least of which one is turned
away, and two chunks the least of which the last can be missing. Four segments
make a window of three slide past a segment that is being retried. Three reporters
and a quorum of two let a reporter repeat itself, report itself and leave. Two
requests of the plugin under way let a `DELETE` be overtaken by the registration
after it. One place for two peers makes the store refuse one; traffic that is
retired is bounded by `MaxRetired`. Three intervals are the lease of the code,
and every age of a late registration occurs. Two restarts give a stream with two
old starts.

`CHECK_DEADLOCK FALSE` is said where a machine may be over: a batch that is
planned, a peer that returned, an origin that is gone, requests that are used up
(`MaxRequests`, `MaxAttach`, departures without rejoining).

### What disagrees with its documentation

| Run | Shows |
| --- | --- |
| `UploadServer_drain` | The lease is released when the last chunk is *written*. While the client has yet to read it, an eviction may wipe the allocation and a store may overwrite it; `cache.ts:12` promises the bytes "until an asynchronous consumer has finished with them". |
| `TrackerHub_resurrect` | A peer leaves and joins again between two slices of a flush. The rest of the flush still carries its old update and its viewers list segments it does not have; `API_REFERENCE.md:358` promises that `peer_left` is never followed by a stale update. |
| `TrackerHub_rest` | A REST report without `replace` is merged into the store but published with `replace`, so clients forget the other segments; `API_REFERENCE.md:351` says `replace` means the full inventory. |
| `TrackerSession_startup` | When the first connection takes longer than `startupTimeoutMs`, `start()` calls `stop()`, which resolves the promise that `start()` is about to reject with "Tracker WebSocket startup timed out" (`tracker.ts:380`). The peer runs on with a tracker client that is stopped for good. |
| `WebRtcTransfer_hang` | A request waits for a signaling connection that `start()` or the reconnect timer opened (`webrtc-transport.ts:330`). That connection has no time limit, and neither the request's time-out nor its abort is heard meanwhile; if the tracker never answers the upgrade, the request never ends and HTTP is not tried. `transport-manager.ts:262` says "HTTP stays usable". The same connection holds up the manager's `stop()`, which waits for `start()` (`transport-manager.ts:139`); `StopsEnd` excepts it. |
| `PluginSession_detach` | The answer to the `DELETE` of one `detach()` clears `peerSessionToken` when it comes (`hls-plugin.ts:1604`). If the plugin was attached again by then, the new session's token is gone, and the `DELETE` of the next `detach()` is refused: the viewer stays listed until it is swept. `README.md:206` says the plugin "unregisters on detach". |

More limits of the code are known and have no run. A consumer that joins a
flight whose last consumer has just aborted shares its failure, because the
flight is still in the map (`fetcher.ts:221`); `AbortsArePrivate` excepts it by
the history variable `late`. And a batch pending when its
last subscriber leaves misses later changes and is sent to the next subscriber,
whose newer snapshot it reverts (`websocket.ts:798`). `PendingIsNet` and
`InventoriesMirrored` are therefore checked where a report always finds a
subscriber, its own: a peer of that instance reports only while it is a viewer.
`lastReportedSegments` survives a lost connection (`tracker.ts:518`), so a report
that was lost with it, or the inventory of a peer that the tracker has dropped
and taken back, is not repeated: `InventoryKnown` in `TrackerSession` does not
hold, and `ReportsArrive` is restricted to the present connection and to a
tracker that has kept the peer. A client whose record was swept is turned away at
every reconnection until its session is refreshed, up to an hour later;
`ServiceReturns` says only that it returns. A refresh under way when the client
stops and leaves may register the peer again and set the timer of the next
refresh; that a peer which is gone is forgotten rests on the sweep of stale peers.
A viewer's session refresh in the browser is tried again after a failure, but its
`DELETE` is not; `UnregistersOnDetach` excepts requests that failed on their way.
An `HlsStreamer` sets an interval for hashes at every restart and clears the last
one only (`streamer.ts:240`): the ones before fire on and keep a stopped process
busy, though not wrong. A request for the sidecar of a segment that ffmpeg is
still writing hashes the part that is there (`server.ts:416`, `streamer.ts:307`),
and the sidecar is kept when the segment is listed: `SidecarsMatch` promises a hash
of the whole segment only where nobody has asked too early (`early`), and
`README.md:335`, by which a segment still being written is never hashed, speaks of
the other writer, `sidecars.ts`. An ffmpeg ended by a SIGTERM that `stop()` did not
send is not started again (`streamer.ts:214`), although the server goes on:
`ServiceReturns` excepts it (`forsaken`). The fetcher reports a peer as a failed
connection when the origin's hash could not be fetched to check its data
(`fetcher.ts:1069`, `verifier.ts:74-86`): `NoFalseBlame` counts that among the
reasons for which a peer may be reported, and says that it is never reported as an
integrity failure, nor because its request was cut off. With
`verifySegments: false` the browser caches and shares bytes that nobody has checked
(`hls-plugin.ts:1290`): `OnlyVerifiedIsShared` is about a plugin with a verifier.
A registration of a broadcast that arrives after its
`DELETE` lists it again until its lease runs out.

## Fairness

`UploadServer`: a handler whose await can end is eventually run (timers fire,
the limiter refills, drain and close events arrive), and a pending `listen`
calls back. Clients and the operating system owe nothing: a client may never
read again, and `UploadsEnd` then rests on the stall timer. Weak fairness of
`Handler(r)` assumes that the bandwidth limiter lets each waiter through. Its
waiters poll without a queue, so this is an assumption about load, not
something the code enforces.

`TrackerHub`: a handler that has begun runs to its end (weak fairness of
`Turn`). A due timer and a `setImmediate` callback wait in the event loop's
queues while other handlers run; the loop serves them however often others are
served first, which is strong fairness of `FlushTimer` and `Slice`, since
`Idle` disables and enables them again.

`SegmentFlights`: a request that runs ends, and what is ready to continue
continues (weak fairness of `Progress(f)` and `Deliver(c)`). Every request has a
timer: `p2pTimeoutMs` for peers, `DEFAULT_ORIGIN_TIMEOUT_MS` for the origin, the
client's own for the tracker, and the hedge delay is one. Nobody needs to abort
or to stop.

`TrackerSession`: the refresh timer fires, an answer that has come is taken (weak
fairness of `RefreshDue`, `Joined` and a refused `JoinFails`), and time passes
(`Age`). The tracker can be reached again and again, so that not every refresh
times out before it is handled (strong fairness of `TrackerJoins`), and it sweeps
stale peers twice per `stalePeerMs`, many times between two refreshes of a session
(strong fairness of `Sweep`). Connections need never succeed.

`WebRtcTransfer`: a step at either end of a request that can be taken is taken
(weak fairness of `ClientStep` and `ServerStep`), since both ends have time-outs
which are among those steps, and the reconnect timer fires. The tracker owes
neither an offer, nor an answer, nor that a socket opens.

`PeerApplication`: `run()` goes on when what it awaits is settled, and each fetch
ends, for HTTP requests have a time-out (weak fairness of `RunStep`, `Fetch(s)`).
The manager's start need not end: `StopsEnd` excepts a signaling socket that is
being opened.

`PluginSession`: timers fire, sockets open or fail, and a request that reached
the tracker is answered (weak fairness); the tracker can be reached again and
again (strong fairness of `TrackerJoins`).

`BroadcastLease`: the refresh interval and the tracker's sweep recur, a tracker
that is down comes up, the server starts (weak fairness); of the registrations
with a fresh lease, sent every interval, some are answered (strong fairness of
`Answered(Lease)`).

`StreamSupervision`: the three chains of continuations (of the streamer's start,
of the server, of `stop()`) go on, and hashes end (weak fairness). ffmpeg owes
nothing but to die of `SIGKILL`.

## Proofs

A theorem holds for every value of the constants that satisfies the assumptions it
names; the runs show the same formula on one small instance. Eight modules hold
the proofs:

| Module | Theorems |
| --- | --- |
| `UploadServerProofs` | `TypeCorrect`, `UploadsReadTheirSegment`, `BuffersAreOwned`, `NothingLeaks`, `BytesAreCounted`, `PoolStaysSound`, `SlotsAreCounted`, `StoreSurvives` |
| `TrackerHubProofs` | `MergeComposes`, `ViewsStayInSync`, `MembersAreMirrored`, `HubTypeCorrect`, `ViewsStayFull` |
| `TrackerMirrorProofs` | `BatchesAreNet`, `ClientsCatchUp`, `NothingIsResurrected` |
| `SegmentFlightsProofs` | `FlightsTypeCorrect`, `SegmentsFetchedOnce`, `BytesCountedOnce`, `PeersBlamedJustly`, `SharedFlightsSurvive` |
| `TrackerSessionProofs` | `SessionTypeCorrect`, `ClientsAreNeverStranded`, `StoppedClientsAreSilent`, `ReportsAreNotLost` |
| `SqliteStoreProofs` | `StoreIsAtomic`, `StoreTypeCorrect`, `StoreIsBounded` |
| `MachineProofs` | `TrustNeedsQuorum`, `SidecarsAreCurrent`, `SubscribersAreTold`, `StoreIsImplemented`, `BatchesAreServable`, `HedgesAreInTime`, `DetachedStaysSilent`, `SharedIsVerified`, `LoadersAreIndependent` |
| `TransferProofs` | `StopsAreFinal`, `SlotsAreReturned`, `WholeOrNothing`, `MachinesTypeCorrect`, `StoppedStreamIsDark`, `GoneOriginsAreForgotten` |

### The upload server

`UploadServerProofs` proves, for any number of segments, allocations, requests
and chunks and any sizes and limits that satisfy the assumptions of
`SegmentCache` and `UploadServer`:

- `TypeCorrect`, `UploadsReadTheirSegment`, `BuffersAreOwned`, `NothingLeaks`,
  `BytesAreCounted`, `PoolStaysSound`, `SlotsAreCounted`: the invariants `TypeOK`,
  `LeasedBytesIntact`, `OneOwner`, `NoLeak`, `ByteAccounting` and
  `RetainedBlank`, `PoolSound`, `SlotAccounting`;
- `StoreSurvives`: the action property `StoredSurvives`.

The argument. None of these is inductive alone: that leased bytes do not change
needs that a leased allocation is not in the pool, which needs exact lease
counts, which needs that each handler releases what it leased. `IInv` joins
them: `StoreInv` (types, order, content of the entries, ownership, counters, what
the pool awaits), the lease counts as cardinalities of the sets of handlers
(`Holders`), and the content of each handler's allocation. Every operation of
the store is shown to preserve `StoreInv` and to leave the content of leased
allocations alone (`LeasesKept`) in a lemma of its own; the actions of the
server then need only those lemmas. Sums of bytes are handled by `WeightUnion`
and `WeightDifference`.

The limits of the pool need more. `BufferPool.release` checks them for one view at
a time, and a store may release several, so that each view is counted with those
that the same operation retained before it. `PoolInv` therefore adds that the Map
orders its entries (`Orders`): the last of the views that are retained then has
all the others before it (`LastOf`, from well-founded induction), and the limit it
was checked against is the limit of all of them (`KeepsBounded`).

The assumptions: finitely many allocations of positive size, positive limits,
and `MaxPooled` a power of two (it is 8 MiB in all of the program), without
which a pooled payload might get an allocation larger than what the pool takes.

### The hub

`TrackerHubProofs` proves, for any sets of peers, segments and clients and any
view size:

- `MergeComposes`: applying the update that `Merge` makes of a pending one and
  a report is the same as applying first the one and then the other. On it
  rests that a client which hears one batch knows what it would know from every
  report in it;
- `ViewsStayInSync`: the invariant `ViewsInSync`, that `views` and `watchers`
  are the same links, between members, none to oneself, and no view larger than
  its size. The inductive invariant (`ViewInv`) adds that everybody who is to be
  refilled is still a member. `fill` adds links and evicts others in one step;
  `FillChoice` shows what any choice it can make leaves of each view,
  `RelinkInSync` that both relations change alike, and `LeaveInSync` that a
  departure takes every link of the peer with it. Cardinalities of views come
  from `FiniteSetTheorems`;
- `MembersAreMirrored`: the invariant `MembershipMirrored`. A client is told of a
  departure only in its `PeerLeft`, and a viewer may be linked to a peer that is
  leaving but was never announced to it. The inductive invariant (`MirrorInv`)
  therefore says what clients know *while* peers are being removed: `Lists` for
  clients of the whole broadcast, who still know those that are leaving, and
  `Linked` for viewers, who know their view except perhaps some of those.
  `AnnounceLinked` is its heart: one `fill`, with its evictions on either side,
  keeps viewers and views together;
- `ViewsStayFull`: the invariant `ViewsFull`. While peers are removed, views are
  short. `FullInv` says whose: every subscribed viewer is full or is among those to
  be refilled. A `fill` takes as many as are wanted (`FillFills`), and each viewer
  that it evicts somebody from gets the newcomer in exchange;
- `HubTypeCorrect`: the types of the hub's state. Its invariant (`TypeInv`) adds to
  `MirrorInv` what is said of a flush (`Flushing`): a batch is pending only while a
  timer runs, so that none is forgotten; outside a flush nothing of the last one is
  left; and the slices of one flush go on only while somebody is still to be served.

`TrackerMirrorProofs` goes on from there to the inventories that clients have:

- `BatchesAreNet`: `PendingIsNet`, under two hypotheses without which it is false.
  All clients take batches (a peer without `inventory_batch` may report while
  nobody does, and a batch left behind by others then misses it), and reports
  come over sockets (`SocketSpec`), for those over REST are published with
  `replace` set whatever they mean. `MergeIsNet` is the step of a report;
- `ClientsCatchUp`: `InventoriesMirrored`, under the same hypotheses and, where
  there are viewers, without peers that come back. The inductive invariant
  (`SyncInv`) follows a flush through its slices: what a client knows, with what
  the rest of the flush still owes it (`Owed`) and then the pending batch, is the
  inventory of the store. A peer that comes into a view between two slices is
  announced with its present inventory and may be in the rest of the flush as well
  (`Due`): the update is then applied to what already has it, which changes
  nothing for those who stay and is wrong for those who left and returned;
- `NothingIsResurrected`: `NothingResurrected`, for every kind of report, if flushes
  are whole or nobody comes back. The run `TrackerHub_resurrect` violates that
  formula on an instance without the hypothesis, so the theorem says where the
  fault lies: in the slices and nowhere else. `ReportedInv` adds that pending and
  flushed updates, too, hold only what was reported.

### The fetcher and the session

`SegmentFlightsProofs` proves, for any number of segments, flights and
consumers:

- `FlightsTypeCorrect`, `SegmentsFetchedOnce`, `BytesCountedOnce`,
  `PeersBlamedJustly`: the invariants `TypeOK`, `OneFlight`, `CountedOnce` and
  `NoFalseBlame`;
- `SharedFlightsSurvive`: `AbortsArePrivate` and `NobodyWaitsAborted`.

`IInv` adds to them what is counted while a flight still runs (`Counting`: only
a peer asked alone is counted before the end, which is why the winner of a race
may be) and why a request to a peer failed (`Faults`: one that was not cut off has
another reason, without which the blame after it could not be justified). `OneFlight`
is needed for the consumers, too: `stop()` reaches the flights in the map, and
no flight may run outside it. The steps inside a flight preserve the part of the
invariant about consumers by one lemma (`ConsumersKept`), the steps of consumers
the part about flights by another (`FlightsKept`).

`TrackerSessionProofs` proves, for any set of segments and with or without an API
key, `SessionTypeCorrect`, `ClientsAreNeverStranded`, `StoppedClientsAreSilent`
and `ReportsAreNotLost`: the invariants `SessionTypeOK`, `NeverStranded`,
`StoppedIsSilent` and `ReportsArrive`. The invariant has three parts, each
inductive with those before it: the types; `Control`, which adds that a started
client is in an active phase and has a request to renew (`Active`) and that a
socket and the timer for the next exclude each other (`OneSocket`); and
`Reports`, which adds that before the tracker handles `subscribe` every report
over this socket is still on the way (`OnTheWay`).

### The store

`SqliteStoreProofs` proves `StoreIsAtomic`: `Spec => ImplementsStore`, for any
broadcasts, peers and segments, any limits and any qualities; the assumptions are
that a peer's traffic, `MaxSegments` and `MaxCharacters` are natural numbers. Every step of the store
on SQLite is, under `View`, an operation of `TrackerStore` or nothing.

The argument. `TrackerStore` takes effect in one step and the code in as many as a
call has statements, so that the invariant must say of a call under way where it
leads: `StoreInv` says that the statements left lead (`Runs`) from the tables they
have reached to tables that are `Sound` and whose view is the `Outcome` of an
operation on what callers saw when the call began. A statement takes the first step
of that run (`RunGoesOn`), and the last one makes its end visible (`OutcomeIsStep`);
a statement that fails, and a crash, go back to tables that are `Sound` too. `Sound`
is what the foreign keys and primary keys keep: rows of peers, statistics and
segments belong to something that exists, and no segment has two rows.

That the invariant holds when a call begins has one lemma for each call, `...Done`: its
statements, one after the other, accomplish its operation. Three of them need
inductions, for lists of any length, which `Counted` gives from the least number that
fails: that the two loops of a report leave exactly the limited inventory
(`RowsGo`, `RowsCome`, `InventoryDone`), that the sweep retires peer after peer what
`TrackerStore` retires together (`Swept`, `SweepDone`, with the sums of
`CarriedMore`), and that a filter keeps what it should, as often as it was there
(`ThoseKept`).

`StoreTypeCorrect` is about the tables in the middle of a call as well, and after a
failure or a crash there: every row is of a broadcast, a peer and a segment that
exist, and outside a group commit what is on disk is what callers see. It needs to
know of every statement that a call may still execute whom it is about and what it
writes (`Fit`); `RowsInv` says so of the script of the call under way. The assumption
that 0 is a possible amount of traffic is what `insertEmptyPeerStats` writes for a
new peer.

`StoreIsBounded` is a use of the refinement: no broadcast has more peers than
`MaxPeers` and no inventory more segments than `MaxSegments` or more characters of
names than `MaxCharacters`, for callers and on disk (`BothWithin`). It is shown of the steps of `TrackerStore`, whose operations check
the limits, and holds of the tables because their steps are such steps; the tables
give only the shape of what callers see (`ViewShaped`). The code checks `maxPeers`,
which is taken to be set, by a count before the first statement of `joinPeer`, and
cuts the inventory before it deletes and inserts rows.

### The machines

The other theorems are about `SafeSpec` of `MCMachines`, whose steps are one
machine's (`OneRuns`): what the steps of a machine keep is kept by all steps
(`MachineSteps`), and its invariant holds whichever machine runs. Nothing is
assumed of the machines' constants but what a theorem states.

`MachineProofs`:

- `TrustNeedsQuorum` (`TrustJustified`), for finitely many peers: what is
  remembered was reported within the window, by others than the reported peer
  (`TrustInv`), so the reporters that make a quorum are among those of the window;
- `SidecarsAreCurrent` (`SidecarsMatch`), for any number of restarts. That a hash
  is of the start it is named after, and of all of what this start has written
  unless it was asked for early (`HashesNamed`), needs that there is no hash of a
  file which is yet to be opened, hence that what is listed is the file and the file
  is of this start or an older one (`Filed`), that two starts never run at a time
  (`Supervised`) and that each has its number (`Counted`);
- `SubscribersAreTold` (`SubscribersFollow`): the hub of the machine is the same
  instance as the hub of `TrackerMirrorProofs` (`SameHub`), whose invariants its
  steps therefore keep. The hypothesis, whole flushes or no returning peers, is
  that of `NothingIsResurrected`, and holds of the run's instance;
- `StoreIsImplemented` (`ImplementsStore`), under the assumptions of `StoreIsAtomic`:
  the store of the machine is the same instance as that of `SqliteStoreProofs`
  (`SameStore`);
- `BatchesAreServable` (`BatchPlanned`), for finitely many candidates, batches and
  waves of any size and every policy: the batch asks for each segment once
  (`EachOnce`: what is added to the distances is their order), a plan that does not
  fit is replaced (`Safely`), and no peer is given two segments of the wave that is
  being planned (`PeersFit`);
- `HedgesAreInTime` (`OriginInTime`): a plan of a deadline-aware scheduler keeps the
  slack of the segment it was made for (`HedgeFits`);
- `DetachedStaysSilent` (`DetachedIsSilent`), whose invariant adds that a client that
  is not started has no timer, for any number of requests under way and of
  attachments;
- `SharedIsVerified` and `LoadersAreIndependent` (`OnlyVerifiedIsShared`,
  `OthersKeepLoading`) for any number of loaders and parts, with one lemma for what
  the check lets pass (`Passed`), one for what settles the shared request and one for
  what continues it.

`TransferProofs`, for two different peers with disjoint sets of requests:

- `StopsAreFinal` (`NothingLeftBehind`) joins the invariants of three machines:
  `RunInv` (in `MachineProofs`: what is under way at each stage of `run()`, and that
  each segment was tried as often as `SegmentAttempts` says), `SignalInv` (a stopped
  transport has no socket, opens none and has no connection at either end), and
  that of the fetcher;
- `SlotsAreReturned` (`SlotsReturned`), for finitely many requests: `slots` is the
  number of uploads that hold one (`SlotInv`), and one that has ended no longer does,
  whichever of its events came first;
- `WholeOrNothing` (`ReceivedIsServed`), for any number of chunks: the chunks that
  are received and those in the channel are the first of the segment, in order, and
  `end` comes behind the last (`FlowInv`); the acknowledgement that lets an
  upload count as served follows the receipt of all of them;
- `MachinesTypeCorrect` (`MachineTypeOK`): the types of all machines at once, from
  the invariants of each (`PeerTypes`, `PluginTypes`, `TrackerTypes`, `OriginTypes`).
  Its assumptions are those of its parts: two different peers, finitely many
  requests, bounds that are natural numbers. Two of the types say more than which set a
  variable is in: what is assigned was asked for (`PlansAreTyped`), and no peer has
  more slots taken than it has (`SlotsStayBounded`, from `SlotInv`).

Two theorems are the part of `StopsEnd` that is not about progress, the "for good" in
it:

- `StoppedStreamIsDark` (`StoppedIsDark`): when `stop()` of the origin has ended, ffmpeg
  is gone, not being started, and no timer will start it. The invariant (`Halting`)
  follows the stop: from its beginning nothing is scheduled; a start that was under
  way is over before ffmpeg is signalled; ffmpeg is gone before hashes are waited for;
  and a stop that rejects, because that start failed, has nothing left to kill;
- `GoneOriginsAreForgotten` (`LeaseRunsOut`, an action property): once the origin is
  gone, the most that is left of its lease, in the tracker or in a registration that
  is still on its way, never grows and goes down with every interval; and a
  broadcast that is forgotten with nothing on its way stays forgotten. That sweeps
  and ticks happen at all is what `StopsEnd` adds under fairness.

### Only model-checked

Liveness: `UploadsEnd` and `StopCompletes` of the upload server, `RequestsEnd`,
`StopsEnd` and `ServiceReturns` of the machines. Fairness and ENABLED are out of the
prover's reach. Every invariant and every action property of the passing runs is
stated by a theorem.

## Not modelled

- The tracker's dashboard: SSE clients and the coalescing of their events,
  metrics, and the buckets of the rate limiters. They read the store and count;
  none of them changes what peers see. A refused request is a failed one in the
  models of the clients.
- Parsing and validation of requests, messages and configurations
  (`inventory-limits.ts`, `client-address.ts`, `common/src/index.ts`): pure
  functions of text.
- Signatures of session tokens, TURN credentials and API keys: a token is valid,
  expired or none.
- Hashing, and the tables of hashes that the verifiers keep: whether a hash is
  asked for once or twice does not change what is accepted. A check passes, fails
  or cannot be made.
- `ll-hls.ts` and `sidecars.ts`, which rewrite playlists and read files on
  request, and the serving of files. `MultiHlsStreamer` starts and stops several
  streamers in turn; one is modelled.
- Statistics of traffic and latency outside the store, and scores: schedulers
  choose by any ranking.
- Messages and connections over their limits at the hub, and several connections
  of one peer.

## What is left

In the model: the hub's connection limits, the event stream of the dashboard, and
several renditions at the origin.
