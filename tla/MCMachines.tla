----------------------------- MODULE MCMachines -----------------------------
(* One run of TLC for machines that do not interact in the model, each on a *)
(* small instance of its own: the first state says which of them takes the  *)
(* steps.  What each of them is about is said in its module.                *)
EXTENDS SegmentFlights, TrackerSession, Sequences, TLC

CONSTANTS
  Machines,    \* the machines that may run, by the names they have below
  Node, Browser, FromNode, FromBrowser, Transport, MaxUploads, MaxRequests, Chunks,
  LastSegment, Window, MaxAttempts, MaxParallel, MinAhead,
  Candidate, Self, Wanted, MaxWork, Distances, Inventories, None,
  Duration, Estimate, Margin, ProbeWindow, MaxHedge,
  Slot, MaxAttach, Loader, Parts,
  HubPeers, ViewSize, HubSegments, Sockets, Modes, ReportKinds,
  ViewersPerTurn, MayRejoin, Unknown, NoUpdate,
  Broadcast, Peer, Segment, MaxPeers, MaxSegments, MaxCharacters, Length,
  Traffic, Quality, MaxRetired,
  Reporter, Reason, Quorum, Lowest,
  Lease, Unlisted, MaxOutages,
  MaxRestarts, Nothing

VARIABLES
  machine,  \* the one that runs
  \* WT: transfers over WebRTC
  transferStopped, transferStarted, sock, opener, transferTimer,
  transferPhase, got, serve, held, slots, sent, asks, serves, toServer,
  toClient, mail,
  \* PA: run() of the peer
  pc, runAborted, uploader, manager, signaling, runTracker, newest, runCurrent,
  runPending, processed, runAttempts, route, tries,
  \* SS: planning of a batch
  policy, deadlines, synthetic, offers, planned, assignments, hedge,
  \* PS: the plugin's session
  viewerActive, viewerRegistered, viewerToken, retry, viewerRefresh, posts,
  deletes, refreshing, viewerStarted, viewerSocket, viewerReconnect,
  viewerListed, viewerAttached, failed,
  \* PL: the plugin's loads
  verifying, loadActive, loadCached, loader, holds, request, consumers, parts,
  assembly, loadListed,
  \* TH: the tracker's hub
  hubRegistered, sees, seenBy, members, inv, mode, mirror, hubPending,
  hubTimer, flushing, requested, updates, queue, hubCurrent, departing,
  refill, former, hubReported, hubAttached,
  \* SQ: the SQLite store
  disk, work, before, script, grouped,
  \* FR: reports of failures
  trust, joined, observations, recent,
  \* BL: leases of broadcasts
  leaseOrigin, loops, stray, record, up, outages,
  \* HS: the origin's stream
  server, terminate, start, stop, stopping, child, restart, streamAttempts,
  life, forsaken, intervals, tracked, generation, awaited, file, published,
  streamPending, sidecars, early

WT == INSTANCE WebRtcTransfer WITH
  stopped <- transferStopped, started <- transferStarted,
  timer <- transferTimer, phase <- transferPhase
PA == INSTANCE PeerApplication WITH
  aborted <- runAborted, tracker <- runTracker, current <- runCurrent, pending <- runPending,
  attempts <- runAttempts
SS == INSTANCE SegmentScheduling WITH
  Peer <- Candidate, Segment <- Wanted, MaxRequests <- MaxWork,
  requests <- planned
PS == INSTANCE PluginSession WITH
  active <- viewerActive, registered <- viewerRegistered,
  token <- viewerToken, refresh <- viewerRefresh, started <- viewerStarted,
  socket <- viewerSocket, reconnect <- viewerReconnect,
  listed <- viewerListed, attached <- viewerAttached
PL == INSTANCE PluginLoads WITH
  active <- loadActive, cached <- loadCached, listed <- loadListed
\* A connection is called by the name of its peer.
TH == INSTANCE TrackerHub WITH
  Owner <- [k \in Sockets |-> k],
  Peers <- HubPeers, Segments <- HubSegments, registered <- hubRegistered,
  pending <- hubPending, timer <- hubTimer, current <- hubCurrent,
  reported <- hubReported, attached <- hubAttached
SQ == INSTANCE SqliteStore
FR == INSTANCE FailureReports WITH
  Peer <- Reporter
BL == INSTANCE BroadcastLease WITH
  origin <- leaseOrigin
HS == INSTANCE StreamSupervision WITH
  attempts <- streamAttempts, pending <- streamPending

\* Names of one character, one of three.
MCLength ==
  [s \in Segment |-> IF s = (CHOOSE x \in Segment : TRUE) THEN 3 ELSE 1]

\* Flights are alike.
Symmetry == Permutations(Flights)

\* The variables of each machine.
transferVars ==
  <<transferStopped, transferStarted, sock, opener, transferTimer,
    transferPhase, got, serve, held, slots, sent, asks, serves, toServer,
    toClient, mail>>
runVars ==
  <<pc, runAborted, uploader, manager, signaling, runTracker, newest,
    runCurrent, runPending, processed, runAttempts, route, tries>>
planVars ==
  <<policy, deadlines, synthetic, offers, planned, assignments, hedge>>
viewerVars ==
  <<viewerActive, viewerRegistered, viewerToken, retry, viewerRefresh, posts,
    deletes, refreshing, viewerStarted, viewerSocket, viewerReconnect,
    viewerListed, viewerAttached, failed>>
loadVars ==
  <<verifying, loadActive, loadCached, loader, holds, request, consumers, parts,
    assembly, loadListed>>
hubVars ==
  <<hubRegistered, sees, seenBy, members, inv, mode, mirror, hubPending,
    hubTimer, flushing, requested, updates, queue, hubCurrent, departing,
    refill, former, hubReported, hubAttached>>
storeVars == <<disk, work, before, script, grouped>>
trustVars == <<trust, joined, observations, recent>>
leaseVars == <<leaseOrigin, loops, stray, record, up, outages>>
streamVars ==
  <<server, terminate, start, stop, stopping, child, restart, streamAttempts,
    life, forsaken, intervals, tracked, generation, awaited, file, published,
    streamPending, sidecars, early>>
machineVars ==
  <<machine, vars, sessionVars, transferVars, runVars, planVars,
    viewerVars, loadVars, hubVars, storeVars, trustVars, leaseVars,
    streamVars>>

\* The machine m runs.
On(m) == machine = m

\* The step is the machine's own, the others take none.
Only(m) ==
  /\ UNCHANGED machine
  /\ IF m = "SF" THEN TRUE ELSE UNCHANGED vars
  /\ IF m = "TS" THEN TRUE ELSE UNCHANGED sessionVars
  /\ IF m = "WT" THEN TRUE ELSE UNCHANGED transferVars
  /\ IF m = "PA" THEN TRUE ELSE UNCHANGED runVars
  /\ IF m = "SS" THEN TRUE ELSE UNCHANGED planVars
  /\ IF m = "PS" THEN TRUE ELSE UNCHANGED viewerVars
  /\ IF m = "PL" THEN TRUE ELSE UNCHANGED loadVars
  /\ IF m = "TH" THEN TRUE ELSE UNCHANGED hubVars
  /\ IF m = "SQ" THEN TRUE ELSE UNCHANGED storeVars
  /\ IF m = "FR" THEN TRUE ELSE UNCHANGED trustVars
  /\ IF m = "BL" THEN TRUE ELSE UNCHANGED leaseVars
  /\ IF m = "HS" THEN TRUE ELSE UNCHANGED streamVars

-----------------------------------------------------------------------------
\* Machines with several first states take them only if they run.
MachineInit ==
  /\ machine \in Machines
  /\ Init /\ SessionInit /\ WT!Init /\ PA!Init /\ PS!Init /\ PL!Init /\ TH!Init
  /\ SQ!Init /\ FR!Init /\ HS!Init
  /\ machine # "PL" => verifying
  /\ IF machine = "SS" THEN SS!Init
     ELSE /\ policy = "weighted" /\ deadlines = FALSE /\ synthetic = FALSE
          /\ offers = <<>> /\ planned = <<>> /\ assignments = <<>> /\ hedge = None
  /\ IF machine = "BL" THEN BL!Init
     ELSE /\ leaseOrigin = "gone" /\ loops = {} /\ stray = {}
          /\ record = Unlisted /\ up = TRUE /\ outages = 0

FetchStep ==
  \/ \E c \in Consumers, s \in Segments :
       \/ On("SF") /\ Join(c, s) /\ Only("SF")
       \/ \E f \in Flights : On("SF") /\ Start(c, s, f) /\ Only("SF")
  \/ \E c \in Consumers : On("SF") /\ Abort(c) /\ Only("SF")
  \/ \E c \in Consumers : On("SF") /\ Deliver(c) /\ Only("SF")
  \/ On("SF") /\ Stop /\ Only("SF")
  \/ \E f \in Flights : On("SF") /\ Progress(f) /\ Only("SF")
  \/ \E s \in Segments : On("SF") /\ Evict(s) /\ Only("SF")

SessionStep ==
  \/ On("TS") /\ Connected /\ Only("TS")
  \/ On("TS") /\ Closed /\ Only("TS")
  \/ On("TS") /\ Finished /\ Only("TS")
  \/ On("TS") /\ ReconnectDue /\ Only("TS")
  \/ On("TS") /\ ReportDue /\ Only("TS")
  \/ On("TS") /\ Fetched /\ Only("TS")
  \/ \E s \in Reportable : On("TS") /\ CacheChanges(s) /\ Only("TS")
  \/ On("TS") /\ PeersArrive /\ Only("TS")
  \/ On("TS") /\ Joined /\ Only("TS")
  \/ On("TS") /\ JoinFails /\ Only("TS")
  \/ On("TS") /\ RefreshDue /\ Only("TS")
  \/ On("TS") /\ Expire /\ Only("TS")
  \/ On("TS") /\ StartupTimeout /\ Only("TS")
  \/ On("TS") /\ Signal /\ Only("TS")
  \/ On("TS") /\ Unwind /\ Only("TS")
  \/ On("TS") /\ Shutdown /\ Only("TS")
  \/ On("TS") /\ Left /\ Only("TS")
  \/ On("TS") /\ TrackerJoins /\ Only("TS")
  \/ On("TS") /\ OrphanJoins /\ Only("TS")
  \/ On("TS") /\ TrackerLeaves /\ Only("TS")
  \/ On("TS") /\ Subscribe /\ Only("TS")
  \/ On("TS") /\ Heartbeat /\ Only("TS")
  \/ On("TS") /\ ReportSegments /\ Only("TS")
  \/ On("TS") /\ Announce /\ Only("TS")
  \/ On("TS") /\ Age /\ Only("TS")
  \/ On("TS") /\ Sweep /\ Only("TS")

TransferStep ==
  \/ On("WT") /\ WT!Start /\ Only("WT")
  \/ On("WT") /\ WT!SocketOpens /\ Only("WT")
  \/ On("WT") /\ WT!SocketCloses /\ Only("WT")
  \/ On("WT") /\ WT!Reconnect /\ Only("WT")
  \/ On("WT") /\ WT!StopNode /\ Only("WT")
  \/ On("WT") /\ WT!StopBrowser /\ Only("WT")
  \/ \E r \in WT!Requests :
       \/ On("WT") /\ WT!NodeRequest(r) /\ Only("WT")
       \/ On("WT") /\ WT!BrowserRequest(r) /\ Only("WT")
       \/ On("WT") /\ WT!ClientStep(r) /\ Only("WT")
       \/ On("WT") /\ WT!AcceptOffer(r) /\ Only("WT")
       \/ On("WT") /\ WT!ReceiveAnswer(r) /\ Only("WT")
       \/ On("WT") /\ WT!ServerStep(r) /\ Only("WT")

RunStep ==
  \/ On("PA") /\ PA!Publish /\ Only("PA")
  \/ On("PA") /\ PA!Abort /\ Only("PA")
  \/ On("PA") /\ PA!ManagerStarts /\ Only("PA")
  \/ On("PA") /\ PA!RunStep /\ Only("PA")
  \/ \E s \in PA!Numbers : On("PA") /\ PA!Fetch(s) /\ Only("PA")

ViewerStep ==
  \/ On("PS") /\ PS!Attach /\ Only("PS")
  \/ On("PS") /\ PS!Detach /\ Only("PS")
  \/ On("PS") /\ PS!RetryFires /\ Only("PS")
  \/ On("PS") /\ PS!RefreshFires /\ Only("PS")
  \/ On("PS") /\ PS!Opens /\ Only("PS")
  \/ On("PS") /\ PS!Closes /\ Only("PS")
  \/ On("PS") /\ PS!ReconnectFires /\ Only("PS")
  \/ On("PS") /\ PS!TrackerForgets /\ Only("PS")
  \/ \E s \in Slot :
       \/ On("PS") /\ PS!TrackerJoins(s) /\ Only("PS")
       \/ On("PS") /\ PS!TrackerRemoves(s) /\ Only("PS")
       \/ On("PS") /\ PS!PostFails(s) /\ Only("PS")
       \/ On("PS") /\ PS!DeleteFails(s) /\ Only("PS")
       \/ On("PS") /\ PS!Joined(s) /\ Only("PS")
       \/ On("PS") /\ PS!Refused(s) /\ Only("PS")
       \/ On("PS") /\ PS!Deleted(s) /\ Only("PS")

LoadStep ==
  \/ \E l \in Loader :
       \/ On("PL") /\ PL!Load(l) /\ Only("PL")
       \/ On("PL") /\ PL!Deliver(l) /\ Only("PL")
       \/ On("PL") /\ PL!Leave(l) /\ Only("PL")
       \/ On("PL") /\ PL!Renew(l) /\ Only("PL")
  \/ On("PL") /\ PL!PeersDeliver /\ Only("PL")
  \/ On("PL") /\ PL!PeersFail /\ Only("PL")
  \/ On("PL") /\ PL!HedgeFires /\ Only("PL")
  \/ On("PL") /\ PL!OriginDelivers /\ Only("PL")
  \/ On("PL") /\ PL!OriginFails /\ Only("PL")
  \/ On("PL") /\ PL!HedgeAborted /\ Only("PL")
  \/ On("PL") /\ PL!Evict /\ Only("PL")
  \/ On("PL") /\ PL!Attach /\ Only("PL")
  \/ On("PL") /\ PL!Detach /\ Only("PL")
  \/ On("PL") /\ PL!List /\ Only("PL")
  \/ On("PL") /\ PL!Verified /\ Only("PL")
  \/ On("PL") /\ PL!Forget /\ Only("PL")
  \/ \E more \in {{}} \cup {{i} : i \in 1..Parts} : On("PL") /\ PL!Record(more) /\ Only("PL")

HubStep ==
  \/ \E p \in HubPeers : On("TH") /\ TH!Join(p) /\ Only("TH")
  \/ \E S \in SUBSET members \ {{}} : On("TH") /\ TH!RemovePeers(S) /\ Only("TH")
  \/ On("TH") /\ TH!Turn /\ Only("TH")
  \/ \E k \in Sockets, u \in TH!Update : On("TH") /\ TH!Report(k, u) /\ Only("TH")
  \/ \E p \in HubPeers, u \in TH!Update : On("TH") /\ TH!ReportRest(p, u) /\ Only("TH")
  \/ On("TH") /\ TH!FlushTimer /\ Only("TH")
  \/ On("TH") /\ TH!Slice /\ Only("TH")
  \/ \E k \in Sockets, m \in Modes : On("TH") /\ TH!Subscribe(k, m) /\ Only("TH")
  \/ \E k \in Sockets : On("TH") /\ TH!Close(k) /\ Only("TH")
  \/ On("TH") /\ TH!RemoveBroadcast /\ Only("TH")
  \/ On("TH") /\ TH!Restart /\ Only("TH")

Call == On("SQ") /\ script = <<>>

StoreStep ==
  \/ Call /\ SQ!RemoveStalePeers /\ Only("SQ")
  \/ \E b \in Broadcast :
       \/ Call /\ SQ!RegisterBroadcast(b) /\ Only("SQ")
       \/ Call /\ SQ!UnregisterBroadcast(b) /\ Only("SQ")
       \/ \E p \in Peer :
            \/ Call /\ SQ!JoinPeer(b, p) /\ Only("SQ")
            \/ Call /\ SQ!LeavePeer(b, p) /\ Only("SQ")
            \/ Call /\ SQ!Heartbeat(b, p) /\ Only("SQ")
            \/ Call /\ SQ!ReportSegments(b, p) /\ Only("SQ")
            \/ Call /\ SQ!ApplySegmentDelta(b, p) /\ Only("SQ")
            \/ Call /\ SQ!ReportStats(b, p) /\ Only("SQ")
            \/ Call /\ SQ!Penalize(b, p) /\ Only("SQ")
  \/ On("SQ") /\ SQ!Statement /\ Only("SQ")
  \/ On("SQ") /\ SQ!StatementFails /\ Only("SQ")
  \/ On("SQ") /\ SQ!EndTurn /\ Only("SQ")
  \/ On("SQ") /\ SQ!Crash /\ Only("SQ")
  \/ On("SQ") /\ SQ!AllAge /\ Only("SQ")

TrustStep ==
  \/ \E p \in Reporter : On("FR") /\ FR!Join(p) /\ Only("FR")
  \/ \E p \in Reporter : On("FR") /\ FR!Leave(p) /\ Only("FR")
  \/ \E r, p \in Reporter, reason \in Reason : On("FR") /\ FR!Report(r, p, reason) /\ Only("FR")
  \/ \E o \in recent : On("FR") /\ FR!Expire(o) /\ Only("FR")
  \/ On("FR") /\ FR!Restart /\ Only("FR")

LeaseStep ==
  \/ On("BL") /\ BL!Started /\ Only("BL")
  \/ On("BL") /\ BL!Shutdown /\ Only("BL")
  \/ On("BL") /\ BL!Unregistered /\ Only("BL")
  \/ On("BL") /\ BL!Stopped /\ Only("BL")
  \/ On("BL") /\ BL!Crash /\ Only("BL")
  \/ On("BL") /\ BL!Tick /\ Only("BL")
  \/ On("BL") /\ BL!Sweep /\ Only("BL")
  \/ On("BL") /\ BL!GoesDown /\ Only("BL")
  \/ On("BL") /\ BL!ComesUp /\ Only("BL")
  \/ \E left \in BL!Left :
       \/ On("BL") /\ BL!Answered(left) /\ Only("BL")
       \/ On("BL") /\ BL!TimedOut(left) /\ Only("BL")
       \/ On("BL") /\ BL!Rejected(left) /\ Only("BL")
       \/ On("BL") /\ BL!StrayArrives(left) /\ Only("BL")

StreamStep ==
  \/ On("HS") /\ HS!Prepared /\ Only("HS")
  \/ On("HS") /\ HS!Spawned /\ Only("HS")
  \/ On("HS") /\ HS!StartFails /\ Only("HS")
  \/ On("HS") /\ HS!RestartFires /\ Only("HS")
  \/ On("HS") /\ HS!Exits /\ Only("HS")
  \/ On("HS") /\ HS!Bind /\ Only("HS")
  \/ On("HS") /\ HS!Terminate /\ Only("HS")
  \/ On("HS") /\ HS!Close /\ Only("HS")
  \/ On("HS") /\ HS!StopChild /\ Only("HS")
  \/ On("HS") /\ HS!Killed /\ Only("HS")
  \/ On("HS") /\ HS!StopDone /\ Only("HS")
  \/ On("HS") /\ HS!Closed /\ Only("HS")
  \/ On("HS") /\ HS!Write /\ Only("HS")
  \/ On("HS") /\ HS!Publish /\ Only("HS")
  \/ On("HS") /\ HS!IntervalFires /\ Only("HS")
  \/ On("HS") /\ HS!RequestHash /\ Only("HS")
  \/ \E hash \in HS!Hashes : On("HS") /\ HS!HashEnds(hash) /\ Only("HS")

MachineNext ==
  \/ FetchStep \/ SessionStep \/ TransferStep \/ RunStep
  \/ On("SS") /\ SS!PlanNext /\ Only("SS")
  \/ ViewerStep \/ LoadStep
  \/ HubStep \/ StoreStep \/ TrustStep \/ LeaseStep \/ StreamStep

SafeSpec == MachineInit /\ [][MachineNext]_machineVars

\* The variables of the machine that runs.
own ==
  CASE On("TH") -> hubVars [] On("WT") -> transferVars [] On("BL") -> leaseVars
    [] On("TS") -> sessionVars [] On("HS") -> streamVars [] On("PA") -> runVars
    [] On("PS") -> viewerVars [] On("SF") -> vars [] OTHER -> machineVars

\* The elements of S in some order.
InOrder(S) == CHOOSE f \in [1..Cardinality(S) -> S] : \A x \in S : \E n \in 1..Cardinality(S) : f[n] = x
ConsumerAt == InOrder(Consumers)
RequestAt  == InOrder(WT!Requests)

\* The n-th action that is weakly fair in the machine that runs: see Fairness in
\* the module of each.  The machine never changes, so that one condition stands
\* for one of each.  (The hub's peers do not join again here, so that its slices
\* and its timer are not disabled for ever, and weak fairness is enough.)
Owed(n) ==
  /\ UNCHANGED machine
  /\ CASE On("TH") ->
         \/ n = 1 /\ TH!Turn
         \/ n = 2 /\ TH!FlushTimer
         \/ n = 3 /\ TH!Slice
    [] On("WT") ->
         \/ n = 1 /\ WT!Reconnect
         \/ n \in {2, 3} /\ WT!ClientStep(RequestAt[n - 1])
         \/ n \in {4, 5} /\ WT!ServerStep(RequestAt[n - 3])
    [] On("BL") ->
         \/ n = 1 /\ BL!Tick
         \/ n = 2 /\ BL!Sweep
         \/ n = 3 /\ BL!ComesUp
         \/ n = 4 /\ BL!Started
    [] On("TS") ->
         \/ n = 1 /\ RefreshDue
         \/ n = 2 /\ Joined
         \/ n = 3 /\ joining = "refused" /\ JoinFails
         \/ n = 4 /\ Age
    [] On("HS") ->
         \/ n = 1 /\ (HS!Prepared \/ HS!Spawned \/ HS!StartFails \/ HS!RestartFires)
         \/ n = 2 /\ (HS!Bind \/ HS!Close \/ HS!Closed)
         \/ n = 3 /\ (HS!StopChild \/ HS!Killed \/ HS!StopDone)
         \/ n > 3 /\ \E hash \in streamPending : n = 3 + hash.name /\ HS!HashEnds(hash)
    [] On("PA") ->
         \/ n \in PA!Numbers /\ PA!Fetch(n)
         \/ n = LastSegment + 1 /\ PA!RunStep
    [] On("PS") ->
         \/ n = 1 /\ PS!RetryFires
         \/ n = 2 /\ PS!RefreshFires
         \/ n = 3 /\ PS!ReconnectFires
         \/ n = 4 /\ PS!Opens
         \/ \E s \in Slot :
              \/ n = 5 /\ PS!TrackerRemoves(s)
              \/ n = 6 /\ PS!Joined(s)
              \/ n = 7 /\ PS!Refused(s)
              \/ n = 8 /\ PS!Deleted(s)
    [] On("SF") ->
         \/ n \in {1, 2} /\ Deliver(ConsumerAt[n])
         \/ n = 3 /\ \E f \in Flights : Progress(f)
    [] OTHER -> FALSE

\* The n-th action that is strongly fair.
OwedAgain(n) ==
  /\ UNCHANGED machine
  /\ CASE On("TS") ->
         \/ n = 1 /\ Sweep
         \/ n = 2 /\ TrackerJoins
    [] On("PS") -> n = 1 /\ (\E s \in Slot : PS!TrackerJoins(s))
    [] On("BL") -> n = 1 /\ BL!Answered(Lease)
    [] OTHER -> FALSE

\* Two consumers, two requests, one flight and one slot.
LiveSpec ==
  /\ SafeSpec
  /\ \A n \in 1..8 : WF_own(Owed(n))
  /\ \A n \in 1..2 : SF_own(OwedAgain(n))

-----------------------------------------------------------------------------
(* Safety.  The properties of SegmentFlights and TrackerSession are theirs:  *)
(* a machine that does not run is in its first state, where they hold.       *)

\* The types of the variables of the machine that runs; TypeOK is that of the
\* fetcher.
MachineTypeOK ==
  CASE machine = "TS" -> SessionTypeOK
    [] machine = "WT" -> WT!TypeOK
    [] machine = "PA" -> PA!TypeOK
    [] machine = "SS" -> SS!TypeOK
    [] machine = "PS" -> PS!TypeOK
    [] machine = "PL" -> PL!TypeOK
    [] machine = "TH" -> TH!TypeOK
    [] machine = "SQ" -> SQ!TypeOK
    [] machine = "FR" -> FR!TypeOK
    [] machine = "BL" -> BL!TypeOK
    [] machine = "HS" -> HS!TypeOK
    [] OTHER -> TypeOK

\* WebRTC transfers (webrtc-transport.ts, webrtc-peer.ts): see WebRtcTransfer.
SlotsReturned    == machine = "WT" => WT!SlotsReturned
ReceivedIsServed == machine = "WT" => WT!ReceivedIsServed

\* Nothing outlives its stop: run() returns with nothing running and its attempts
\* bounded (client.ts, transport-manager.ts: see PeerApplication); a transport
\* that was stopped opens no socket again (see WebRtcTransfer); and who waits
\* for a flight is not one whose fetch was aborted (see SegmentFlights).
NothingLeftBehind ==
  /\ machine = "PA" => PA!NothingLeftBehind /\ PA!TriesAreBounded
  /\ machine = "WT" => WT!StopIsFinal
  /\ NobodyWaitsAborted

\* Planning (scheduler.ts and the policies): see SegmentScheduling.
BatchPlanned == machine = "SS" => SS!BatchPlanned
OriginInTime == machine = "SS" => SS!OriginInTime

\* The plugin (hls-plugin.ts): see PluginSession and PluginLoads.
DetachedIsSilent     == machine = "PS" => PS!DetachedIsSilent
OnlyVerifiedIsShared == machine = "PL" => PL!OnlyVerifiedIsShared
OthersKeepLoading    ==
  [][machine = "PL" => PL!TakesNoneDown]_machineVars

\* The hub (websocket.ts): what subscribers of every mode know of each other.
\* See TrackerHub.
SubscribersFollow ==
  machine = "TH" => TH!MembershipMirrored /\ TH!NothingResurrected

\* The SQLite store (sqlite-store.ts) implements TrackerStore: see SqliteStore.
ImplementsStore ==
  /\ machine = "SQ" => SQ!A!StoreInit
  /\ [][machine = "SQ" => [SQ!A!StoreNext]_(SQ!A!storeVars)]_machineVars

\* Failure reports (store-utils.ts): see FailureReports.
TrustJustified == [][machine = "FR" => FR!Justified]_machineVars

\* Sidecars (streamer.ts): see StreamSupervision.
SidecarsMatch == machine = "HS" => HS!SidecarsMatch

-----------------------------------------------------------------------------
(* Liveness.  The machine never changes, so that one formula states a      *)
(* promise of each.                                                        *)

\* Who waits for a flight is answered: waits[c].  A request over WebRTC ends and
\* the upload it caused gives back its slot, whatever the other peer and the
\* tracker do, unless it waits for a socket that another one opens.
RequestsEnd ==
  \A r \in Consumers \cup WT!Requests :
    \/ machine = "SF" /\ r \in Consumers /\ waits[r] # NoFlight
    \/ machine = "WT" /\ r \in WT!Requests /\ (WT!Active(r) \/ held[r])
    ~>
    \/ machine = "SF" /\ waits[r] = NoFlight
    \/ machine = "WT" /\ (WT!Ended(r) \/ sock = "connecting") /\ ~held[r]

\* What has been told to stop is over, for good: run() of a peer returns after
\* an abort, unless the signaling socket is being opened, which the manager's
\* stop() waits for; the tracker forgets an origin that is gone, although it may
\* have crashed or its last requests arrive after the DELETE; stop() of the origin
\* ends, and neither a back-off nor an exit noticed late starts ffmpeg again.
StopsEnd ==
  \/ machine = "PA" /\ runAborted
  \/ machine = "BL" /\ leaseOrigin = "gone"
  \/ machine = "HS" /\ terminate
  ~>
  [](\/ machine = "PA" /\ (pc \in {"returned", "failed"} \/ signaling = "connecting")
     \/ machine = "BL" /\ record = Unlisted
     \/ machine = "HS" /\ server = "stopped" /\ HS!Silent)

\* What was lost comes back, and what is put off is done: a started client the
\* tracker has forgotten is registered again, and a peer that is gone is
\* forgotten; a viewer is registered again while attached; a signaling socket is
\* opened again; a pending batch is flushed, also when its timer fired during a
\* flush; the broadcast of a running origin gets a lease that has not run out,
\* again and again; and ffmpeg runs again when it exits, until the stream is
\* stopped or has used up its restarts, unless it was ended by a SIGTERM that
\* stop() did not send, which nobody makes good.
ServiceReturns ==
  \/ machine = "TS" /\ IF stage = "gone" THEN registered
                       ELSE started /\ ~registered
  \/ machine = "PS" /\ viewerActive /\ ~viewerListed
  \/ machine = "WT" /\ transferStarted /\ sock = "none"
  \/ machine = "TH" /\ hubTimer # "none"
  \/ machine = "BL" /\ leaseOrigin = "running"
  \/ machine = "HS" /\ server = "serving" /\ child = "none"
  ~>
  \/ machine = "TS" /\ IF stage = "gone" THEN ~registered
                       ELSE registered \/ ~started
  \/ machine = "PS" /\ (viewerListed \/ ~viewerActive)
  \/ machine = "WT" /\ (sock # "none" \/ transferStopped[Node])
  \/ machine = "TH" /\ hubTimer = "none"
  \/ machine = "BL" /\ (record \in 1..Lease \/ leaseOrigin # "running")
  \/ machine = "HS" /\ (child = "running" \/ terminate \/ streamAttempts > MaxRestarts \/ forsaken)
=============================================================================
