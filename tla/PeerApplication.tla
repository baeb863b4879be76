-------------------------- MODULE PeerApplication --------------------------
(***************************************************************************)
(* The Node peer's run() (peer/src/client.ts): start-up, the playlist      *)
(* loop with its bounded attempts, and shutdown at any moment, with the    *)
(* life cycle and the WebRTC-then-HTTP fallback of the transport manager   *)
(* (peer/src/transport-manager.ts, peer/src/http-transport.ts) and the     *)
(* origin as the last resort.                                              *)
(*                                                                         *)
(* The playlist is a window that slides over the segments 1, 2, ...        *)
(* External: the origin, the tracker and the peers, which answer or fail.  *)
(* WebRtcTransfer, SegmentFlights, UploadServer and TrackerSession model   *)
(* the parts that are one variable here.                                   *)
(***************************************************************************)
EXTENDS Naturals, FiniteSets

CONSTANTS
  LastSegment, \* bound: segments of the stream
  Window,      \* segments in a playlist
  MaxAttempts, \* MAX_SEGMENT_ATTEMPTS
  MaxParallel, \* maxParallelDownloads
  MinAhead     \* MINIMUM_P2P_SEGMENTS_AHEAD

Numbers == 1..LastSegment

VARIABLES
  pc,        \* where run() is, see Places
  aborted,   \* the signal of SIGINT and SIGTERM
  uploader,  \* the upload server: down, up
  manager,   \* TransportManager: idle, starting, started, stopping, stopped
  signaling, \* WebRtcTransport's socket: off, connecting, on (open, or retried)
  tracker,   \* TrackerClient: out, joined, left
  newest,    \* the last segment of the origin's playlist
  current,   \* the playlist the loop works on
  pending,   \* its segments not yet handled in this round
  processed, \* fetched or given up
  attempts,  \* SegmentAttempts.failures
  route,     \* of a segment of the batch: none, webrtc, http, origin, ok, failed
  tries      \* history: batches a segment was in

managerVars == <<manager, signaling>>
loopVars    == <<current, pending, processed, attempts, route, tries>>
vars == <<pc, aborted, uploader, managerVars, tracker, newest, loopVars>>

Places == {"uploading", "joining", "starting", "polling", "round", "fetching",
           "waiting", "shutdown", "leaving", "returned", "failed"}

\* A playlist that ends with segment n.
Playlist(n) == {s \in Numbers : s <= n /\ s + Window > n}

Batch == {s \in Numbers : route[s] # "none"}

\* segmentsAhead: how many segments of the playlist come after s.
Ahead(s) == Cardinality({t \in current : t > s})

Smallest(S) == CHOOSE s \in S : \A t \in S : s <= t

\* The first MaxParallel of S in playlist order.
FirstOf(S) == {s \in S : Cardinality({t \in S : t < s}) < MaxParallel}

Init ==
  /\ pc = "uploading"
  /\ aborted = FALSE
  /\ uploader = "down"
  /\ manager = "idle" /\ signaling = "off"
  /\ tracker = "out"
  /\ newest = 1
  /\ current = {} /\ pending = {} /\ processed = {}
  /\ attempts = [s \in Numbers |-> 0]
  /\ route = [s \in Numbers |-> "none"]
  /\ tries = [s \in Numbers |-> 0]

\* The origin publishes a segment.
Publish ==
  /\ newest < LastSegment
  /\ newest' = newest + 1
  /\ UNCHANGED <<pc, aborted, uploader, managerVars, tracker, loopVars>>

-----------------------------------------------------------------------------
(* TransportManager                                                         *)

\* start: HTTP needs nothing, WebRTC waits for its signaling socket.
StartManager ==
  /\ manager' = "starting"
  /\ signaling' = "connecting"

\* Mutant of StopManager: a start under way is not waited for.
StopManagerAtOnce ==
  /\ manager' = "stopped"
  /\ signaling' = IF signaling = "on" THEN "off" ELSE signaling

\* stop: after a start that is under way both adapters are stopped.
StopManager ==
  IF manager \in {"starting", "stopping"}
  THEN manager' = "stopping" /\ UNCHANGED signaling
  ELSE manager' = "stopped" /\ signaling' = "off"

\* The signaling socket opens or fails, to be retried: start is over, and
\* what waits for it stops the adapters.
ManagerStarts ==
  /\ signaling = "connecting"
  /\ \/ manager = "stopping" /\ manager' = "stopped" /\ signaling' = "off"
     \/ manager # "stopping" /\ manager' = "started" /\ signaling' = "on"
  /\ UNCHANGED <<pc, aborted, uploader, tracker, newest, loopVars>>

-----------------------------------------------------------------------------
(* run()                                                                    *)

\* The requests of the batch under way are cut off: fetcher.stop().
CutOff == [s \in Numbers |-> IF route[s] \in {"webrtc", "http", "origin"}
                              THEN "failed" ELSE route[s]]

\* stopActiveWork.
StopActiveWork ==
  /\ route' = CutOff
  /\ uploader' = "down"
  /\ StopManager

\* SIGINT or SIGTERM.  The listener is there from the join to the shutdown.
Abort ==
  /\ ~aborted
  /\ pc # "failed" /\ pc # "returned"
  /\ aborted' = TRUE
  /\ IF pc \in {"uploading", "shutdown", "leaving"}
     THEN UNCHANGED <<route, uploader, managerVars>>
     ELSE StopActiveWork
  /\ UNCHANGED <<pc, tracker, newest, current, pending, processed, attempts, tries>>

\* uploader.start, outside of the try block.
Uploading ==
  /\ pc = "uploading"
  /\ \/ pc' = "failed" /\ UNCHANGED <<uploader, managerVars>>
     \/ /\ pc' = "joining"
        /\ IF aborted THEN uploader' = "down" /\ StopManager
           ELSE uploader' = "up" /\ UNCHANGED managerVars
  /\ UNCHANGED <<aborted, tracker, newest, loopVars>>

\* tracker.join; then tracker and transports are started together.  An abort
\* does not cancel the join.
Joined ==
  /\ pc = "joining"
  /\ \/ pc' = "shutdown" /\ UNCHANGED <<managerVars, tracker>>
     \/ pc' = "starting" /\ tracker' = "joined" /\ StartManager
  /\ UNCHANGED <<aborted, uploader, newest, loopVars>>

\* Promise.all: a tracker that does not start is enough to give up.
Started ==
  /\ pc = "starting"
  /\ pc' \in {"shutdown"} \cup (IF signaling = "connecting" THEN {} ELSE {"polling"})
  /\ UNCHANGED <<aborted, uploader, managerVars, tracker, newest, loopVars>>

\* shutdown: uploader and transports, of which the latter may take long.
Shutdown ==
  /\ pc = "shutdown"
  /\ pc' = "leaving"
  /\ uploader' = "down"
  /\ StopManager
  /\ UNCHANGED <<aborted, tracker, newest, loopVars>>

\* tracker.stop and leave, when the transports have stopped.
Leave ==
  /\ pc = "leaving"
  /\ manager = "stopped"
  /\ pc' = "returned"
  /\ tracker' = IF tracker = "joined" THEN "left" ELSE tracker
  /\ UNCHANGED <<aborted, uploader, managerVars, newest, loopVars>>

-----------------------------------------------------------------------------
(* consumePlaylist                                                          *)

\* What is known of segments no longer listed is forgotten.
Retained(playlist, known) == known \cap playlist

\* The playlist is fetched, or cannot be.
Poll ==
  /\ pc = "polling"
  /\ \/ /\ aborted
        /\ pc' = "shutdown"
        /\ UNCHANGED loopVars
     \/ /\ ~aborted
        /\ pc' = "waiting"
        /\ UNCHANGED loopVars
     \/ LET playlist == Playlist(newest)
        IN  /\ ~aborted
            /\ pc' = "round"
            /\ current' = playlist
            /\ processed' = Retained(playlist, processed)
            /\ attempts' = [s \in Numbers |-> IF s \in playlist THEN attempts[s] ELSE 0]
            /\ pending' = playlist \ processed'
            /\ tries' = [s \in Numbers |-> IF s \in playlist THEN tries[s] ELSE 0]
            /\ UNCHANGED route
  /\ UNCHANGED <<aborted, uploader, managerVars, tracker, newest>>

\* The next batch: segments with time to spare, or else the first of the rest.
\* Each is asked from a peer or from the origin, as the scheduler says.
NextBatch ==
  LET spare == {s \in pending : Ahead(s) >= MinAhead}
      batch == IF spare # {} THEN FirstOf(spare) ELSE {Smallest(pending)}
  IN  /\ pc = "round" /\ ~aborted /\ pending # {}
      /\ \E peers \in SUBSET batch :
           route' = [s \in Numbers |-> IF s \in peers THEN "webrtc"
                                        ELSE IF s \in batch THEN "origin" ELSE "none"]
      /\ pending' = pending \ batch
      /\ tries' = [s \in Numbers |-> IF s \in batch THEN tries[s] + 1 ELSE tries[s]]
      /\ pc' = "fetching"
      /\ UNCHANGED <<aborted, uploader, managerVars, tracker, newest, current, processed,
                     attempts>>

RoundOver ==
  /\ pc = "round"
  /\ aborted \/ pending = {}
  /\ pc' = "waiting"
  /\ UNCHANGED <<aborted, uploader, managerVars, tracker, newest, loopVars>>

\* TransportManager.fetchSegment tries WebRTC, then HTTP; the fetcher goes on
\* to the origin.
Fallback(step) ==
  CASE step = "webrtc" -> "http" [] step = "http" -> "origin" [] OTHER -> "failed"

Fetch(s) ==
  /\ route[s] \in {"webrtc", "http", "origin"}
  /\ \E answer \in {"ok", Fallback(route[s])} : route' = [route EXCEPT ![s] = answer]
  /\ UNCHANGED <<pc, aborted, uploader, managerVars, tracker, newest, current, pending,
                 processed, attempts, tries>>

\* SegmentAttempts.fail.
GivenUp(failures) == failures >= MaxAttempts

\* fetchBatch: if one segment of the batch fails, all of them have failed.
BatchEnds ==
  /\ pc = "fetching"
  /\ \A s \in Batch : route[s] \in {"ok", "failed"}
  /\ LET failed == \E s \in Batch : route[s] = "failed"
     IN  /\ attempts' = [s \in Numbers |-> IF s \notin Batch THEN attempts[s]
                                            ELSE IF failed THEN attempts[s] + 1 ELSE 0]
         /\ processed' = processed \cup {s \in Batch : failed => GivenUp(attempts'[s])}
  /\ route' = [s \in Numbers |-> "none"]
  /\ pc' = "round"
  /\ UNCHANGED <<aborted, uploader, managerVars, tracker, newest, current, pending, tries>>

\* delay: until the next poll, or the abort.
Wait ==
  /\ pc = "waiting"
  /\ pc' = "polling"
  /\ UNCHANGED <<aborted, uploader, managerVars, tracker, newest, loopVars>>

RunStep ==
  \/ Uploading \/ Joined \/ Started \/ Shutdown \/ Leave
  \/ Poll \/ NextBatch \/ RoundOver \/ BatchEnds \/ Wait

Next == Publish \/ Abort \/ ManagerStarts \/ RunStep \/ \E s \in Numbers : Fetch(s)

\* Every request has a time-out but the one that opens the signaling socket.
Fairness ==
  WF_vars(RunStep) /\ \A s \in Numbers : WF_vars(Fetch(s))

Spec == Init /\ [][Next]_vars /\ Fairness

-----------------------------------------------------------------------------
(* Properties *)

\* The type of every variable.
TypeOK ==
  /\ pc \in Places /\ aborted \in BOOLEAN
  /\ uploader \in {"down", "up"}
  /\ manager \in {"idle", "starting", "started", "stopping", "stopped"}
  /\ signaling \in {"off", "connecting", "on"}
  /\ tracker \in {"out", "joined", "left"}
  /\ newest \in Numbers /\ current \subseteq Numbers
  /\ pending \subseteq current /\ processed \subseteq current
  /\ attempts \in [Numbers -> 0..MaxAttempts]
  /\ route \in [Numbers -> {"none", "webrtc", "http", "origin", "ok", "failed"}]
  /\ tries \in [Numbers -> Nat]

\* When run() is over, at whatever moment it was aborted or failed, nothing it
\* started is left: no upload server, no transport that would start or be
\* started later, no request, and no membership it did not try to give up.
NothingLeftBehind ==
  pc \in {"returned", "failed"} =>
    /\ uploader = "down" /\ signaling = "off" /\ tracker # "joined"
    /\ manager \in {"idle", "stopped"}
    /\ Batch = {}

\* client.ts:94: a segment that keeps failing is given up "instead of being
\* downloaded from the origin again on every playlist poll": while the
\* playlist lists it, it is tried at most MaxAttempts times.
TriesAreBounded == \A s \in Numbers : tries[s] <= MaxAttempts
=============================================================================
