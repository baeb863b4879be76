--------------------------- MODULE TrackerSession ---------------------------
(***************************************************************************)
(* A peer's membership: PeerClient and its TrackerClient                   *)
(* (peer/src/client.ts, peer/src/tracker.ts) with what the tracker keeps   *)
(* of that peer (tracker/src/server.ts, websocket.ts, store.ts).  The      *)
(* browser's WsTrackerClient (sdk/src/ws-client.ts) has the same sockets,  *)
(* timers and reports; it leaves joining to the plugin.                    *)
(*                                                                         *)
(* One peer and one tracker.  What other peers see is TrackerHub's matter. *)
(* Messages on a socket arrive in order or are lost with it; since reports *)
(* are differences, those on the way are represented by their net effect.  *)
(* Requests over HTTP may be lost, refused, answered in vain, or handled   *)
(* when the client has given up.                                           *)
(***************************************************************************)
EXTENDS Naturals, FiniteSets

CONSTANTS
  Reportable, \* the segments
  Protected   \* the tracker has an API key, and this peer does not know it

ASSUME SessionAssumption == Protected \in BOOLEAN

VARIABLES
  \* PeerClient
  stage,        \* of run: joining, starting, running, unwinding, leaving, gone
  signalled,    \* the signal given to run is aborted
  keys,         \* cache.keys()
  \* TrackerClient
  started,
  token,        \* sessionToken: none, valid, expired
  joinRequest,  \* joinRequest is set
  refresh,      \* sessionRefreshTimer is set
  socket,       \* none, connecting, open; or closing, after stop()
  reconnect,    \* reconnectTimer is set
  reported,     \* lastReportedSegments
  listed,       \* the Map of peers may have entries
  \* requests: none, sent, granted, refused
  joining,
  leaving,
  orphan,       \* a join the client has given up, and the tracker may yet see
  \* on the socket
  wireSub, wireStatus,
  wireAdd, wireDel,     \* net effect of the reports on the way
  wirePeers,            \* messages from the tracker are on the way
  \* the tracker
  registered,
  inventory,
  stale,        \* not seen for stalePeerMs
  subscribed,
  refused,      \* the tracker has closed the socket because of an error
  touched,      \* history: segments reported over the present socket
  kept          \* history: registered ever since the subscription

wire     == <<wireSub, wireStatus, wireAdd, wireDel, wirePeers>>
link     == <<wire, subscribed, refused>>
requests == <<joining, leaving, orphan>>
tracker  == <<registered, inventory, stale>>
history  == <<touched, kept>>
client   == <<stage, signalled, keys, started, token, joinRequest, refresh, socket,
              reconnect, reported, listed>>
sessionVars == <<client, requests, link, tracker, history>>

SessionInit ==
  /\ stage = "joining" /\ signalled = FALSE /\ keys = {}
  /\ started = FALSE /\ token = "none" /\ joinRequest = FALSE /\ refresh = FALSE
  /\ socket = "none" /\ reconnect = FALSE /\ reported = {} /\ listed = FALSE
  /\ joining = "sent" /\ leaving = "none" /\ orphan = FALSE
  /\ wireSub = FALSE /\ wireStatus = FALSE /\ wireAdd = {} /\ wireDel = {}
  /\ wirePeers = FALSE /\ subscribed = FALSE /\ refused = FALSE
  /\ registered = FALSE /\ inventory = {} /\ stale = FALSE
  /\ touched = {} /\ kept = FALSE

-----------------------------------------------------------------------------
(* The socket *)

\* TrackerClient.stop(), but for stage.
StopClient ==
  /\ started' = FALSE
  /\ listed' = FALSE
  /\ reported' = {}
  /\ reconnect' = FALSE
  /\ refresh' = FALSE
  /\ socket' = IF socket = "open" THEN "closing"
               ELSE IF socket = "connecting" THEN "none" ELSE socket

\* openSocket; the factory may throw.
OpenSocket ==
  \/ socket' = "connecting" /\ reconnect' = FALSE
  \/ socket' = "none" /\ reconnect' = TRUE

\* What was on the way on a socket that is closed.
WireCut ==
  /\ wireSub' = FALSE /\ wireStatus' = FALSE /\ wireAdd' = {} /\ wireDel' = {}
  /\ wirePeers' = FALSE /\ subscribed' = FALSE /\ refused' = FALSE

\* Mutant of Remember: what left the cache is not forgotten.
RememberMore == reported' = reported \cup keys

\* What is reported becomes what was last reported.
Remember == reported' = keys

\* Mutant of Following: a report does not cancel the opposite one before it.
FollowingAll(old, undone, new) == old \cup new

\* The net effect of reports after one more.
Following(old, undone, new) == (old \ undone) \cup new

\* reportSegments on an open socket, with the reports `add` and `del` on the
\* way and `named` reported before.
Report(add, del, named) ==
  LET added   == keys \ reported
      removed == reported \ keys
  IN  /\ wireAdd' = Following(add, removed, added)
      /\ wireDel' = Following(del, added, removed)
      /\ touched' = named \cup added \cup removed
      /\ Remember

\* The tracker accepts the upgrade and the socket opens: subscribe, and
\* reportStatus.  start() resolves.
Connected ==
  /\ socket = "connecting"
  /\ token = "valid" /\ registered
  /\ socket' = "open"
  /\ wireSub' = TRUE /\ wireStatus' = TRUE
  /\ Report({}, {}, {})
  /\ stage' = IF stage = "starting" THEN "running" ELSE stage
  /\ UNCHANGED <<signalled, keys, started, token, joinRequest, refresh, reconnect, listed,
                 requests, wirePeers, subscribed, refused, tracker, kept>>

\* Mutant of ScheduleReconnect: a started client gives up.
ScheduleNone == reconnect' = reconnect

\* The close handler of the client's present socket.
ScheduleReconnect == reconnect' = (started \/ reconnect)

\* The connection cannot be made, or is lost, or closed by the tracker.
Closed ==
  /\ socket \in {"connecting", "open"}
  /\ socket' = "none"
  /\ listed' = FALSE
  /\ ScheduleReconnect
  /\ WireCut
  /\ UNCHANGED <<stage, signalled, keys, started, token, joinRequest, refresh, reported,
                 requests, tracker, history>>

\* The socket closed by stop() is gone: its close event is of no interest.
Finished ==
  /\ socket = "closing"
  /\ socket' = "none"
  /\ WireCut
  /\ UNCHANGED <<stage, signalled, keys, started, token, joinRequest, refresh, reconnect,
                 reported, listed, requests, tracker, history>>

ReconnectDue ==
  /\ reconnect
  /\ OpenSocket
  /\ UNCHANGED <<stage, signalled, keys, started, token, joinRequest, refresh, reported,
                 listed, requests, link, tracker, history>>

\* The report timer: a heartbeat, statistics and a report.
ReportDue ==
  /\ started /\ socket = "open"
  /\ wireStatus' = TRUE
  /\ Report(wireAdd, wireDel, touched)
  /\ UNCHANGED <<stage, signalled, keys, started, token, joinRequest, refresh, socket,
                 reconnect, listed, requests, wireSub, wirePeers, subscribed, refused,
                 tracker, kept>>

\* A batch was fetched: the cache has changed, and reportSegments is called.
\* Without an open socket, nothing is sent and nothing is remembered.
Fetched ==
  /\ stage = "running" /\ ~signalled
  /\ socket = "open" /\ keys # reported
  /\ Report(wireAdd, wireDel, touched)
  /\ UNCHANGED <<stage, signalled, keys, started, token, joinRequest, refresh, socket,
                 reconnect, listed, requests, wireSub, wireStatus, wirePeers, subscribed,
                 refused, tracker, kept>>

\* A segment is stored, evicted or expired; external.
CacheChanges(s) ==
  /\ stage = "running"
  /\ keys' = IF s \in keys THEN keys \ {s} ELSE keys \cup {s}
  /\ UNCHANGED <<stage, signalled, started, token, joinRequest, refresh, socket, reconnect,
                 reported, listed, requests, link, tracker, history>>

\* Mutant of Heeds: messages of a socket given up are applied.
HeedsAll == TRUE

\* Messages count as long as their socket is the client's.
Heeds == socket = "open"

\* A peer list, or news of a peer.
PeersArrive ==
  /\ wirePeers
  /\ wirePeers' = FALSE
  /\ listed' = (listed \/ Heeds)
  /\ UNCHANGED <<stage, signalled, keys, started, token, joinRequest, refresh, socket,
                 reconnect, reported, requests, wireSub, wireStatus, wireAdd, wireDel,
                 subscribed, refused, tracker, history>>

-----------------------------------------------------------------------------
(* Joining and leaving *)

\* A session is issued: join returns.  At first, run goes on to start(), which
\* stops again if the signal is aborted; later it was the refresh.
Joined ==
  /\ joining = "granted"
  /\ joining' = "none"
  /\ token' = "valid"
  /\ joinRequest' = TRUE
  /\ \/ /\ stage = "joining" /\ ~signalled
        /\ stage' = "starting"
        /\ started' = TRUE
        /\ refresh' = TRUE
        /\ OpenSocket
        /\ UNCHANGED <<reported, listed>>
     \/ /\ stage = "joining" /\ signalled
        /\ stage' = "running"
        /\ StopClient
     \/ /\ stage # "joining"
        /\ refresh' = TRUE
        /\ UNCHANGED <<stage, started, socket, reconnect, reported, listed>>
  /\ UNCHANGED <<signalled, keys, leaving, orphan, link, tracker, history>>

\* A refresh that failed is tried again.
Retry == refresh' = TRUE

\* join throws: it was refused, or its time is up, though the tracker may have
\* seen it, or may still see it.
JoinFails ==
  /\ joining # "none"
  /\ joining' = "none"
  /\ orphan' \in {orphan, orphan \/ joining = "sent"}
  /\ \/ /\ stage = "joining"
        /\ stage' = "unwinding"
        /\ UNCHANGED refresh
     \/ /\ stage # "joining"
        /\ Retry
        /\ UNCHANGED stage
  /\ UNCHANGED <<signalled, keys, started, token, joinRequest, socket, reconnect, reported,
                 listed, leaving, link, tracker, history>>

\* The refresh timer.
RefreshDue ==
  /\ refresh
  /\ refresh' = FALSE
  /\ joining' = IF joinRequest THEN "sent" ELSE joining
  /\ UNCHANGED <<stage, signalled, keys, started, token, joinRequest, socket, reconnect,
                 reported, listed, leaving, orphan, link, tracker, history>>

\* The session's time is up.
Expire ==
  /\ token = "valid"
  /\ token' = "expired"
  /\ UNCHANGED <<stage, signalled, keys, started, joinRequest, refresh, socket, reconnect,
                 reported, listed, requests, link, tracker, history>>

\* start() gives the socket up.  It stops the client, and stop() resolves the
\* promise that start() is about to reject, so that run goes on.
StartupTimeout ==
  /\ stage = "starting"
  /\ stage' = "running"
  /\ StopClient
  /\ UNCHANGED <<signalled, keys, token, joinRequest, requests, link, tracker, history>>

\* The signal: stopActiveWork.  A pending start() resolves.
Signal ==
  /\ ~signalled
  /\ stage \in {"joining", "starting", "running"}
  /\ signalled' = TRUE
  /\ stage' = IF stage = "starting" THEN "running" ELSE stage
  /\ StopClient
  /\ UNCHANGED <<keys, token, joinRequest, requests, link, tracker, history>>

\* The playlist loop ends with the signal; run shuts down.
Unwind ==
  /\ stage = "running" /\ signalled
  /\ stage' = "unwinding"
  /\ UNCHANGED <<signalled, keys, started, token, joinRequest, refresh, socket, reconnect,
                 reported, listed, requests, link, tracker, history>>

\* shutdown, after uploader and transports have stopped.
Shutdown ==
  /\ stage = "unwinding"
  /\ stage' = "leaving"
  /\ leaving' = "sent"
  /\ StopClient
  /\ UNCHANGED <<signalled, keys, token, joinRequest, joining, orphan, link, tracker, history>>

\* leave() returns, or throws, which run only logs.
Left ==
  /\ leaving # "none"
  /\ leaving' = "none"
  /\ stage' = "gone"
  /\ \/ /\ leaving = "granted"
        /\ token' = "none"
        /\ joinRequest' = FALSE
     \/ UNCHANGED <<token, joinRequest>>
  /\ UNCHANGED <<signalled, keys, started, refresh, socket, reconnect, reported, listed,
                 joining, orphan, link, tracker, history>>

-----------------------------------------------------------------------------
(* The tracker *)

\* requirePeerSession.
Authorized == Protected => token = "valid"

\* POST peers: a peer that is there must own the session.
Admit ==
  IF registered
  THEN /\ stale' = (stale /\ ~Authorized)
       /\ UNCHANGED <<registered, inventory>>
  ELSE registered' = TRUE /\ inventory' = {} /\ stale' = FALSE

TrackerJoins ==
  /\ joining = "sent"
  /\ joining' = IF registered => Authorized THEN "granted" ELSE "refused"
  /\ Admit
  /\ UNCHANGED <<client, leaving, orphan, link, history>>

OrphanJoins ==
  /\ orphan
  /\ orphan' = FALSE
  /\ Admit
  /\ UNCHANGED <<client, joining, leaving, link, history>>

\* The record of the peer is dropped.
Drop ==
  /\ registered' = FALSE
  /\ inventory' = {}
  /\ stale' = FALSE
  /\ kept' = FALSE

\* DELETE peers/{id}; that there is no such peer (404) is as good.
TrackerLeaves ==
  /\ leaving = "sent"
  /\ leaving' = IF Authorized THEN "granted" ELSE "refused"
  /\ IF Authorized THEN Drop ELSE UNCHANGED <<tracker, kept>>
  /\ UNCHANGED <<client, joining, orphan, link, touched>>

\* The message subscribe.
Subscribe ==
  /\ wireSub
  /\ wireSub' = FALSE
  /\ IF registered
     THEN /\ subscribed' = TRUE
          /\ wirePeers' = TRUE
          /\ kept' = TRUE
          /\ UNCHANGED refused
     ELSE /\ refused' = TRUE
          /\ UNCHANGED <<subscribed, wirePeers, kept>>
  /\ UNCHANGED <<client, requests, wireStatus, wireAdd, wireDel, tracker, touched>>

\* Any other message needs the subscription, and the store the peer.
Welcome == subscribed /\ registered

\* The messages heartbeat and report_stats.
Heartbeat ==
  /\ ~wireSub /\ wireStatus
  /\ wireStatus' = FALSE
  /\ stale' = (stale /\ ~Welcome)
  /\ refused' = (refused \/ ~Welcome)
  /\ UNCHANGED <<client, requests, wireSub, wireAdd, wireDel, wirePeers, subscribed,
                 registered, inventory, history>>

\* The message report_segments.
ReportSegments ==
  /\ ~wireSub /\ wireAdd \cup wireDel # {}
  /\ wireAdd' = {} /\ wireDel' = {}
  /\ IF Welcome
     THEN inventory' = (inventory \ wireDel) \cup wireAdd /\ stale' = FALSE /\ UNCHANGED refused
     ELSE refused' = TRUE /\ UNCHANGED <<inventory, stale>>
  /\ UNCHANGED <<client, requests, wireSub, wireStatus, wirePeers, subscribed, registered,
                 history>>

\* The hub has news for the client; external, see TrackerHub.
Announce ==
  /\ subscribed /\ ~wirePeers
  /\ wirePeers' = TRUE
  /\ UNCHANGED <<client, requests, wireSub, wireStatus, wireAdd, wireDel, subscribed, refused,
                 tracker, history>>

\* The peer has not been heard of for stalePeerMs.
Age ==
  /\ registered /\ ~stale
  /\ stale' = TRUE
  /\ UNCHANGED <<client, requests, link, registered, inventory, history>>

\* lastSeenAt is before the cut-off.
Overdue == registered /\ stale

\* removeStalePeers.
Sweep ==
  /\ Overdue
  /\ Drop
  /\ UNCHANGED <<client, requests, link, touched>>

-----------------------------------------------------------------------------
SessionNext ==
  \/ Connected \/ Closed \/ Finished \/ ReconnectDue \/ ReportDue \/ Fetched
  \/ \E s \in Reportable : CacheChanges(s)
  \/ PeersArrive
  \/ Joined \/ JoinFails \/ RefreshDue \/ Expire \/ StartupTimeout \/ Signal \/ Unwind
  \/ Shutdown \/ Left
  \/ TrackerJoins \/ OrphanJoins \/ TrackerLeaves \/ Subscribe \/ Heartbeat
  \/ ReportSegments \/ Announce \/ Age \/ Sweep

\* Timers fire and answers that have come are taken.  The tracker can be reached
\* again and again; it sweeps far more often than a session is refreshed.
SessionFairness ==
  /\ WF_sessionVars(RefreshDue) /\ WF_sessionVars(Joined)
  /\ WF_sessionVars(joining = "refused" /\ JoinFails)
  /\ WF_sessionVars(Age)
  /\ SF_sessionVars(Sweep) /\ SF_sessionVars(TrackerJoins)

SessionSpec == SessionInit /\ [][SessionNext]_sessionVars /\ SessionFairness

-----------------------------------------------------------------------------
(* Properties *)

\* The types of the client's variables.
ClientTyped ==
  /\ stage \in {"joining", "starting", "running", "unwinding", "leaving", "gone"}
  /\ signalled \in BOOLEAN /\ keys \subseteq Reportable
  /\ started \in BOOLEAN /\ token \in {"none", "valid", "expired"}
  /\ joinRequest \in BOOLEAN /\ refresh \in BOOLEAN
  /\ socket \in {"none", "connecting", "open", "closing"}
  /\ reconnect \in BOOLEAN /\ reported \subseteq Reportable /\ listed \in BOOLEAN

\* The types on the socket: what is on the way is a net effect.
LinkTyped ==
  /\ wireSub \in BOOLEAN /\ wireStatus \in BOOLEAN
  /\ wireAdd \subseteq Reportable /\ wireDel \subseteq Reportable \ wireAdd
  /\ wirePeers \in BOOLEAN
  /\ subscribed \in BOOLEAN /\ refused \in BOOLEAN

\* The types of requests, of the tracker's record, and of the history.
TrackerTyped ==
  /\ joining \in {"none", "sent", "granted", "refused"}
  /\ leaving \in {"none", "sent", "granted", "refused"}
  /\ orphan \in BOOLEAN
  /\ registered \in BOOLEAN /\ inventory \subseteq Reportable /\ stale \in BOOLEAN
  /\ touched \subseteq Reportable /\ kept \in BOOLEAN

\* The type of every variable.
SessionTypeOK == ClientTyped /\ LinkTyped /\ TrackerTyped

\* A started client is never stranded: it has a socket or is about to open one,
\* and it holds a session that it renews or is renewing.
NeverStranded ==
  started =>
    /\ socket \in {"connecting", "open"} \/ reconnect
    /\ refresh \/ joining # "none"

\* Whatever arrives late, a client that was stopped stays silent: it opens no
\* socket, knows no peers and takes nothing for reported.
StoppedIsSilent ==
  ~started =>
    /\ socket \notin {"connecting", "open"} /\ ~reconnect
    /\ ~listed /\ reported = {}

\* The tracker has, or is about to have, exactly what the client takes for
\* reported, of all segments reported over the present socket, however reports
\* and evictions follow each other.
ReportsArrive ==
  socket = "open" /\ subscribed /\ ~refused /\ kept =>
    \A s \in touched :
      s \in (inventory \ wireDel) \cup wireAdd <=> s \in reported

\* tracker.ts:381, "Tracker WebSocket startup timed out", is what start()
\* rejects with: a peer that runs has a tracker client that is started.
RunsStarted == stage = "running" /\ ~signalled => started

\* API_REFERENCE.md:365, "re-report a full inventory after reconnecting": when
\* all that was sent has been handled, the tracker knows what was reported.
InventoryKnown ==
  socket = "open" /\ subscribed /\ ~refused /\ registered /\ wireAdd \cup wireDel = {} =>
    inventory = reported
=============================================================================
