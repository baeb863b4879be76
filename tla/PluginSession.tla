---------------------------- MODULE PluginSession ----------------------------
(***************************************************************************)
(* A browser viewer's membership: the plugin's attach and detach, its      *)
(* registration with the tracker over HTTP, the refresh of its session and *)
(* the WebSocket of its WsTrackerClient (sdk/src/hls-plugin.ts,            *)
(* shaka-plugin.ts, ws-client.ts).  The application may detach and attach  *)
(* again while requests are on their way; requests reach the tracker, and  *)
(* answers the browser, in any order, or fail.                             *)
(***************************************************************************)
EXTENDS Naturals, FiniteSets

CONSTANTS Slot,          \* bound: the requests on their way at a time
          MaxAttach      \* bound: how often the application attaches

VARIABLES active,        \* the grid runs for a player
          registered, token,      \* the session: a token is held
          retry, refresh,         \* registrationRetry, sessionRefresh are set
          posts, deletes,         \* requests by slot
          refreshing,             \* the POSTs that refresh a session
          started, socket,        \* WsTrackerClient: none, connecting, open
          reconnect,              \* reconnectTimer is set
          listed,                 \* the tracker has the peer
          attached,               \* history: attaches so far
          failed                  \* history: a request failed on its way

vars == <<active, registered, token, retry, refresh, posts, refreshing, deletes, started,
          socket, reconnect, listed, attached, failed>>
timers == <<retry, refresh>>
client == <<started, socket, reconnect>>
session == <<registered, token>>

\* A request is sent with or without a token; a POST is answered by a session
\* or an error, a DELETE by anything.
PostState == {"none", "authorized", "bare", "joined", "refused"}
DeleteState == {"none", "authorized", "bare", "answered"}

Init ==
  /\ active = FALSE /\ registered = FALSE /\ token = FALSE
  /\ retry = FALSE /\ refresh = FALSE
  /\ posts = [s \in Slot |-> "none"] /\ refreshing = {} /\ deletes = [s \in Slot |-> "none"]
  /\ started = FALSE /\ socket = "none" /\ reconnect = FALSE
  /\ listed = FALSE /\ attached = 0 /\ failed = FALSE
----
(***************************************************************************)
(* Requests.                                                               *)
(***************************************************************************)
Headers == IF token THEN "authorized" ELSE "bare"
Send(requests, as) ==
  {[requests EXCEPT ![s] = as] : s \in {t \in Slot : requests[t] = "none"}}

\* The POST of registerPeer, to register or to refresh the session.
Register(again) ==
  \E s \in Slot :
    /\ posts[s] = "none" /\ posts' = [posts EXCEPT ![s] = Headers]
    /\ refreshing' = IF again THEN refreshing \cup {s} ELSE refreshing \ {s}

\* The DELETE of unregisterPeer, with the token held at that moment.
Unregister(held) ==
  /\ registered' = FALSE /\ refresh' = FALSE
  /\ deletes' \in Send(deletes, IF held THEN "authorized" ELSE "bare")

\* The tracker joins a peer it does not have, and one that proves it is the same.
TrackerJoins(s) ==
  /\ posts[s] \in {"authorized", "bare"}
  /\ IF listed /\ posts[s] = "bare"
     THEN posts' = [posts EXCEPT ![s] = "refused"] /\ UNCHANGED listed
     ELSE posts' = [posts EXCEPT ![s] = "joined"] /\ listed' = TRUE
  /\ UNCHANGED <<refreshing, active, session, timers, deletes, client, attached, failed>>

TrackerRemoves(s) ==
  /\ deletes[s] \in {"authorized", "bare"}
  /\ deletes' = [deletes EXCEPT ![s] = "answered"]
  /\ listed' = (listed /\ deletes[s] = "bare")
  /\ UNCHANGED <<refreshing, active, session, timers, posts, client, attached, failed>>

\* A request, or the answer to it, is lost.
PostFails(s) ==
  /\ posts[s] \in {"authorized", "bare", "joined"}
  /\ posts' = [posts EXCEPT ![s] = "refused"] /\ failed' = TRUE
  /\ UNCHANGED <<refreshing, active, session, timers, deletes, client, listed, attached>>

DeleteFails(s) ==
  /\ deletes[s] \in {"authorized", "bare"}
  /\ deletes' = [deletes EXCEPT ![s] = "answered"] /\ failed' = TRUE
  /\ UNCHANGED <<refreshing, active, session, timers, posts, client, listed, attached>>

\* The tracker restarts without the peer, or sweeps it when it is not seen.
TrackerForgets ==
  /\ listed /\ listed' = FALSE
  /\ UNCHANGED <<refreshing, active, session, timers, posts, deletes, client, attached, failed>>
----
(***************************************************************************)
(* The plugin.                                                             *)
(***************************************************************************)
\* startGrid, from attach() or hlsJsConfig().
Attach ==
  /\ ~active /\ attached < MaxAttach /\ attached' = attached + 1
  /\ active' = TRUE /\ Register(FALSE)
  /\ UNCHANGED <<session, timers, deletes, client, listed, failed>>

\* WsTrackerClient.stop
StopClient == started' = FALSE /\ socket' = "none" /\ reconnect' = FALSE

\* Mutant of Detach: stopGrid leaves the retry timer alone.
DetachTimers ==
  /\ active /\ active' = FALSE /\ StopClient
  /\ IF registered THEN Unregister(token)
     ELSE UNCHANGED <<registered, refresh, deletes>>
  /\ UNCHANGED <<refreshing, token, retry, posts, listed, attached, failed>>

\* stopGrid
Detach ==
  /\ active /\ active' = FALSE /\ StopClient /\ retry' = FALSE
  /\ IF registered THEN Unregister(token)
     ELSE refresh' = FALSE /\ UNCHANGED <<registered, deletes>>
  /\ UNCHANGED <<refreshing, token, posts, listed, attached, failed>>

\* The rest of registerPeer once the tracker has granted a session.  It sets
\* the refresh timer before it sees that the plugin was detached.
Joined(s) ==
  /\ posts[s] = "joined" /\ posts' = [posts EXCEPT ![s] = "none"]
  /\ token' = TRUE
  /\ IF active
     THEN /\ registered' = TRUE /\ refresh' = TRUE /\ started' = TRUE
          /\ socket' = IF started THEN socket ELSE "connecting"
          /\ UNCHANGED <<deletes, reconnect>>
     ELSE Unregister(TRUE) /\ UNCHANGED client
  /\ UNCHANGED <<refreshing, active, retry, listed, attached, failed>>

\* The handler of a failed registration sets the retry timer; that of a failed
\* refresh, the refresh timer.
Refused(s) ==
  /\ posts[s] = "refused" /\ posts' = [posts EXCEPT ![s] = "none"]
  /\ IF s \in refreshing
     THEN refresh' = (refresh \/ (active /\ registered)) /\ UNCHANGED retry
     ELSE retry' = (retry \/ active) /\ UNCHANGED refresh
  /\ UNCHANGED <<active, session, refreshing, deletes, client, listed, attached, failed>>

\* The rest of unregisterPeer, whatever has happened since.
Deleted(s) ==
  /\ deletes[s] = "answered" /\ deletes' = [deletes EXCEPT ![s] = "none"]
  /\ token' = FALSE
  /\ UNCHANGED <<refreshing, active, registered, timers, posts, client, listed, attached, failed>>

RetryFires ==
  /\ retry /\ retry' = FALSE
  /\ IF active /\ ~registered THEN Register(FALSE) ELSE UNCHANGED <<posts, refreshing>>
  /\ UNCHANGED <<active, session, refresh, deletes, client, listed, attached, failed>>

RefreshFires ==
  /\ refresh /\ refresh' = FALSE
  /\ IF active /\ registered THEN Register(TRUE) ELSE UNCHANGED <<posts, refreshing>>
  /\ UNCHANGED <<active, session, retry, deletes, client, listed, attached, failed>>
----
(***************************************************************************)
(* The WebSocket.                                                          *)
(***************************************************************************)
Opens ==
  /\ socket = "connecting" /\ socket' = "open"
  /\ UNCHANGED <<refreshing, active, session, timers, posts, deletes, started, reconnect, listed,
                 attached, failed>>

\* The close handler of the present socket: scheduleReconnect.
Closes ==
  /\ socket # "none" /\ socket' = "none" /\ reconnect' = started
  /\ UNCHANGED <<refreshing, active, session, timers, posts, deletes, started, listed, attached, failed>>

ReconnectFires ==
  /\ reconnect /\ reconnect' = FALSE /\ socket' = IF started THEN "connecting" ELSE socket
  /\ UNCHANGED <<refreshing, active, session, timers, posts, deletes, started, listed, attached, failed>>

Next ==
  \/ Attach \/ Detach \/ RetryFires \/ RefreshFires
  \/ Opens \/ Closes \/ ReconnectFires \/ TrackerForgets
  \/ \E s \in Slot : \/ TrackerJoins(s) \/ TrackerRemoves(s) \/ PostFails(s)
                     \/ DeleteFails(s) \/ Joined(s) \/ Refused(s) \/ Deleted(s)

Spec == Init /\ [][Next]_vars

\* Timers fire, answers are handled, and requests do not fail for ever.
Fairness ==
  /\ WF_vars(RetryFires) /\ WF_vars(RefreshFires) /\ WF_vars(ReconnectFires)
  /\ WF_vars(Opens)
  /\ \A s \in Slot : /\ SF_vars(TrackerJoins(s)) /\ WF_vars(TrackerRemoves(s))
                     /\ WF_vars(Joined(s)) /\ WF_vars(Refused(s)) /\ WF_vars(Deleted(s))

FairSpec == Spec /\ Fairness
----
\* The types of the plugin's, the requests' and the tracker's variables.
TypeOK ==
  /\ {active, registered, token, retry, refresh, started, reconnect, listed, failed}
       \subseteq BOOLEAN
  /\ posts \in [Slot -> PostState] /\ refreshing \subseteq Slot
  /\ deletes \in [Slot -> DeleteState]
  /\ socket \in {"none", "connecting", "open"} /\ attached \in 0..MaxAttach

Idle == \A s \in Slot : posts[s] = "none" /\ deletes[s] = "none"

\* A detached plugin is silent: no connection, no timer, no session in use,
\* whatever was on its way when detach() was called and comes back later.
DetachedIsSilent ==
  ~active => ~registered /\ ~retry /\ ~refresh /\ ~started /\ ~reconnect /\ socket = "none"

\* "unregisters on detach": once everything is answered, and nothing failed on
\* its way, the tracker does not have a viewer that detached.
UnregistersOnDetach == ~active /\ ~failed /\ Idle => ~listed
=============================================================================
