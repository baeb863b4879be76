--------------------------- MODULE WebRtcTransfer ---------------------------
(***************************************************************************)
(* Segments over WebRTC data channels between a Node peer                  *)
(* (peer/src/webrtc-transport.ts) and a browser                            *)
(* (sdk/src/webrtc-peer.ts), each asking the other: offer and answer       *)
(* through the tracker, the transfer with its receipt, the limited upload  *)
(* slots, time-outs on both ends, and the Node peer's signaling socket.    *)
(*                                                                         *)
(* External: WebRTC itself, a connection per request whose ends close at   *)
(* different times, losing what is under way; and the tracker, which may   *)
(* delay an offer or answer for ever.  A time-out may fire at any moment.  *)
(***************************************************************************)
EXTENDS Naturals, FiniteSets, Sequences

CONSTANTS
  Node, Browser, \* the two peers
  FromNode,      \* bound: requests of the Node peer, served by the browser
  FromBrowser,   \* bound: requests of the browser, served by the Node peer
  Transport,     \* who connects when it is not a request: start, reconnect timer
  MaxUploads,    \* maxUploadConnections
  MaxRequests,   \* bound: how many of the requests are made
  Chunks         \* bound: chunks of a segment

Peers    == {Node, Browser}
Requests == FromNode \cup FromBrowser

From(r) == IF r \in FromNode THEN Node ELSE Browser
To(r)   == IF r \in FromNode THEN Browser ELSE Node

Whole == [i \in 1..Chunks |-> i]

\* What the uploader sends: sendControl's messages, and the i-th chunk.
Control(type) == [type |-> type, chunk |-> <<>>]
Frame(i)      == [type |-> "binary", chunk |-> <<Whole[i]>>]

VARIABLES
  stopped,   \* of both peers; the Node peer is stopped until start
  started,   \* history: start was called
  sock,      \* signalSocket of the Node peer: none, connecting, open
  opener,    \* who called ensureSignalSocket for the connection under way
  timer,     \* signalReconnectTimer is set
  phase,     \* of a request, see Phases
  got,       \* chunks received
  serve,     \* acceptOffer and serveSegment for a request, see ServePhases
  held,      \* acceptOffer has not finished: the upload slot is taken
  slots,     \* activeUploadConnections
  sent,      \* chunks sent
  asks,      \* the requester's end of the connection is open
  serves,    \* the uploader's end is open
  toServer, toClient,  \* the data channel, one way and the other
  mail       \* offers and answers at the tracker

signalVars  == <<stopped, started, sock, opener, timer>>
channelVars == <<toServer, toClient>>
clientVars  == <<phase, got, asks>>
serverVars  == <<serve, held, slots, sent, serves>>
vars == <<signalVars, clientVars, serverVars, channelVars, mail>>

Phases == {"idle", "signaling", "expired", "gathering", "offered", "opening",
           "receiving", "verifying", "done", "failed"}
ServePhases == {"none", "answering", "waiting", "looking", "sending", "receipt",
                "served", "over"}

Ended(r)   == phase[r] \in {"done", "failed"}
Active(r)  == phase[r] # "idle" /\ ~Ended(r)
Serving(r) == serve[r] \notin {"none", "served", "over"}

\* A peer hears of offers and answers.  A browser's client is WsClient's.
Listening(p) == ~stopped[p] /\ (p = Node => sock = "open")

Init ==
  /\ stopped = [p \in Peers |-> p = Node]
  /\ started = FALSE
  /\ sock = "none" /\ opener = Transport /\ timer = FALSE
  /\ phase = [r \in Requests |-> "idle"]
  /\ got = [r \in Requests |-> <<>>]
  /\ serve = [r \in Requests |-> "none"]
  /\ held = [r \in Requests |-> FALSE]
  /\ slots = [p \in Peers |-> 0]
  /\ sent = [r \in Requests |-> 0]
  /\ asks = [r \in Requests |-> FALSE]
  /\ serves = [r \in Requests |-> FALSE]
  /\ toServer = [r \in Requests |-> <<>>]
  /\ toClient = [r \in Requests |-> <<>>]
  /\ mail = {}

-----------------------------------------------------------------------------
(* The signaling socket of the Node peer                                    *)

\* scheduleSignalReconnect: one timer, none when stopped.
Schedule == timer' = (timer \/ ~stopped[Node])

\* ensureSignalSocket of a peer that has no socket yet.
Connect(who) ==
  /\ sock' = "connecting"
  /\ opener' = who

Start ==
  /\ ~started
  /\ started' = TRUE
  /\ stopped' = [stopped EXCEPT ![Node] = FALSE]
  /\ Connect(Transport)
  /\ UNCHANGED <<timer, clientVars, serverVars, channelVars, mail>>

Waiters == {r \in FromNode : phase[r] \in {"signaling", "expired"}}

\* The socket opens and subscribes: who waited for it goes on, unless its own
\* time is over.
SocketOpens ==
  /\ sock = "connecting"
  /\ sock' = "open"
  /\ phase' = [r \in Requests |->
                 IF r \notin Waiters THEN phase[r]
                 ELSE IF phase[r] = "expired" THEN "failed" ELSE "gathering"]
  /\ asks' = [r \in Requests |-> asks[r] \/ phase[r] = "signaling"]
  /\ UNCHANGED <<stopped, started, opener, timer, got, serverVars, channelVars, mail>>

\* The requests that end with the socket: those that wait for it, and those
\* whose answer would come over it (rejectPendingAnswers).
LoseSocket ==
  LET lost == {r \in FromNode : phase[r] = "offered"} \cup Waiters
  IN  /\ sock' = "none"
      /\ phase' = [r \in Requests |-> IF r \in lost THEN "failed" ELSE phase[r]]
      /\ asks' = [r \in Requests |-> asks[r] /\ r \notin lost]

\* It cannot be opened, or it closes.
SocketCloses ==
  /\ sock # "none"
  /\ LoseSocket
  /\ Schedule
  /\ UNCHANGED <<stopped, started, opener, got, serverVars, channelVars, mail>>

\* The reconnect timer fires.
Reconnect ==
  /\ timer
  /\ timer' = FALSE
  /\ IF sock = "none" THEN Connect(Transport) ELSE UNCHANGED <<sock, opener>>
  /\ UNCHANGED <<stopped, started, clientVars, serverVars, channelVars, mail>>

-----------------------------------------------------------------------------
(* The requester                                                            *)

\* closePeerConnection and the result.
EndRequest(r, result) ==
  /\ phase' = [phase EXCEPT ![r] = result]
  /\ asks' = [asks EXCEPT ![r] = FALSE]

\* One more request is made.
Requested(r) ==
  /\ phase[r] = "idle"
  /\ Cardinality({q \in Requests : phase[q] # "idle"}) < MaxRequests

\* requestSegment of the Node peer: first of all it needs the socket.
NodeRequest(r) ==
  /\ r \in FromNode
  /\ Requested(r) /\ started
  /\ \/ /\ stopped[Node]
        /\ EndRequest(r, "failed")
        /\ UNCHANGED <<sock, opener>>
     \/ /\ ~stopped[Node] /\ sock = "open"
        /\ phase' = [phase EXCEPT ![r] = "gathering"]
        /\ asks' = [asks EXCEPT ![r] = TRUE]
        /\ UNCHANGED <<sock, opener>>
     \/ /\ ~stopped[Node] /\ sock # "open"
        /\ phase' = [phase EXCEPT ![r] = "signaling"]
        /\ IF sock = "none" THEN Connect(r) ELSE UNCHANGED <<sock, opener>>
        /\ UNCHANGED asks
  /\ UNCHANGED <<stopped, started, timer, got, serverVars, channelVars, mail>>

\* requestSegment of the browser.
BrowserRequest(r) ==
  /\ r \in FromBrowser /\ Requested(r)
  /\ IF stopped[Browser]
     THEN EndRequest(r, "failed")
     ELSE /\ phase' = [phase EXCEPT ![r] = "gathering"]
          /\ asks' = [asks EXCEPT ![r] = TRUE]
  /\ UNCHANGED <<signalVars, got, serverVars, channelVars, mail>>

\* The offer is ready and sent; if it cannot be sent the request is over.
SendOffer(r) ==
  /\ phase[r] = "gathering" /\ asks[r]
  /\ IF Listening(From(r))
     THEN /\ phase' = [phase EXCEPT ![r] = "offered"]
          /\ mail' = mail \cup {[type |-> "webrtc_offer", id |-> r]}
          /\ UNCHANGED asks
     ELSE EndRequest(r, "failed") /\ UNCHANGED mail
  /\ UNCHANGED <<signalVars, got, serverVars, channelVars>>

\* handleSignalMessage, handleSignal: an answer nobody waits for is ignored.
ReceiveAnswer(r) ==
  LET answer == [type |-> "webrtc_answer", id |-> r]
  IN  /\ answer \in mail
      /\ Listening(From(r))
      /\ mail' = mail \ {answer}
      /\ phase' = [phase EXCEPT ![r] = IF @ = "offered" THEN "opening" ELSE @]
      /\ UNCHANGED <<signalVars, got, asks, serverVars, channelVars>>

\* The channel opens and the request is sent.
ChannelOpens(r) ==
  /\ phase[r] = "opening" /\ asks[r]
  /\ serves[r]
  /\ phase' = [phase EXCEPT ![r] = "receiving"]
  /\ toServer' = [toServer EXCEPT ![r] = Append(@, "segment_request")]
  /\ UNCHANGED <<signalVars, got, asks, serverVars, toClient, mail>>

\* Mutant of Complete: the last chunk is taken for granted.
CompleteEarly(r, chunks) == Len(chunks) + 1 >= Chunks

\* receiveSegment: complete.
Complete(r, chunks) == Len(chunks) = Chunks

\* receiveSegment: onMessage.
Receive(r) ==
  /\ phase[r] = "receiving" /\ asks[r]
  /\ toClient[r] # <<>>
  /\ LET message == Head(toClient[r])
         chunks  == got[r] \o message.chunk
     IN  /\ got' = [got EXCEPT ![r] = chunks]
         /\ \/ /\ message.type = "segment_error"
               /\ toServer' = [toServer EXCEPT ![r] = Append(@, "segment_received")]
               /\ EndRequest(r, "failed")
            \/ /\ message.type # "segment_error" /\ Complete(r, chunks)
               /\ toServer' = [toServer EXCEPT ![r] = Append(@, "segment_received")]
               /\ IF r \in FromNode
                  THEN phase' = [phase EXCEPT ![r] = "verifying"] /\ UNCHANGED asks
                  ELSE EndRequest(r, "done")
            \/ /\ message.type # "segment_error" /\ ~Complete(r, chunks)
               /\ UNCHANGED <<toServer, phase, asks>>
  /\ toClient' = [toClient EXCEPT ![r] = Tail(@)]
  /\ UNCHANGED <<signalVars, serverVars, mail>>

\* The Node transport's own check of the segment, if it was given a verifier.
Verified(r) ==
  /\ phase[r] = "verifying"
  /\ \E result \in {"done", "failed"} : EndRequest(r, result)
  /\ UNCHANGED <<signalVars, got, serverVars, channelVars, mail>>

\* The time-out or the caller's signal, or an error of the connection, whose
\* other end may be closed.
RequestFails(r) ==
  /\ phase[r] \in {"gathering", "offered", "opening", "receiving"}
  /\ EndRequest(r, "failed")
  /\ UNCHANGED <<signalVars, got, serverVars, channelVars, mail>>

\* The time-out or the signal while the request waits for the socket: the
\* connection it opened itself is given up, and everyone who waits for it
\* fails; that of another is waited for, whatever the time.
TimeOutSignaling(r) ==
  /\ phase[r] = "signaling"
  /\ IF opener = r
     THEN LoseSocket /\ Schedule
     ELSE phase' = [phase EXCEPT ![r] = "expired"] /\ UNCHANGED <<sock, asks, timer>>
  /\ UNCHANGED <<stopped, started, opener, got, serverVars, channelVars, mail>>

-----------------------------------------------------------------------------
(* The uploader                                                             *)

\* Mutant of Finish: the slot is returned by everyone who calls finish.
FinishAlways(r) ==
  /\ held' = [held EXCEPT ![r] = FALSE]
  /\ slots' = [slots EXCEPT ![To(r)] = IF @ > 0 THEN @ - 1 ELSE 0]
  /\ serves' = [serves EXCEPT ![r] = FALSE]

\* acceptOffer's finish, which only the first call runs.
Finish(r) ==
  IF held[r]
  THEN /\ held' = [held EXCEPT ![r] = FALSE]
       /\ slots' = [slots EXCEPT ![To(r)] = @ - 1]
       /\ serves' = [serves EXCEPT ![r] = FALSE]
  ELSE UNCHANGED <<held, slots, serves>>

\* acceptOffer: an offer beyond the limit is ignored, one that comes late is
\* not.
AcceptOffer(r) ==
  LET offer == [type |-> "webrtc_offer", id |-> r]
  IN  /\ offer \in mail
      /\ Listening(To(r))
      /\ mail' = mail \ {offer}
      /\ IF slots[To(r)] >= MaxUploads
         THEN UNCHANGED serverVars
         ELSE /\ slots' = [slots EXCEPT ![To(r)] = @ + 1]
              /\ held' = [held EXCEPT ![r] = TRUE]
              /\ serves' = [serves EXCEPT ![r] = TRUE]
              /\ serve' = [serve EXCEPT ![r] = "answering"]
              /\ UNCHANGED sent
      /\ UNCHANGED <<signalVars, clientVars, channelVars>>

SendAnswer(r) ==
  /\ serve[r] = "answering" /\ serves[r]
  /\ IF Listening(To(r))
     THEN /\ serve' = [serve EXCEPT ![r] = "waiting"]
          /\ mail' = mail \cup {[type |-> "webrtc_answer", id |-> r]}
          /\ UNCHANGED <<held, slots, serves>>
     ELSE serve' = [serve EXCEPT ![r] = "over"] /\ Finish(r) /\ UNCHANGED mail
  /\ UNCHANGED <<signalVars, clientVars, sent, channelVars>>

\* waitForSegmentRequest; then the provider is asked.
ReceiveRequest(r) ==
  /\ serve[r] = "waiting" /\ serves[r]
  /\ toServer[r] # <<>>
  /\ toServer' = [toServer EXCEPT ![r] = Tail(@)]
  /\ serve' = [serve EXCEPT ![r] = "looking"]
  /\ UNCHANGED <<signalVars, clientVars, held, slots, sent, serves, toClient, mail>>

\* The provider answers; a channel closed meanwhile takes no answer.
Respond(r) ==
  /\ serve[r] = "looking"
  /\ \/ /\ serves[r]
        /\ \E response \in {"segment_response", "segment_error"} :
             /\ toClient' = [toClient EXCEPT ![r] = Append(@, Control(response))]
             /\ serve' = [serve EXCEPT ![r] =
                            IF response = "segment_response" THEN "sending" ELSE "receipt"]
        /\ UNCHANGED <<held, slots, serves>>
     \/ /\ ~serves[r]
        /\ serve' = [serve EXCEPT ![r] = "over"]
        /\ Finish(r)
        /\ UNCHANGED toClient
  /\ UNCHANGED <<signalVars, clientVars, sent, toServer, mail>>

\* A chunk, when the bandwidth limit and the channel's buffer allow it.
SendChunk(r) ==
  /\ serve[r] = "sending" /\ serves[r]
  /\ sent' = [sent EXCEPT ![r] = @ + 1]
  /\ toClient' = [toClient EXCEPT ![r] = Append(@, Frame(sent'[r]))]
  /\ serve' = [serve EXCEPT ![r] = IF sent'[r] = Chunks THEN "receipt" ELSE @]
  /\ UNCHANGED <<signalVars, clientVars, held, slots, serves, toServer, mail>>

\* waitForSegmentReceipt: the requester has everything, or knows that the
\* segment is not here.
ReceiveReceipt(r) ==
  /\ serve[r] = "receipt" /\ serves[r]
  /\ toServer[r] # <<>>
  /\ toServer' = [toServer EXCEPT ![r] = Tail(@)]
  /\ serve' = [serve EXCEPT ![r] = IF sent[r] = Chunks THEN "served" ELSE "over"]
  /\ Finish(r)
  /\ UNCHANGED <<signalVars, clientVars, sent, toClient, mail>>

\* The upload's time-out, or the connection fails.
UploadAborts(r) ==
  /\ held[r]
  /\ Finish(r)
  /\ UNCHANGED <<signalVars, clientVars, serve, sent, channelVars, mail>>

\* What acceptOffer or serveSegment was waiting for is rejected because this
\* end or the other one has closed: finish is called (again).
ServeFails(r) ==
  /\ Serving(r) /\ serve[r] # "looking"
  /\ ~serves[r] \/ (serve[r] # "answering" /\ Ended(r))
  /\ serve' = [serve EXCEPT ![r] = "over"]
  /\ Finish(r)
  /\ UNCHANGED <<signalVars, clientVars, sent, channelVars, mail>>

-----------------------------------------------------------------------------

\* The requests of p whose promise stop() rejects, or whose connection it
\* closes; those that gather candidates are left to their time-out.
Close(p) ==
  /\ phase' = [r \in Requests |->
                 IF From(r) = p /\ phase[r] \in {"signaling", "expired", "offered"}
                 THEN "failed" ELSE phase[r]]
  /\ asks' = [r \in Requests |-> asks[r] /\ From(r) # p]
  /\ serves' = [r \in Requests |-> serves[r] /\ To(r) # p]

StopNode ==
  /\ started /\ ~stopped[Node]
  /\ stopped' = [stopped EXCEPT ![Node] = TRUE]
  /\ sock' = "none"
  /\ timer' = FALSE
  /\ Close(Node)
  /\ UNCHANGED <<started, opener, got, serve, held, slots, sent, channelVars, mail>>

StopBrowser ==
  /\ ~stopped[Browser]
  /\ stopped' = [stopped EXCEPT ![Browser] = TRUE]
  /\ Close(Browser)
  /\ UNCHANGED <<started, sock, opener, timer, got, serve, held, slots, sent,
                 channelVars, mail>>

ClientStep(r) ==
  \/ SendOffer(r) \/ ChannelOpens(r) \/ Receive(r) \/ Verified(r)
  \/ RequestFails(r) \/ TimeOutSignaling(r)

ServerStep(r) ==
  \/ SendAnswer(r) \/ ReceiveRequest(r) \/ Respond(r) \/ SendChunk(r)
  \/ ReceiveReceipt(r) \/ UploadAborts(r) \/ ServeFails(r)

Next ==
  \/ Start \/ SocketOpens \/ SocketCloses \/ Reconnect \/ StopNode \/ StopBrowser
  \/ \E r \in Requests :
       \/ NodeRequest(r) \/ BrowserRequest(r) \/ ClientStep(r)
       \/ AcceptOffer(r) \/ ReceiveAnswer(r) \/ ServerStep(r)

\* Timers fire and what is ready runs.  The tracker owes nothing: it may never
\* answer an upgrade, and may lose an offer or an answer.
Fairness ==
  /\ \A r \in Requests : WF_vars(ClientStep(r)) /\ WF_vars(ServerStep(r))
  /\ WF_vars(Reconnect)

Spec == Init /\ [][Next]_vars /\ Fairness

-----------------------------------------------------------------------------
(* Properties *)

\* The type of every variable.
TypeOK ==
  /\ stopped \in [Peers -> BOOLEAN] /\ started \in BOOLEAN
  /\ sock \in {"none", "connecting", "open"}
  /\ opener \in FromNode \cup {Transport}
  /\ timer \in BOOLEAN
  /\ phase \in [Requests -> Phases]
  /\ \A r \in Requests : got[r] \in Seq(1..Chunks) /\ sent[r] \in 0..Chunks
  /\ serve \in [Requests -> ServePhases]
  /\ held \in [Requests -> BOOLEAN] /\ slots \in [Peers -> 0..MaxUploads]
  /\ asks \in [Requests -> BOOLEAN] /\ serves \in [Requests -> BOOLEAN]
  /\ mail \subseteq [type : {"webrtc_offer", "webrtc_answer"}, id : Requests]

\* Each upload under way holds one slot, and one that ended, whichever of its
\* time-out, its errors, the end of serveSegment, the connection and stop()
\* came first and came again, holds none: no slot is lost or returned twice.
SlotsReturned ==
  \A p \in Peers : slots[p] = Cardinality({r \in Requests : To(r) = p /\ held[r]})

\* What a request returns is the segment the other peer had, whole and in
\* order; and an upload counts as served only if the requester has it all,
\* though it may have given up or failed to verify it afterwards.
ReceivedIsServed ==
  \A r \in Requests : phase[r] = "done" \/ serve[r] = "served" => got[r] = Whole

\* After stop() the peer has no socket, opens none, and has no connection, be
\* it of a request, of an upload, or of an offer or timer that was under way.
StopIsFinal ==
  /\ started /\ stopped[Node] => sock = "none" /\ ~timer
  /\ \A p \in Peers, r \in Requests :
       stopped[p] => (From(r) = p => ~asks[r]) /\ (To(r) = p => ~serves[r])

\* transport-manager.ts:262, "Signaling can be retried lazily by
\* requestSegment; HTTP stays usable.": a request over WebRTC ends, so that
\* HTTP is tried.  It does not end while a connection that start() or the
\* reconnect timer opened hangs, since the request's time-out is not heard
\* there.
HttpStaysUsable == \A r \in Requests : Active(r) ~> Ended(r)
=============================================================================
