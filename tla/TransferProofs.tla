--------------------------- MODULE TransferProofs ---------------------------
(***************************************************************************)
(* What is proved of transfers over WebRTC, for any finite numbers of      *)
(* requests, any number of slots and segments of any number of chunks, of  *)
(* what is left when the fetcher, the transport or run() was stopped, and  *)
(* of the types of what all machines keep.                                 *)
(***************************************************************************)
EXTENDS MachineProofs, SegmentFlightsProofs, TrackerSessionProofs

\* Two peers, and requests of one or the other.
TwoPeers == Node # Browser /\ FromNode \cap FromBrowser = {}

\* The actions that are about one request.
ClientActs(r) ==
  \/ WT!NodeRequest(r) \/ WT!BrowserRequest(r) \/ WT!SendOffer(r) \/ WT!ReceiveAnswer(r)
  \/ WT!ChannelOpens(r) \/ WT!Receive(r) \/ WT!Verified(r) \/ WT!RequestFails(r)
  \/ WT!TimeOutSignaling(r)
ServerActs(r) ==
  \/ WT!AcceptOffer(r) \/ WT!SendAnswer(r) \/ WT!ReceiveRequest(r) \/ WT!Respond(r)
  \/ WT!SendChunk(r) \/ WT!ReceiveReceipt(r) \/ WT!UploadAborts(r) \/ WT!ServeFails(r)
SocketActs ==
  \/ WT!Start \/ WT!SocketOpens \/ WT!SocketCloses \/ WT!Reconnect \/ WT!StopNode \/ WT!StopBrowser

LEMMA TransferActs ==
  ASSUME [WT!Next]_(WT!vars)
  PROVE  \/ SocketActs
         \/ \E r \in WT!Requests : ClientActs(r) \/ ServerActs(r)
         \/ UNCHANGED (WT!vars)
BY DEF WT!Next, WT!ClientStep, WT!ServerStep, ClientActs, ServerActs, SocketActs

-----------------------------------------------------------------------------
(* The socket, and the connections of a peer that has stopped.              *)

Typed ==
  /\ transferStopped \in [WT!Peers -> BOOLEAN] /\ transferStarted \in BOOLEAN
  /\ sock \in {"none", "connecting", "open"}
  /\ opener \in FromNode \cup {Transport}
  /\ transferTimer \in BOOLEAN
  /\ transferPhase \in [WT!Requests -> WT!Phases]
  /\ serve \in [WT!Requests -> WT!ServePhases]
  /\ held \in [WT!Requests -> BOOLEAN]
  /\ asks \in [WT!Requests -> BOOLEAN] /\ serves \in [WT!Requests -> BOOLEAN]
  /\ mail \subseteq [type : {"webrtc_offer", "webrtc_answer"}, id : WT!Requests]

\* Before start() and after stop() the Node peer has no socket and opens none,
\* and before start() it has asked for nothing.
Signals ==
  /\ transferStopped[Node] => sock = "none" /\ ~transferTimer
  /\ ~transferStarted => /\ transferStopped[Node]
                         /\ \A r \in FromNode : transferPhase[r] = "idle"
  /\ \A r \in WT!Requests :
       transferPhase[r] \in {"signaling", "expired"} => r \in FromNode /\ ~transferStopped[Node]

\* A peer that has stopped has no connection.
Unconnected(r) ==
  /\ transferStopped[WT!From(r)] => ~asks[r]
  /\ transferStopped[WT!To(r)] => ~serves[r]

SignalInv == Typed /\ Signals /\ \A r \in WT!Requests : Unconnected(r)

LEMMA SignalInit == ASSUME WT!Init PROVE SignalInv
<1>1. Typed
  BY DEF WT!Init, Typed, WT!Phases, WT!ServePhases
<1>2. Signals
  BY DEF WT!Init, Signals, WT!Requests, WT!Peers
<1>3. ASSUME NEW r \in WT!Requests PROVE Unconnected(r)
  BY <1>3 DEF WT!Init, Unconnected
<1> QED
  BY <1>1, <1>2, <1>3 DEF SignalInv

LEMMA Ends ==
  ASSUME NEW r \in WT!Requests
  PROVE  WT!From(r) \in {Node, Browser} /\ WT!To(r) \in {Node, Browser}
BY DEF WT!From, WT!To

LEMMA SocketKeepsTypes ==
  ASSUME Typed, SocketActs
  PROVE  Typed'
<1> USE DEF Typed, WT!Phases, WT!clientVars, WT!serverVars, WT!channelVars, WT!signalVars, WT!Connect,
            WT!Schedule, WT!LoseSocket, WT!Close
<1>0. Node \in WT!Peers /\ Browser \in WT!Peers
  BY DEF WT!Peers
<1>1. CASE WT!Start
  BY <1>0, <1>1 DEF WT!Start
<1>2. CASE WT!SocketOpens
  BY <1>2 DEF WT!SocketOpens
<1>3. CASE WT!SocketCloses
  BY <1>0, <1>3 DEF WT!SocketCloses
<1>4. CASE WT!Reconnect
  BY <1>4 DEF WT!Reconnect
<1>5. CASE WT!StopNode \/ WT!StopBrowser
  BY <1>0, <1>5 DEF WT!StopNode, WT!StopBrowser
<1> QED
  BY <1>1, <1>2, <1>3, <1>4, <1>5 DEF SocketActs

LEMMA EndRequestTyped ==
  ASSUME Typed, NEW r, NEW result \in {"done", "failed"}, WT!EndRequest(r, result)
  PROVE  /\ transferPhase' \in [WT!Requests -> WT!Phases]
         /\ asks' \in [WT!Requests -> BOOLEAN]
BY DEF Typed, WT!EndRequest, WT!Phases

LEMMA ClientKeepsTypes ==
  ASSUME Typed, NEW r \in WT!Requests, ClientActs(r)
  PROVE  Typed'
<1> USE DEF Typed, WT!clientVars, WT!serverVars, WT!channelVars, WT!signalVars
<1>1. /\ transferPhase' \in [WT!Requests -> WT!Phases]
      /\ asks' \in [WT!Requests -> BOOLEAN]
  <2>1. CASE WT!NodeRequest(r)
    BY EndRequestTyped, <2>1 DEF WT!NodeRequest, WT!Phases
  <2>2. CASE WT!BrowserRequest(r)
    BY EndRequestTyped, <2>2 DEF WT!BrowserRequest, WT!Phases
  <2>3. CASE WT!SendOffer(r)
    BY EndRequestTyped, <2>3 DEF WT!SendOffer, WT!Phases
  <2>4. CASE WT!ReceiveAnswer(r) \/ WT!ChannelOpens(r)
    BY <2>4 DEF WT!ReceiveAnswer, WT!ChannelOpens, WT!Phases
  <2>5. CASE WT!Receive(r)
    BY EndRequestTyped, <2>5 DEF WT!Receive, WT!Phases
  <2>6. CASE WT!Verified(r) \/ WT!RequestFails(r)
    BY EndRequestTyped, <2>6 DEF WT!Verified, WT!RequestFails
  <2>7. CASE WT!TimeOutSignaling(r)
    BY <2>7 DEF WT!TimeOutSignaling, WT!LoseSocket, WT!Phases
  <2> QED
    BY <2>1, <2>2, <2>3, <2>4, <2>5, <2>6, <2>7 DEF ClientActs
<1>2. mail' \subseteq [type : {"webrtc_offer", "webrtc_answer"}, id : WT!Requests]
  <2>1. CASE WT!SendOffer(r)
    BY <2>1 DEF WT!SendOffer
  <2>2. CASE WT!ReceiveAnswer(r)
    BY <2>2 DEF WT!ReceiveAnswer
  <2>3. CASE UNCHANGED mail
    BY <2>3
  <2> QED
    BY <2>1, <2>2, <2>3 DEF ClientActs, WT!NodeRequest, WT!BrowserRequest, WT!ChannelOpens,
         WT!Receive, WT!Verified, WT!RequestFails, WT!TimeOutSignaling
<1>3. /\ transferStopped' = transferStopped /\ transferStarted' = transferStarted
      /\ serve' = serve /\ held' = held /\ serves' = serves
  BY DEF ClientActs, WT!NodeRequest, WT!BrowserRequest, WT!SendOffer, WT!ReceiveAnswer, WT!ChannelOpens,
         WT!Receive, WT!Verified, WT!RequestFails, WT!TimeOutSignaling
<1>4. /\ sock' \in {"none", "connecting", "open"} /\ opener' \in FromNode \cup {Transport}
      /\ transferTimer' \in BOOLEAN
  <2>1. CASE WT!NodeRequest(r)
    BY <2>1 DEF WT!NodeRequest, WT!Connect
  <2>2. CASE WT!TimeOutSignaling(r)
    BY <2>2 DEF WT!TimeOutSignaling, WT!LoseSocket, WT!Schedule, WT!Peers
  <2>3. CASE UNCHANGED <<sock, opener, transferTimer>>
    BY <2>3
  <2> QED
    BY <2>1, <2>2, <2>3 DEF ClientActs, WT!BrowserRequest, WT!SendOffer, WT!ReceiveAnswer,
         WT!ChannelOpens, WT!Receive, WT!Verified, WT!RequestFails
<1> QED
  BY <1>1, <1>2, <1>3, <1>4 DEF Typed

LEMMA ServerKeepsTypes ==
  ASSUME Typed, NEW r \in WT!Requests, ServerActs(r)
  PROVE  Typed'
<1> USE DEF Typed, WT!clientVars, WT!serverVars, WT!channelVars, WT!signalVars
<1>1. UNCHANGED <<transferStopped, transferStarted, sock, opener, transferTimer, transferPhase, asks>>
  BY DEF ServerActs, WT!AcceptOffer, WT!SendAnswer, WT!ReceiveRequest, WT!Respond, WT!SendChunk,
         WT!ReceiveReceipt, WT!UploadAborts, WT!ServeFails
<1>2. mail' \subseteq [type : {"webrtc_offer", "webrtc_answer"}, id : WT!Requests]
  BY DEF ServerActs, WT!AcceptOffer, WT!SendAnswer, WT!ReceiveRequest, WT!Respond, WT!SendChunk,
         WT!ReceiveReceipt, WT!UploadAborts, WT!ServeFails
<1>3. serve' \in [WT!Requests -> WT!ServePhases]
  BY DEF ServerActs, WT!AcceptOffer, WT!SendAnswer, WT!ReceiveRequest, WT!Respond, WT!SendChunk,
         WT!ReceiveReceipt, WT!UploadAborts, WT!ServeFails, WT!ServePhases
<1>4. WT!Finish(r) => held' \in [WT!Requests -> BOOLEAN] /\ serves' \in [WT!Requests -> BOOLEAN]
  BY DEF WT!Finish
<1>5. held' \in [WT!Requests -> BOOLEAN] /\ serves' \in [WT!Requests -> BOOLEAN]
  BY <1>4 DEF ServerActs, WT!AcceptOffer, WT!SendAnswer, WT!ReceiveRequest, WT!Respond, WT!SendChunk,
         WT!ReceiveReceipt, WT!UploadAborts, WT!ServeFails
<1> QED
  BY <1>1, <1>2, <1>3, <1>5

\* What a step about one request does to the ends of the connections.
LEMMA EndsKept ==
  ASSUME TwoPeers, SignalInv, NEW r \in WT!Requests, ClientActs(r) \/ ServerActs(r)
  PROVE  /\ transferStopped' = transferStopped /\ transferStarted' = transferStarted
         /\ \A q \in WT!Requests :
              /\ asks'[q] => asks[q] \/ ~transferStopped[WT!From(q)]
              /\ serves'[q] => serves[q] \/ ~transferStopped[WT!To(q)]
<1> USE DEF WT!clientVars, WT!serverVars, WT!channelVars, WT!signalVars, WT!EndRequest, WT!From, WT!To
<1>1. asks \in [WT!Requests -> BOOLEAN] /\ serves \in [WT!Requests -> BOOLEAN]
  BY DEF SignalInv, Typed
<1>2. transferStopped' = transferStopped /\ transferStarted' = transferStarted
  BY DEF ClientActs, WT!NodeRequest, WT!BrowserRequest, WT!SendOffer, WT!ReceiveAnswer, WT!ChannelOpens,
         WT!Receive, WT!Verified, WT!RequestFails, WT!TimeOutSignaling,
         ServerActs, WT!AcceptOffer, WT!SendAnswer, WT!ReceiveRequest, WT!Respond, WT!SendChunk,
         WT!ReceiveReceipt, WT!UploadAborts, WT!ServeFails
<1>3. CASE ClientActs(r)
  <2>1. serves' = serves
    BY <1>3 DEF ClientActs, WT!NodeRequest, WT!BrowserRequest, WT!SendOffer, WT!ReceiveAnswer,
         WT!ChannelOpens, WT!Receive, WT!Verified, WT!RequestFails, WT!TimeOutSignaling
  <2>2. CASE WT!NodeRequest(r) \/ WT!BrowserRequest(r)
    <3>1. asks' = asks \/ asks' = [asks EXCEPT ![r] = FALSE]
          \/ (asks' = [asks EXCEPT ![r] = TRUE] /\ ~transferStopped[WT!From(r)])
      BY <2>2 DEF WT!NodeRequest, WT!BrowserRequest, TwoPeers
    <3> QED
      BY <1>1, <1>2, <2>1, <3>1
  <2>3. CASE ~(WT!NodeRequest(r) \/ WT!BrowserRequest(r))
    <3>1. \/ asks' = asks \/ asks' = [asks EXCEPT ![r] = FALSE]
          \/ \E S : asks' = [q \in WT!Requests |-> asks[q] /\ q \notin S]
      BY <1>3, <2>3 DEF ClientActs, WT!SendOffer, WT!ReceiveAnswer, WT!ChannelOpens, WT!Receive,
         WT!Verified, WT!RequestFails, WT!TimeOutSignaling, WT!LoseSocket
    <3> QED
      BY <1>1, <1>2, <2>1, <3>1
  <2> QED
    BY <2>2, <2>3
<1>4. CASE ServerActs(r)
  <2>1. asks' = asks
    BY <1>4 DEF ServerActs, WT!AcceptOffer, WT!SendAnswer, WT!ReceiveRequest, WT!Respond, WT!SendChunk,
         WT!ReceiveReceipt, WT!UploadAborts, WT!ServeFails
  <2>2. \/ serves' = serves \/ serves' = [serves EXCEPT ![r] = FALSE]
        \/ (serves' = [serves EXCEPT ![r] = TRUE] /\ ~transferStopped[WT!To(r)])
    BY <1>4 DEF ServerActs, WT!AcceptOffer, WT!SendAnswer, WT!ReceiveRequest, WT!Respond, WT!SendChunk,
         WT!ReceiveReceipt, WT!UploadAborts, WT!ServeFails, WT!Finish, WT!Listening
  <2> QED
    BY <1>1, <1>2, <2>1, <2>2
<1> QED
  BY <1>3, <1>4

\* A step about one request leaves the socket as it should be.
LEMMA RequestSignals ==
  ASSUME TwoPeers, SignalInv, NEW r \in WT!Requests, ClientActs(r) \/ ServerActs(r)
  PROVE  Signals'
<1> USE DEF WT!clientVars, WT!serverVars, WT!channelVars, WT!signalVars
<1>0. transferPhase \in [WT!Requests -> WT!Phases] /\ FromNode \subseteq WT!Requests
  BY DEF SignalInv, Typed, WT!Requests
<1>1. CASE WT!NodeRequest(r)
  <2>1. /\ transferStarted /\ r \in FromNode /\ UNCHANGED <<transferStopped, transferStarted, transferTimer>>
        /\ (transferStopped[Node] => sock' = sock)
    BY <1>1 DEF WT!NodeRequest
  <2>2. \E p \in {"failed", "gathering", "signaling"} :
          /\ transferPhase' = [transferPhase EXCEPT ![r] = p]
          /\ p = "signaling" => ~transferStopped[Node]
    BY <1>1 DEF WT!NodeRequest, WT!EndRequest
  <2> QED
    BY <1>0, <2>1, <2>2 DEF SignalInv, Signals
<1>2. CASE WT!TimeOutSignaling(r)
  <2>1. r \in FromNode /\ ~transferStopped[Node] /\ transferStarted
    BY <1>2 DEF WT!TimeOutSignaling, SignalInv, Signals
  <2>2. UNCHANGED <<transferStopped, transferStarted>>
    BY <1>2 DEF WT!TimeOutSignaling
  <2>3. \A q \in WT!Requests : transferPhase'[q] \in {"signaling", "expired"} => q \in FromNode
    BY <1>0, <1>2, <2>1 DEF WT!TimeOutSignaling, WT!LoseSocket, SignalInv, Signals
  <2> QED
    BY <2>1, <2>2, <2>3 DEF Signals
<1>3. CASE ~WT!NodeRequest(r) /\ ~WT!TimeOutSignaling(r)
  <2>1. UNCHANGED <<transferStopped, transferStarted, sock, transferTimer>>
    BY <1>3 DEF ClientActs, WT!BrowserRequest, WT!SendOffer, WT!ReceiveAnswer, WT!ChannelOpens,
         WT!Receive, WT!Verified, WT!RequestFails,
         ServerActs, WT!AcceptOffer, WT!SendAnswer, WT!ReceiveRequest, WT!Respond, WT!SendChunk,
         WT!ReceiveReceipt, WT!UploadAborts, WT!ServeFails
  <2>2. \/ transferPhase' = transferPhase
        \/ \E p : /\ transferPhase' = [transferPhase EXCEPT ![r] = p]
                  /\ p \notin {"signaling", "expired"}
                  /\ transferPhase[r] = "idle" => r \in FromBrowser
    <3>0. CASE WT!BrowserRequest(r)
      <4>1. \/ transferPhase' = [transferPhase EXCEPT ![r] = "failed"]
            \/ transferPhase' = [transferPhase EXCEPT ![r] = "gathering"]
        BY <3>0 DEF WT!BrowserRequest, WT!EndRequest
      <4> QED
        BY <3>0, <4>1 DEF WT!BrowserRequest
    <3>1. CASE WT!SendOffer(r) \/ WT!ChannelOpens(r)
      <4>1. \/ transferPhase' = [transferPhase EXCEPT ![r] = "failed"]
            \/ transferPhase' = [transferPhase EXCEPT ![r] = "offered"]
            \/ transferPhase' = [transferPhase EXCEPT ![r] = "receiving"]
        BY <3>1 DEF WT!SendOffer, WT!ChannelOpens, WT!EndRequest
      <4> QED
        BY <3>1, <4>1 DEF WT!SendOffer, WT!ChannelOpens
    <3>2. CASE WT!ReceiveAnswer(r)
      <4>1. CASE transferPhase[r] = "offered"
        <5>1. transferPhase' = [transferPhase EXCEPT ![r] = "opening"]
          BY <3>2, <4>1 DEF WT!ReceiveAnswer
        <5>2. transferPhase[r] # "idle" /\ "opening" \notin {"signaling", "expired"}
          BY <4>1
        <5> QED
          BY <5>1, <5>2
      <4>2. CASE transferPhase[r] # "offered"
        BY <1>0, <3>2, <4>2 DEF WT!ReceiveAnswer
      <4> QED
        BY <4>1, <4>2
    <3>3. CASE WT!Receive(r) \/ WT!Verified(r) \/ WT!RequestFails(r)
      BY <3>3 DEF WT!Receive, WT!Verified, WT!RequestFails, WT!EndRequest
    <3>4. CASE transferPhase' = transferPhase
      BY <3>4
    <3> QED
      BY <1>3, <3>0, <3>1, <3>2, <3>3, <3>4 DEF ClientActs, ServerActs, WT!AcceptOffer, WT!SendAnswer,
         WT!ReceiveRequest, WT!Respond, WT!SendChunk, WT!ReceiveReceipt, WT!UploadAborts, WT!ServeFails
  <2> QED
    BY <1>0, <2>1, <2>2 DEF SignalInv, Signals, TwoPeers
<1> QED
  BY <1>1, <1>2, <1>3

\* So do the steps of the socket, of start() and of stop().
LEMMA SocketSignals ==
  ASSUME TwoPeers, SignalInv, SocketActs
  PROVE  Signals' /\ \A q \in WT!Requests : Unconnected(q)'
<1> USE DEF SignalInv, Typed, Signals, Unconnected
<1> USE DEF WT!clientVars, WT!serverVars, WT!channelVars, WT!signalVars, WT!Peers, WT!From, WT!To
<1>0. FromNode \subseteq WT!Requests
  BY DEF WT!Requests
<1>1. CASE WT!Start
  BY <1>0, <1>1 DEF WT!Start, WT!Connect, TwoPeers
<1>2. CASE WT!SocketOpens
  <2>1. ~transferStopped[Node] /\ UNCHANGED <<transferStopped, transferStarted, transferTimer, serves>>
    BY <1>2 DEF WT!SocketOpens
  <2>2. ASSUME NEW q \in WT!Requests
        PROVE  /\ transferPhase'[q] \notin {"signaling", "expired"}
               /\ transferPhase[q] = "idle" => transferPhase'[q] = "idle"
               /\ asks'[q] => asks[q] \/ q \in FromNode
    BY <1>2, <2>2 DEF WT!SocketOpens, WT!Waiters
  <2> QED
    BY <1>0, <2>1, <2>2
<1>3. CASE WT!SocketCloses
  <2>1. ~transferStopped[Node] /\ transferStarted
        /\ UNCHANGED <<transferStopped, transferStarted, serves>>
    BY <1>3 DEF WT!SocketCloses
  <2>2. ASSUME NEW q \in WT!Requests
        PROVE  /\ transferPhase'[q] \notin {"signaling", "expired"}
               /\ asks'[q] => asks[q]
    BY <1>3, <2>2 DEF WT!SocketCloses, WT!LoseSocket, WT!Waiters
  <2> QED
    BY <2>1, <2>2
<1>4. CASE WT!Reconnect
  <2>1. ~transferStopped[Node] /\ transferStarted
        /\ UNCHANGED <<transferStopped, transferStarted, transferPhase, asks, serves>>
    BY <1>4 DEF WT!Reconnect
  <2> QED
    BY <2>1
<1>5. ASSUME NEW p \in {Node, Browser}, WT!Close(p), ~transferStopped[p], UNCHANGED transferStarted,
             transferStopped' = [transferStopped EXCEPT ![p] = TRUE],
             IF p = Node THEN transferStarted /\ sock' = "none" /\ ~transferTimer'
             ELSE UNCHANGED <<sock, transferTimer>>
      PROVE  Signals' /\ \A q \in WT!Requests : Unconnected(q)'
  <2>1. ASSUME NEW q \in WT!Requests
        PROVE  /\ transferPhase'[q] \in {"signaling", "expired"} =>
                    transferPhase[q] = transferPhase'[q] /\ WT!From(q) # p
               /\ transferPhase[q] = "idle" => transferPhase'[q] = "idle"
               /\ asks'[q] => asks[q] /\ WT!From(q) # p
               /\ serves'[q] => serves[q] /\ WT!To(q) # p
    BY <1>5, <2>1 DEF WT!Close
  <2>2. \A q \in {Node, Browser} : transferStopped'[q] = (transferStopped[q] \/ q = p)
    BY <1>5
  <2>3. \A q \in WT!Requests : Unconnected(q)'
    BY <2>1, <2>2, Ends
  <2>4. Signals'
    BY <1>0, <1>5, <2>1, <2>2 DEF TwoPeers
  <2> QED
    BY <2>3, <2>4
<1>6. CASE WT!StopNode
  BY <1>5, <1>6 DEF WT!StopNode
<1>7. CASE WT!StopBrowser
  BY <1>5, <1>7 DEF WT!StopBrowser, TwoPeers
<1> QED
  BY <1>1, <1>2, <1>3, <1>4, <1>6, <1>7 DEF SocketActs

LEMMA SignalKept ==
  ASSUME TwoPeers, SignalInv, [WT!Next]_(WT!vars)
  PROVE  SignalInv'
<1>1. CASE SocketActs
  BY <1>1, SocketKeepsTypes, SocketSignals DEF SignalInv
<1>2. ASSUME NEW r \in WT!Requests, ClientActs(r) \/ ServerActs(r)
      PROVE  SignalInv'
  <2>1. Typed' /\ Signals'
    BY <1>2, ClientKeepsTypes, ServerKeepsTypes, RequestSignals DEF SignalInv
  <2>2. \A q \in WT!Requests : Unconnected(q)'
    BY <1>2, EndsKept DEF SignalInv, Unconnected, WT!From, WT!To
  <2> QED
    BY <2>1, <2>2 DEF SignalInv
<1>3. CASE UNCHANGED (WT!vars)
  BY <1>3 DEF WT!vars, WT!clientVars, WT!serverVars, WT!channelVars, WT!signalVars,
     SignalInv, Typed, Signals, Unconnected, WT!From, WT!To
<1> QED
  BY <1>1, <1>2, <1>3, TransferActs

\* After stop() nothing is opened again.
LEMMA SignalsEnd == ASSUME TwoPeers, SignalInv PROVE WT!StopIsFinal
BY DEF SignalInv, Signals, Unconnected, WT!StopIsFinal, WT!Peers

-----------------------------------------------------------------------------
(* Nothing outlives its stop.                                               *)

\* A step of the fetcher is one of SegmentFlights.
LEMMA FetcherSteps ==
  ASSUME [MachineNext]_machineVars
  PROVE  [Next]_vars
<1>1. ASSUME NEW m, Only(m) PROVE m = "SF" \/ UNCHANGED vars
  BY <1>1 DEF Only
<1>2. UNCHANGED machineVars => UNCHANGED vars
  BY DEF machineVars
<1>3. FetchStep => Next
  BY DEF FetchStep, Next
<1>4. /\ SessionStep => Only("TS")
      /\ TransferStep => Only("WT")
      /\ RunStep => Only("PA")
      /\ ViewerStep => Only("PS")
      /\ LoadStep => Only("PL")
      /\ HubStep => Only("TH")
  BY DEF SessionStep, TransferStep, RunStep, ViewerStep, LoadStep, HubStep
<1>5. /\ StoreStep => Only("SQ")
      /\ TrustStep => Only("FR")
      /\ LeaseStep => Only("BL")
      /\ StreamStep => Only("HS")
  BY DEF StoreStep, TrustStep, LeaseStep, StreamStep
<1> QED
  BY <1>1, <1>2, <1>3, <1>4, <1>5 DEF MachineNext

\* run() returns with nothing running, whenever it was aborted or failed, and
\* its attempts are bounded (client.ts, transport-manager.ts); a stopped
\* WebRTC transport has no socket, opens none and has no connection
\* (webrtc-transport.ts: stop); no flight goes on for nobody (fetcher.ts).
THEOREM StopsAreFinal ==
  ASSUME TwoPeers, LastSegment \in Nat \ {0}, MaxAttempts \in Nat \ {0}
  PROVE  SafeSpec => []NothingLeftBehind
<1> DEFINE Inv == RunInv /\ SignalInv /\ IInv
<1>1. MachineInit => Inv
  BY RunInit, SignalInit, FlightsInit DEF MachineInit
<1>2. Inv /\ [MachineNext]_machineVars => Inv'
  BY RunKept, SignalKept, FlightsNext, MachineSteps, FetcherSteps
<1>3. Inv => NothingLeftBehind
  <2> SUFFICES ASSUME Inv PROVE NothingLeftBehind
    OBVIOUS
  <2>1. PA!NothingLeftBehind
    BY DEF RunInv, Underway, PA!NothingLeftBehind, PA!Batch
  <2>2. PA!TriesAreBounded
    BY DEF RunInv, Tried, TriedOnce, PA!TriesAreBounded
  <2>3. WT!StopIsFinal
    BY SignalsEnd
  <2>4. NobodyWaitsAborted
    BY DEF IInv, ConsumerInv
  <2> QED
    BY <2>1, <2>2, <2>3, <2>4 DEF NothingLeftBehind
<1> QED
  BY <1>1, <1>2, <1>3, PTL DEF SafeSpec

-----------------------------------------------------------------------------
(* The upload slots.                                                        *)

Offer(r) == [type |-> "webrtc_offer", id |-> r]

\* The request has not been offered to the other peer.
Private == {"idle", "signaling", "expired", "gathering"}

\* An offer is accepted at most once, after it was sent.
OneServe(r) ==
  /\ transferPhase[r] \in Private => serve[r] = "none" /\ Offer(r) \notin mail
  /\ Offer(r) \in mail => serve[r] = "none"
  /\ held[r] => serve[r] # "none"

HeldAt(p) == {r \in WT!Requests : WT!To(r) = p /\ held[r]}

SlotInv ==
  /\ SignalInv
  /\ \A r \in WT!Requests : OneServe(r)
  /\ slots \in [WT!Peers -> Nat] /\ \A p \in WT!Peers : slots[p] = Cardinality(HeldAt(p))

LEMMA SlotsInit == ASSUME WT!Init PROVE SlotInv
<1>1. ASSUME NEW r \in WT!Requests PROVE OneServe(r)
  BY <1>1 DEF WT!Init, OneServe
<1>2. ASSUME NEW p \in WT!Peers PROVE HeldAt(p) = {}
  BY <1>2 DEF WT!Init, HeldAt
<1>3. slots \in [WT!Peers -> Nat] /\ \A p \in WT!Peers : slots[p] = Cardinality(HeldAt(p))
  BY <1>2, FS_EmptySet DEF WT!Init
<1> QED
  BY <1>1, <1>3, SignalInit DEF SlotInv

\* What the socket does to requests never takes back an offer.
LEMMA SocketOffers ==
  ASSUME SignalInv, SocketActs
  PROVE  /\ UNCHANGED <<serve, held, slots, sent, got, toServer, toClient, mail>>
         /\ \A q \in WT!Requests :
              /\ transferPhase'[q] \in Private => transferPhase[q] \in Private
              /\ transferPhase'[q] # transferPhase[q] =>
                   /\ transferPhase[q] \in Private \cup {"offered"}
                   /\ transferPhase'[q] \in {"gathering", "failed"}
<1> USE DEF WT!clientVars, WT!serverVars, WT!channelVars, WT!signalVars
<1>1. UNCHANGED <<serve, held, slots, sent, got, toServer, toClient, mail>>
  BY DEF SocketActs, WT!Start, WT!SocketOpens, WT!SocketCloses, WT!Reconnect, WT!StopNode, WT!StopBrowser
<1>2. ASSUME NEW q \in WT!Requests
      PROVE  /\ transferPhase'[q] \in Private => transferPhase[q] \in Private
             /\ transferPhase'[q] # transferPhase[q] =>
                   /\ transferPhase[q] \in Private \cup {"offered"}
                   /\ transferPhase'[q] \in {"gathering", "failed"}
  BY <1>2 DEF SocketActs, WT!Start, WT!SocketOpens, WT!SocketCloses, WT!Reconnect, WT!StopNode,
     WT!StopBrowser, WT!Close, WT!LoseSocket, WT!Waiters, Private
<1> QED
  BY <1>1, <1>2

\* The requester's steps.
LEMMA ClientOffers ==
  ASSUME SignalInv, NEW r \in WT!Requests, ClientActs(r)
  PROVE  /\ UNCHANGED <<serve, held, slots>>
         /\ \A q \in WT!Requests :
              /\ transferPhase'[q] \in Private => transferPhase[q] \in Private
              /\ Offer(q) \in mail' =>
                   \/ Offer(q) \in mail
                   \/ transferPhase[q] \in Private /\ transferPhase'[q] \notin Private
<1> USE DEF WT!clientVars, WT!serverVars, WT!channelVars, WT!signalVars, SignalInv, Typed
<1>1. UNCHANGED <<serve, held, slots>>
  BY DEF ClientActs, WT!NodeRequest, WT!BrowserRequest, WT!SendOffer, WT!ReceiveAnswer, WT!ChannelOpens,
         WT!Receive, WT!Verified, WT!RequestFails, WT!TimeOutSignaling
<1>2. ASSUME NEW q \in WT!Requests
      PROVE  transferPhase'[q] \in Private => transferPhase[q] \in Private
  <2>1. CASE WT!NodeRequest(r) \/ WT!BrowserRequest(r) \/ WT!TimeOutSignaling(r)
    BY <1>2, <2>1 DEF WT!NodeRequest, WT!BrowserRequest, WT!TimeOutSignaling, WT!Requested, WT!EndRequest,
       WT!LoseSocket, Private
  <2>2. CASE WT!SendOffer(r) \/ WT!ChannelOpens(r)
    BY <1>2, <2>2 DEF WT!SendOffer, WT!ChannelOpens, WT!EndRequest, Private
  <2>3. CASE WT!ReceiveAnswer(r)
    BY <1>2, <2>3 DEF WT!ReceiveAnswer, Private
  <2>4. CASE WT!Receive(r) \/ WT!Verified(r) \/ WT!RequestFails(r)
    BY <1>2, <2>4 DEF WT!Receive, WT!Verified, WT!RequestFails, WT!EndRequest, Private
  <2> QED
    BY <2>1, <2>2, <2>3, <2>4 DEF ClientActs
<1>3. ASSUME NEW q \in WT!Requests, Offer(q) \in mail'
      PROVE  \/ Offer(q) \in mail
             \/ transferPhase[q] \in Private /\ transferPhase'[q] \notin Private
  <2>1. CASE WT!SendOffer(r)
    <3>1. CASE q = r /\ mail' # mail
      BY <2>1, <3>1 DEF WT!SendOffer, Private
    <3>2. CASE q # r \/ mail' = mail
      BY <1>3, <2>1, <3>2 DEF WT!SendOffer, Offer
    <3> QED
      BY <3>1, <3>2
  <2>2. CASE mail' \subseteq mail
    BY <1>3, <2>2
  <2> QED
    BY <2>1, <2>2 DEF ClientActs, WT!NodeRequest, WT!BrowserRequest, WT!ReceiveAnswer, WT!ChannelOpens,
         WT!Receive, WT!Verified, WT!RequestFails, WT!TimeOutSignaling
<1> QED
  BY <1>1, <1>2, <1>3

\* A slot is taken with an offer, and returned by whoever comes first.
LEMMA SlotTaken ==
  ASSUME IsFiniteSet(WT!Requests), SlotInv, NEW r \in WT!Requests, ~held[r],
         held' = [held EXCEPT ![r] = TRUE], slots' = [slots EXCEPT ![WT!To(r)] = @ + 1]
  PROVE  slots' \in [WT!Peers -> Nat] /\ \A p \in WT!Peers : slots'[p] = Cardinality(HeldAt(p)')
<1>0. WT!To(r) \in WT!Peers /\ held \in [WT!Requests -> BOOLEAN]
  BY DEF WT!To, WT!Peers, SlotInv, SignalInv, Typed
<1>1. ASSUME NEW p \in WT!Peers PROVE IsFiniteSet(HeldAt(p))
  BY FS_Subset DEF HeldAt
<1>2. ASSUME NEW p \in WT!Peers, p # WT!To(r) PROVE HeldAt(p)' = HeldAt(p)
  BY <1>0, <1>2 DEF HeldAt, WT!To
<1>3. HeldAt(WT!To(r))' = HeldAt(WT!To(r)) \cup {r} /\ r \notin HeldAt(WT!To(r))
  BY <1>0 DEF HeldAt, WT!To
<1>4. Cardinality(HeldAt(WT!To(r)) \cup {r}) = Cardinality(HeldAt(WT!To(r))) + 1
  BY <1>0, <1>1, <1>3, FS_AddElement
<1>5. slots' \in [WT!Peers -> Nat] /\ slots'[WT!To(r)] = Cardinality(HeldAt(WT!To(r))')
  BY <1>0, <1>3, <1>4 DEF SlotInv
<1>6. ASSUME NEW p \in WT!Peers, p # WT!To(r) PROVE slots'[p] = Cardinality(HeldAt(p)')
  BY <1>2, <1>6 DEF SlotInv
<1> QED
  BY <1>5, <1>6

LEMMA SlotFreed ==
  ASSUME IsFiniteSet(WT!Requests), SlotInv, NEW r \in WT!Requests, WT!Finish(r)
  PROVE  slots' \in [WT!Peers -> Nat] /\ \A p \in WT!Peers : slots'[p] = Cardinality(HeldAt(p)')
<1>0. WT!To(r) \in WT!Peers /\ held \in [WT!Requests -> BOOLEAN]
  BY DEF WT!To, WT!Peers, SlotInv, SignalInv, Typed
<1>1. CASE ~held[r]
  <2>1. UNCHANGED <<held, slots>>
    BY <1>1 DEF WT!Finish
  <2> QED
    BY <2>1 DEF SlotInv, HeldAt, WT!To
<1>2. CASE held[r]
  <2>0. held' = [held EXCEPT ![r] = FALSE] /\ slots' = [slots EXCEPT ![WT!To(r)] = @ - 1]
    BY <1>2 DEF WT!Finish
  <2>1. ASSUME NEW p \in WT!Peers PROVE IsFiniteSet(HeldAt(p))
    BY FS_Subset DEF HeldAt
  <2>2. ASSUME NEW p \in WT!Peers, p # WT!To(r) PROVE HeldAt(p)' = HeldAt(p)
    BY <1>0, <2>0, <2>2 DEF HeldAt, WT!To
  <2>3. HeldAt(WT!To(r))' = HeldAt(WT!To(r)) \ {r} /\ r \in HeldAt(WT!To(r))
    BY <1>0, <1>2, <2>0 DEF HeldAt, WT!To
  <2>4. /\ Cardinality(HeldAt(WT!To(r)) \ {r}) = Cardinality(HeldAt(WT!To(r))) - 1
        /\ Cardinality(HeldAt(WT!To(r)) \ {r}) \in Nat
    BY <1>0, <2>1, <2>3, FS_RemoveElement, FS_CardinalityType
  <2> QED
    BY <1>0, <2>0, <2>2, <2>3, <2>4 DEF SlotInv
<1> QED
  BY <1>1, <1>2

\* What a step of the uploader does to the request it serves, and only to it.
LEMMA ServerOffers ==
  ASSUME SlotInv, NEW r \in WT!Requests, ServerActs(r)
  PROVE  /\ transferPhase' = transferPhase
         /\ \A q \in WT!Requests : Offer(q) \in mail' => Offer(q) \in mail
         /\ \A q \in WT!Requests : q # r => serve'[q] = serve[q] /\ held'[q] = held[q]
         /\ \/ UNCHANGED <<held, slots, serve>>
            \/ WT!Finish(r) /\ serve[r] # "none" /\ serve'[r] # "none"
            \/ /\ serve[r] # "none" /\ serve'[r] # "none" /\ held' = held /\ slots' = slots
            \/ /\ Offer(r) \in mail /\ Offer(r) \notin mail' /\ serve'[r] # "none" /\ ~held[r]
               /\ held' = [held EXCEPT ![r] = TRUE] /\ slots' = [slots EXCEPT ![WT!To(r)] = @ + 1]
<1> USE DEF WT!clientVars, WT!serverVars, WT!channelVars, WT!signalVars, SlotInv, SignalInv, Typed
<1>1. transferPhase' = transferPhase
  BY DEF ServerActs, WT!AcceptOffer, WT!SendAnswer, WT!ReceiveRequest, WT!Respond, WT!SendChunk,
         WT!ReceiveReceipt, WT!UploadAborts, WT!ServeFails
<1>2. ASSUME NEW q \in WT!Requests, Offer(q) \in mail' PROVE Offer(q) \in mail
  BY <1>2 DEF ServerActs, WT!AcceptOffer, WT!SendAnswer, WT!ReceiveRequest, WT!Respond, WT!SendChunk,
         WT!ReceiveReceipt, WT!UploadAborts, WT!ServeFails, Offer
<1>3. CASE WT!AcceptOffer(r)
  <2>1. Offer(r) \in mail /\ Offer(r) \notin mail' /\ ~held[r]
    BY <1>3 DEF WT!AcceptOffer, Offer, OneServe
  <2> QED
    BY <1>1, <1>2, <1>3, <2>1 DEF WT!AcceptOffer
<1>4. CASE WT!SendAnswer(r) \/ WT!ReceiveRequest(r) \/ WT!SendChunk(r) \/ WT!UploadAborts(r)
  BY <1>1, <1>2, <1>4 DEF WT!SendAnswer, WT!ReceiveRequest, WT!SendChunk, WT!UploadAborts, WT!Finish,
     OneServe
<1>5. CASE WT!Respond(r)
  BY <1>1, <1>2, <1>5 DEF WT!Respond, WT!Finish
<1>6. CASE WT!ReceiveReceipt(r) \/ WT!ServeFails(r)
  BY <1>1, <1>2, <1>6 DEF WT!ReceiveReceipt, WT!ServeFails, WT!Serving, WT!Finish
<1> QED
  BY <1>3, <1>4, <1>5, <1>6 DEF ServerActs

LEMMA SlotKept ==
  ASSUME TwoPeers, IsFiniteSet(WT!Requests), SlotInv, [WT!Next]_(WT!vars)
  PROVE  SlotInv'
<1>0. SignalInv'
  BY SignalKept DEF SlotInv
<1> DEFINE Right == slots \in [WT!Peers -> Nat] /\ \A p \in WT!Peers : slots[p] = Cardinality(HeldAt(p))
<1>1. ASSUME UNCHANGED held, UNCHANGED slots PROVE Right'
  BY <1>1 DEF SlotInv, HeldAt, WT!To, WT!Peers
<1>2. ASSUME UNCHANGED serve, UNCHANGED held,
             \A q \in WT!Requests :
               /\ transferPhase'[q] \in Private => transferPhase[q] \in Private
               /\ Offer(q) \in mail' =>
                    \/ Offer(q) \in mail
                    \/ transferPhase[q] \in Private /\ transferPhase'[q] \notin Private
      PROVE  \A q \in WT!Requests : OneServe(q)'
  <2>1. ASSUME NEW q \in WT!Requests PROVE OneServe(q)'
    <3>1. Offer(q)' = Offer(q) /\ serve'[q] = serve[q] /\ held'[q] = held[q] /\ OneServe(q)
      BY <1>2 DEF Offer, SlotInv
    <3> QED
      BY <1>2, <3>1 DEF OneServe
  <2> QED
    BY <2>1
<1>3. CASE SocketActs
  <2>1. UNCHANGED held /\ UNCHANGED slots /\ UNCHANGED serve
        /\ \A q \in WT!Requests :
             /\ transferPhase'[q] \in Private => transferPhase[q] \in Private
             /\ Offer(q) \in mail' => Offer(q) \in mail
    BY <1>3, SocketOffers DEF SlotInv
  <2> QED
    BY <1>0, <1>1, <1>2, <2>1 DEF SlotInv
<1>4. ASSUME NEW r \in WT!Requests, ClientActs(r) PROVE SlotInv'
  <2>1. UNCHANGED serve /\ UNCHANGED held /\ UNCHANGED slots
    BY <1>4, ClientOffers DEF SlotInv
  <2>2. \A q \in WT!Requests :
          /\ transferPhase'[q] \in Private => transferPhase[q] \in Private
          /\ Offer(q) \in mail' =>
               \/ Offer(q) \in mail
               \/ transferPhase[q] \in Private /\ transferPhase'[q] \notin Private
    BY <1>4, ClientOffers DEF SlotInv
  <2> QED
    BY <1>0, <1>1, <1>2, <2>1, <2>2 DEF SlotInv
<1>5. ASSUME NEW r \in WT!Requests, ServerActs(r) PROVE SlotInv'
  <2>0. /\ transferPhase' = transferPhase
        /\ \A q \in WT!Requests : Offer(q) \in mail' => Offer(q) \in mail
        /\ \A q \in WT!Requests : q # r => serve'[q] = serve[q] /\ held'[q] = held[q]
    BY <1>5, ServerOffers
  <2>1. Right' /\ OneServe(r)'
    <3>0. OneServe(r) /\ Offer(r)' = Offer(r)
      BY DEF SlotInv, Offer
    <3>1. CASE UNCHANGED <<held, slots, serve>>
      BY <1>1, <2>0, <3>0, <3>1 DEF OneServe
    <3>2. CASE WT!Finish(r) /\ serve[r] # "none" /\ serve'[r] # "none"
      BY <2>0, <3>0, <3>2, SlotFreed DEF OneServe
    <3>3. CASE serve[r] # "none" /\ serve'[r] # "none" /\ held' = held /\ slots' = slots
      BY <1>1, <2>0, <3>0, <3>3 DEF OneServe
    <3>4. CASE /\ Offer(r) \in mail /\ Offer(r) \notin mail' /\ serve'[r] # "none" /\ ~held[r]
               /\ held' = [held EXCEPT ![r] = TRUE] /\ slots' = [slots EXCEPT ![WT!To(r)] = @ + 1]
      BY <2>0, <3>0, <3>4, SlotTaken DEF OneServe
    <3> QED
      BY <1>5, <3>1, <3>2, <3>3, <3>4, ServerOffers
  <2>2. ASSUME NEW q \in WT!Requests, q # r PROVE OneServe(q)'
    <3>1. OneServe(q) /\ Offer(q)' = Offer(q)
      BY DEF SlotInv, Offer
    <3> QED
      BY <2>0, <2>2, <3>1 DEF OneServe
  <2> QED
    BY <1>0, <2>1, <2>2 DEF SlotInv
<1>6. CASE UNCHANGED (WT!vars)
  <2>1. /\ held' = held /\ slots' = slots /\ serve' = serve /\ transferPhase' = transferPhase
        /\ mail' = mail
    BY <1>6 DEF WT!vars, WT!clientVars, WT!serverVars, WT!channelVars, WT!signalVars
  <2> QED
    BY <1>0, <1>1, <1>2, <2>1 DEF SlotInv
<1> QED
  BY <1>3, <1>4, <1>5, <1>6, TransferActs

LEMMA SameCount == ASSUME NEW S PROVE WT!Cardinality(S) = Cardinality(S)
BY DEF WT!Cardinality, WT!IsFiniteSet, Cardinality, IsFiniteSet

\* acceptOffer's finish (webrtc-transport.ts, webrtc-peer.ts): whichever of an
\* upload's time-out, its errors, its end and stop() come first and come again,
\* each upload under way holds one slot and no other does, however many
\* uploads there are and whatever the limit.
THEOREM SlotsAreReturned ==
  ASSUME TwoPeers, IsFiniteSet(WT!Requests)
  PROVE  SafeSpec => []SlotsReturned
<1>1. MachineInit => SlotInv
  BY SlotsInit DEF MachineInit
<1>2. SlotInv /\ [MachineNext]_machineVars => SlotInv'
  BY SlotKept, MachineSteps
<1>3. SlotInv => SlotsReturned
  BY SameCount DEF SlotInv, SlotsReturned, WT!SlotsReturned, HeldAt
<1> QED
  BY <1>1, <1>2, <1>3, PTL DEF SafeSpec

-----------------------------------------------------------------------------
(* The transfer itself.                                                     *)

\* Before the channel is open.
Early == Private \cup {"offered", "opening"}

\* The i-th message of an answer: the response, then the chunks.
Message(i) == IF i = 1 THEN WT!Control("segment_response") ELSE WT!Frame(i - 1)
Messages(j, n) == [i \in 1..n |-> Message(i + j)]
FirstChunks(n) == [i \in 1..n |-> i]

\* The requester has taken the first j messages of those that were sent, the
\* others are under way.
Taken(r, j) ==
  /\ toClient[r] = Messages(j, sent[r] + 1 - j)
  /\ got[r] = FirstChunks(j - 1)
Flowing(r) == \E j \in 0..(sent[r] + 1) : Taken(r, j)

\* The segment is not here.
Refusing(r) ==
  /\ toClient[r] = <<WT!Control("segment_error")>> /\ got[r] = <<>> /\ sent[r] = 0
  /\ serve[r] \in {"receipt", "over"}

\* What the requester has sent: the request, and later the receipt, if it has
\* the segment or was refused.
Asking(r) ==
  /\ transferPhase[r] \in Early =>
       toServer[r] = <<>> /\ serve[r] \in {"none", "answering", "waiting", "over"}
  /\ serve[r] \in {"none", "answering", "waiting"} => toServer[r] \in {<<>>, <<"segment_request">>}
  /\ serve[r] \in {"looking", "sending", "receipt"} =>
       /\ transferPhase[r] = "receiving" => toServer[r] = <<>>
       /\ toServer[r] # <<>> => got[r] = WT!Whole \/ (sent[r] = 0 /\ serve[r] = "receipt")

\* What the uploader has sent, and what has come of it.
Answering(r) ==
  /\ sent[r] \in 0..Chunks
  /\ Flowing(r) \/ Refusing(r)
  /\ serve[r] \in {"none", "answering", "waiting", "looking"} => toClient[r] = <<>> /\ sent[r] = 0
  /\ serve[r] = "sending" => sent[r] < Chunks
  /\ transferPhase[r] \in {"verifying", "done"} \/ serve[r] = "served" => got[r] = WT!Whole

Channels ==
  /\ DOMAIN toServer = WT!Requests /\ DOMAIN toClient = WT!Requests
  /\ DOMAIN got = WT!Requests /\ DOMAIN sent = WT!Requests

FlowInv == SlotInv /\ Channels /\ \A r \in WT!Requests : Asking(r) /\ Answering(r)

\* Sequences of messages and chunks.
LEMMA ChunksCounted ==
  ASSUME NEW n \in Nat
  PROVE  /\ FirstChunks(n) \in Seq(Nat) /\ Len(FirstChunks(n)) = n
         /\ \A k \in Nat : FirstChunks(n) = FirstChunks(k) => n = k
<1>1. FirstChunks(n) \in Seq(Nat) /\ Len(FirstChunks(n)) = n
  BY DEF FirstChunks
<1>2. ASSUME NEW k \in Nat, FirstChunks(n) = FirstChunks(k) PROVE n = k
  <2>1. Len(FirstChunks(k)) = k
    BY DEF FirstChunks
  <2> QED
    BY <1>1, <1>2, <2>1
<1> QED
  BY <1>1, <1>2

LEMMA NoneYet ==
  /\ FirstChunks(0) = <<>> /\ FirstChunks(-1) = <<>>
  /\ \A j : Messages(j, 0) = <<>>
BY DEF FirstChunks, Messages

LEMMA ChunkAdded ==
  ASSUME Chunks \in Nat, NEW j \in 1..Chunks
  PROVE  FirstChunks(j - 1) \o WT!Frame(j).chunk = FirstChunks(j)
<1>1. WT!Frame(j).chunk = <<j>>
  BY DEF WT!Frame, WT!Whole
<1>2. FirstChunks(j - 1) \in Seq(Nat) /\ Len(FirstChunks(j - 1)) = j - 1
  BY DEF FirstChunks
<1>3. /\ FirstChunks(j - 1) \o <<j>> \in Seq(Nat) /\ Len(FirstChunks(j - 1) \o <<j>>) = j
      /\ \A i \in 1..j : (FirstChunks(j - 1) \o <<j>>)[i] = i
  BY <1>2 DEF FirstChunks
<1> QED
  BY <1>1, <1>3 DEF FirstChunks

LEMMA MessageSent ==
  ASSUME NEW n \in Nat, NEW j \in 0..(n + 1)
  PROVE  Append(Messages(j, n + 1 - j), WT!Frame(n + 1)) = Messages(j, n + 2 - j)
<1>1. Message(n + 2) = WT!Frame(n + 1)
  BY DEF Message
<1>2. Messages(j, n + 1 - j) \in Seq({Message(i) : i \in Nat}) /\ Len(Messages(j, n + 1 - j)) = n + 1 - j
  BY DEF Messages
<1> QED
  BY <1>1, <1>2 DEF Messages

LEMMA MessageTaken ==
  ASSUME NEW n \in Nat, NEW j \in 0..n
  PROVE  /\ Messages(j, n + 1 - j) # <<>>
         /\ Head(Messages(j, n + 1 - j)) = Message(j + 1)
         /\ Tail(Messages(j, n + 1 - j)) = Messages(j + 1, n - j)
<1>1. Messages(j, n + 1 - j) \in Seq({Message(i) : i \in Nat}) /\ Len(Messages(j, n + 1 - j)) = n + 1 - j
  BY DEF Messages
<1>2. Head(Messages(j, n + 1 - j)) = Message(j + 1)
  BY <1>1 DEF Messages
<1>3. \A i \in 1..(n - j) : Messages(j, n + 1 - j)[i + 1] = Message(i + (j + 1))
  BY DEF Messages
<1>4. Tail(Messages(j, n + 1 - j)) = [i \in 1..(n - j) |-> Messages(j, n + 1 - j)[i + 1]]
  BY <1>1
<1>5. Tail(Messages(j, n + 1 - j)) = Messages(j + 1, n - j)
  BY <1>3, <1>4 DEF Messages
<1> QED
  BY <1>1, <1>2, <1>5

\* A step that leaves the channel of a request alone.
SameChannel(q) ==
  /\ toServer'[q] = toServer[q] /\ toClient'[q] = toClient[q]
  /\ got'[q] = got[q] /\ sent'[q] = sent[q]
PhaseGoesOn(q) ==
  /\ transferPhase'[q] \in Early => transferPhase[q] \in Early
  /\ transferPhase'[q] = "receiving" => transferPhase[q] = "receiving"
  /\ transferPhase'[q] \in {"verifying", "done"} => transferPhase[q] \in {"verifying", "done"}
ServeGoesOn(q) ==
  \/ serve'[q] = serve[q]
  \/ serve'[q] = "over"
  \/ serve[q] \in {"none", "answering"} /\ serve'[q] \in {"answering", "waiting"}

LEMMA QuietStep ==
  ASSUME NEW q \in WT!Requests, Asking(q), Answering(q), SameChannel(q), PhaseGoesOn(q), ServeGoesOn(q)
  PROVE  Asking(q)' /\ Answering(q)'
<1>1. (Flowing(q) => Flowing(q)') /\ (Refusing(q) => Refusing(q)' \/ Flowing(q))
  BY DEF Flowing, Taken, Refusing, SameChannel, ServeGoesOn
<1>2. Asking(q)'
  BY DEF Asking, SameChannel, PhaseGoesOn, ServeGoesOn, Early, Private
<1>3. Answering(q)'
  BY <1>1 DEF Answering, SameChannel, PhaseGoesOn, ServeGoesOn, WT!Whole
<1> QED
  BY <1>2, <1>3

LEMMA SocketQuiet ==
  ASSUME SignalInv, SocketActs
  PROVE  /\ Channels => Channels'
         /\ \A q \in WT!Requests : SameChannel(q) /\ PhaseGoesOn(q) /\ ServeGoesOn(q)
<1>1. UNCHANGED <<serve, held, slots, sent, got, toServer, toClient, mail>>
  BY SocketOffers
<1>2. ASSUME NEW q \in WT!Requests PROVE PhaseGoesOn(q)
  BY <1>2, SocketOffers DEF PhaseGoesOn, Early, Private
<1> QED
  BY <1>1, <1>2 DEF Channels, SameChannel, ServeGoesOn

LEMMA ClientQuiet ==
  ASSUME SignalInv, NEW r \in WT!Requests,
         \/ WT!NodeRequest(r) \/ WT!BrowserRequest(r) \/ WT!SendOffer(r) \/ WT!ReceiveAnswer(r)
         \/ WT!Verified(r) \/ WT!RequestFails(r) \/ WT!TimeOutSignaling(r)
  PROVE  /\ Channels => Channels'
         /\ \A q \in WT!Requests : SameChannel(q) /\ PhaseGoesOn(q) /\ ServeGoesOn(q)
<1> USE DEF WT!clientVars, WT!serverVars, WT!channelVars, WT!signalVars, SignalInv, Typed
<1>1. serve' = serve /\ sent' = sent /\ got' = got /\ toServer' = toServer /\ toClient' = toClient
  BY DEF WT!NodeRequest, WT!BrowserRequest, WT!SendOffer, WT!ReceiveAnswer, WT!Verified, WT!RequestFails,
         WT!TimeOutSignaling
<1>2. ASSUME NEW q \in WT!Requests PROVE PhaseGoesOn(q)
  <2>1. CASE WT!NodeRequest(r) \/ WT!BrowserRequest(r)
    BY <2>1, <1>2 DEF WT!NodeRequest, WT!BrowserRequest, WT!Requested, WT!EndRequest, PhaseGoesOn, Early, Private
  <2>2. CASE WT!SendOffer(r)
    BY <2>2, <1>2 DEF WT!SendOffer, WT!EndRequest, PhaseGoesOn, Early, Private
  <2>3. CASE WT!ReceiveAnswer(r)
    BY <2>3, <1>2 DEF WT!ReceiveAnswer, PhaseGoesOn, Early, Private
  <2>4. CASE WT!Verified(r) \/ WT!RequestFails(r)
    BY <2>4, <1>2 DEF WT!Verified, WT!RequestFails, WT!EndRequest, PhaseGoesOn, Early, Private
  <2>5. CASE WT!TimeOutSignaling(r)
    BY <2>5, <1>2 DEF WT!TimeOutSignaling, WT!LoseSocket, WT!Waiters, PhaseGoesOn, Early, Private
  <2> QED
    BY <2>1, <2>2, <2>3, <2>4, <2>5
<1> QED
  BY <1>1, <1>2 DEF Channels, SameChannel, ServeGoesOn

LEMMA ServerQuiet ==
  ASSUME SlotInv, NEW r \in WT!Requests,
         WT!AcceptOffer(r) \/ WT!SendAnswer(r) \/ WT!UploadAborts(r) \/ WT!ServeFails(r)
  PROVE  /\ Channels => Channels'
         /\ \A q \in WT!Requests : SameChannel(q) /\ PhaseGoesOn(q) /\ ServeGoesOn(q)
<1> USE DEF WT!clientVars, WT!serverVars, WT!channelVars, WT!signalVars
<1>0. serve \in [WT!Requests -> WT!ServePhases]
  BY DEF SlotInv, SignalInv, Typed
<1>1. sent' = sent /\ got' = got /\ toServer' = toServer /\ toClient' = toClient
      /\ transferPhase' = transferPhase
  BY DEF WT!AcceptOffer, WT!SendAnswer, WT!UploadAborts, WT!ServeFails
<1>2. ASSUME NEW q \in WT!Requests PROVE ServeGoesOn(q)
  <2>1. CASE WT!AcceptOffer(r)
    <3>1. serve[r] = "none"
      BY <2>1 DEF WT!AcceptOffer, SlotInv, OneServe, Offer
    <3>2. serve' = serve \/ serve' = [serve EXCEPT ![r] = "answering"]
      BY <2>1 DEF WT!AcceptOffer
    <3> QED
      BY <1>0, <3>1, <3>2 DEF ServeGoesOn
  <2>2. CASE WT!SendAnswer(r)
    <3>1. serve[r] = "answering"
          /\ (serve' = [serve EXCEPT ![r] = "waiting"] \/ serve' = [serve EXCEPT ![r] = "over"])
      BY <2>2 DEF WT!SendAnswer
    <3> QED
      BY <1>0, <3>1 DEF ServeGoesOn
  <2>3. CASE WT!UploadAborts(r)
    BY <2>3 DEF WT!UploadAborts, ServeGoesOn
  <2>4. CASE WT!ServeFails(r)
    BY <1>0, <2>4 DEF WT!ServeFails, ServeGoesOn
  <2> QED
    BY <2>1, <2>2, <2>3, <2>4
<1> QED
  BY <1>1, <1>2 DEF Channels, SameChannel, PhaseGoesOn

\* The other requests are left alone.
OthersQuiet(r) ==
  \A q \in WT!Requests \ {r} : SameChannel(q) /\ PhaseGoesOn(q) /\ ServeGoesOn(q)

LEMMA OpensFlow ==
  ASSUME FlowInv, NEW r \in WT!Requests, WT!ChannelOpens(r)
  PROVE  Channels' /\ OthersQuiet(r) /\ Asking(r)' /\ Answering(r)'
<1> USE DEF WT!clientVars, WT!serverVars, WT!channelVars, WT!signalVars
<1>0. /\ transferPhase \in [WT!Requests -> WT!Phases] /\ Channels /\ Asking(r) /\ Answering(r)
      /\ transferPhase[r] = "opening"
  BY DEF FlowInv, SlotInv, SignalInv, Typed, WT!ChannelOpens
<1>1. /\ transferPhase' = [transferPhase EXCEPT ![r] = "receiving"]
      /\ toServer' = [toServer EXCEPT ![r] = Append(@, "segment_request")]
      /\ toClient' = toClient /\ got' = got /\ sent' = sent /\ serve' = serve
  BY DEF WT!ChannelOpens
<1>2. Channels' /\ OthersQuiet(r)
  BY <1>0, <1>1 DEF Channels, OthersQuiet, SameChannel, PhaseGoesOn, ServeGoesOn
<1>3. /\ toServer[r] = <<>> /\ toServer'[r] = <<"segment_request">>
      /\ serve[r] \in {"none", "answering", "waiting", "over"}
      /\ transferPhase'[r] = "receiving"
  BY <1>0, <1>1 DEF Asking, Early, Channels
<1>4. Asking(r)'
  BY <1>1, <1>3 DEF Asking, Early, Private
<1>5. Answering(r)'
  <2>1. (Flowing(r) => Flowing(r)') /\ (Refusing(r) => Refusing(r)')
    BY <1>1 DEF Flowing, Taken, Refusing
  <2> QED
    BY <1>0, <1>1, <1>3, <2>1 DEF Answering
<1> QED
  BY <1>2, <1>4, <1>5

LEMMA RequestFlow ==
  ASSUME FlowInv, NEW r \in WT!Requests, WT!ReceiveRequest(r)
  PROVE  Channels' /\ OthersQuiet(r) /\ Asking(r)' /\ Answering(r)'
<1> USE DEF WT!clientVars, WT!serverVars, WT!channelVars, WT!signalVars
<1>0. /\ serve \in [WT!Requests -> WT!ServePhases] /\ Channels /\ Asking(r) /\ Answering(r)
      /\ serve[r] = "waiting" /\ toServer[r] # <<>>
  BY DEF FlowInv, SlotInv, SignalInv, Typed, WT!ReceiveRequest
<1>1. /\ serve' = [serve EXCEPT ![r] = "looking"]
      /\ toServer' = [toServer EXCEPT ![r] = Tail(@)]
      /\ toClient' = toClient /\ got' = got /\ sent' = sent /\ transferPhase' = transferPhase
  BY DEF WT!ReceiveRequest
<1>2. Channels' /\ OthersQuiet(r)
  BY <1>0, <1>1 DEF Channels, OthersQuiet, SameChannel, PhaseGoesOn, ServeGoesOn
<1>3. toServer[r] = <<"segment_request">> /\ toServer'[r] = <<>> /\ transferPhase[r] \notin Early
      /\ serve'[r] = "looking"
  <2>1. toServer[r] = <<"segment_request">> /\ transferPhase[r] \notin Early
    BY <1>0 DEF Asking
  <2>2. Tail(<<"segment_request">>) = <<>>
    OBVIOUS
  <2>3. toServer'[r] = Tail(toServer[r]) /\ serve'[r] = "looking"
    BY <1>0, <1>1 DEF Channels
  <2> QED
    BY <2>1, <2>2, <2>3
<1>4. Asking(r)'
  BY <1>1, <1>3 DEF Asking
<1>5. Answering(r)'
  <2>1. (Flowing(r) => Flowing(r)') /\ ~Refusing(r)
    BY <1>0, <1>1 DEF Flowing, Taken, Refusing
  <2> QED
    BY <1>0, <1>1, <1>3, <2>1 DEF Answering
<1> QED
  BY <1>2, <1>4, <1>5

LEMMA RespondFlow ==
  ASSUME Chunks \in Nat \ {0}, FlowInv, NEW r \in WT!Requests, WT!Respond(r)
  PROVE  Channels' /\ OthersQuiet(r) /\ Asking(r)' /\ Answering(r)'
<1> USE DEF WT!clientVars, WT!serverVars, WT!channelVars, WT!signalVars
<1>0. /\ serve \in [WT!Requests -> WT!ServePhases] /\ Channels /\ Asking(r) /\ Answering(r)
      /\ serve[r] = "looking" /\ toClient[r] = <<>> /\ sent[r] = 0 /\ Flowing(r)
  BY DEF FlowInv, SlotInv, SignalInv, Typed, WT!Respond, Answering, Refusing
<1>1. got[r] = <<>>
  <2>1. PICK j \in 0..1 : Taken(r, j)
    BY <1>0 DEF Flowing
  <2> QED
    BY <2>1, NoneYet DEF Taken, FirstChunks
<1>2. /\ toServer' = toServer /\ got' = got /\ sent' = sent /\ transferPhase' = transferPhase
      /\ \/ /\ toClient' = [toClient EXCEPT ![r] = Append(@, WT!Control("segment_response"))]
            /\ serve' = [serve EXCEPT ![r] = "sending"]
         \/ /\ toClient' = [toClient EXCEPT ![r] = Append(@, WT!Control("segment_error"))]
            /\ serve' = [serve EXCEPT ![r] = "receipt"]
         \/ toClient' = toClient /\ serve' = [serve EXCEPT ![r] = "over"]
  BY DEF WT!Respond
<1>3. Channels' /\ OthersQuiet(r)
  BY <1>0, <1>2 DEF Channels, OthersQuiet, SameChannel, PhaseGoesOn, ServeGoesOn
<1>4. transferPhase[r] \notin Early /\ toServer[r] = <<>>
  BY <1>0, <1>1 DEF Asking, WT!Whole
<1>5. Asking(r)'
  BY <1>0, <1>2, <1>4 DEF Asking
<1>6. transferPhase[r] \notin {"verifying", "done"}
  BY <1>0, <1>1 DEF Answering, WT!Whole
<1>7. CASE /\ toClient' = [toClient EXCEPT ![r] = Append(@, WT!Control("segment_response"))]
           /\ serve' = [serve EXCEPT ![r] = "sending"]
  <2>1. toClient'[r] = <<WT!Control("segment_response")>> /\ serve'[r] = "sending"
    BY <1>0, <1>7 DEF Channels
  <2>2. Messages(0, 1) = <<WT!Control("segment_response")>>
    BY DEF Messages, Message
  <2>3. Flowing(r)'
    <3>1. toClient'[r] = Messages(0, sent'[r] + 1 - 0) /\ got'[r] = FirstChunks(0 - 1)
      BY <1>0, <1>1, <1>2, <2>1, <2>2, NoneYet
    <3> QED
      BY <1>0, <1>2, <3>1 DEF Flowing, Taken
  <2> QED
    BY <1>0, <1>2, <1>3, <1>5, <1>6, <2>1, <2>3 DEF Answering
<1>8. CASE /\ toClient' = [toClient EXCEPT ![r] = Append(@, WT!Control("segment_error"))]
           /\ serve' = [serve EXCEPT ![r] = "receipt"]
  <2>1. toClient'[r] = <<WT!Control("segment_error")>> /\ serve'[r] = "receipt"
    BY <1>0, <1>8 DEF Channels
  <2>2. Refusing(r)'
    BY <1>0, <1>1, <1>2, <2>1 DEF Refusing
  <2> QED
    BY <1>0, <1>2, <1>3, <1>5, <1>6, <2>1, <2>2 DEF Answering
<1>9. CASE toClient' = toClient /\ serve' = [serve EXCEPT ![r] = "over"]
  <2>1. Flowing(r)' /\ serve'[r] = "over"
    BY <1>0, <1>2, <1>9 DEF Flowing, Taken
  <2> QED
    BY <1>0, <1>2, <1>3, <1>5, <1>6, <1>9, <2>1 DEF Answering
<1> QED
  BY <1>2, <1>7, <1>8, <1>9

LEMMA ChunkFlow ==
  ASSUME Chunks \in Nat \ {0}, FlowInv, NEW r \in WT!Requests, WT!SendChunk(r)
  PROVE  Channels' /\ OthersQuiet(r) /\ Asking(r)' /\ Answering(r)'
<1> USE DEF WT!clientVars, WT!serverVars, WT!channelVars, WT!signalVars
<1>0. /\ serve \in [WT!Requests -> WT!ServePhases] /\ Channels /\ Asking(r) /\ Answering(r)
      /\ serve[r] = "sending" /\ sent[r] \in 0..Chunks /\ sent[r] < Chunks /\ Flowing(r)
  BY DEF FlowInv, SlotInv, SignalInv, Typed, WT!SendChunk, Answering, Refusing
<1>1. PICK j \in 0..(sent[r] + 1) : Taken(r, j)
  BY <1>0 DEF Flowing
<1>2. /\ toServer' = toServer /\ got' = got /\ transferPhase' = transferPhase
      /\ sent' = [sent EXCEPT ![r] = @ + 1]
      /\ toClient' = [toClient EXCEPT ![r] = Append(@, WT!Frame(sent'[r]))]
      /\ serve' = [serve EXCEPT ![r] = IF sent'[r] = Chunks THEN "receipt" ELSE @]
  BY DEF WT!SendChunk
<1>3. Channels' /\ OthersQuiet(r)
  BY <1>0, <1>2 DEF Channels, OthersQuiet, SameChannel, PhaseGoesOn, ServeGoesOn
<1>4. /\ sent'[r] = sent[r] + 1
      /\ toClient'[r] = Append(toClient[r], WT!Frame(sent[r] + 1))
      /\ serve'[r] = IF sent[r] + 1 = Chunks THEN "receipt" ELSE "sending"
  BY <1>0, <1>2 DEF Channels
<1>5. toClient'[r] = Messages(j, sent'[r] + 1 - j)
  <2>1. Append(Messages(j, sent[r] + 1 - j), WT!Frame(sent[r] + 1)) = Messages(j, sent[r] + 2 - j)
    <3>1. sent[r] \in Nat
      BY <1>0
    <3> QED
      BY <3>1, MessageSent
  <2>2. sent'[r] + 1 - j = sent[r] + 2 - j
    BY <1>0, <1>4
  <2> QED
    BY <1>1, <1>4, <2>1, <2>2 DEF Taken
<1>6. Flowing(r)'
  <2>1. Taken(r, j)' /\ j \in 0..(sent'[r] + 1)
    BY <1>0, <1>1, <1>2, <1>4, <1>5 DEF Taken
  <2> QED
    BY <2>1 DEF Flowing
<1>7. got[r] # WT!Whole
  <2>1. got[r] = FirstChunks(j - 1) /\ WT!Whole = FirstChunks(Chunks)
    BY <1>1 DEF Taken, WT!Whole, FirstChunks
  <2>2. CASE j = 0
    BY <2>1, <2>2, NoneYet, ChunksCounted
  <2>3. CASE j # 0
    <3>1. j - 1 \in Nat /\ j - 1 # Chunks
      BY <1>0, <2>3
    <3> QED
      BY <2>1, <3>1, ChunksCounted
  <2> QED
    BY <2>2, <2>3
<1>8. toServer[r] = <<>> /\ transferPhase[r] \notin Early
  BY <1>0, <1>7 DEF Asking
<1>9. Asking(r)'
  BY <1>2, <1>4, <1>8 DEF Asking
<1>10. Answering(r)'
  BY <1>0, <1>2, <1>4, <1>6, <1>7 DEF Answering
<1> QED
  BY <1>3, <1>9, <1>10

LEMMA ReceiptFlow ==
  ASSUME Chunks \in Nat \ {0}, FlowInv, NEW r \in WT!Requests, WT!ReceiveReceipt(r)
  PROVE  Channels' /\ OthersQuiet(r) /\ Asking(r)' /\ Answering(r)'
<1> USE DEF WT!clientVars, WT!serverVars, WT!channelVars, WT!signalVars
<1>0. /\ serve \in [WT!Requests -> WT!ServePhases] /\ Channels /\ Asking(r) /\ Answering(r)
      /\ serve[r] = "receipt" /\ toServer[r] # <<>>
  BY DEF FlowInv, SlotInv, SignalInv, Typed, WT!ReceiveReceipt
<1>1. /\ toServer' = [toServer EXCEPT ![r] = Tail(@)]
      /\ toClient' = toClient /\ got' = got /\ sent' = sent /\ transferPhase' = transferPhase
      /\ serve' = [serve EXCEPT ![r] = IF sent[r] = Chunks THEN "served" ELSE "over"]
  BY DEF WT!ReceiveReceipt
<1>2. Channels' /\ OthersQuiet(r)
  BY <1>0, <1>1 DEF Channels, OthersQuiet, SameChannel, PhaseGoesOn, ServeGoesOn
<1>3. transferPhase[r] \notin Early /\ (sent[r] = Chunks => got[r] = WT!Whole)
  BY <1>0 DEF Asking
<1>4. serve'[r] = IF sent[r] = Chunks THEN "served" ELSE "over"
  BY <1>0, <1>1
<1>5. Asking(r)'
  BY <1>1, <1>3, <1>4 DEF Asking
<1>6. (Flowing(r) => Flowing(r)') /\ (Refusing(r) => Refusing(r)')
  BY <1>1, <1>4 DEF Flowing, Taken, Refusing
<1>7. Answering(r)'
  BY <1>0, <1>1, <1>3, <1>4, <1>6 DEF Answering, WT!Whole
<1> QED
  BY <1>2, <1>5, <1>7

\* The requester takes the next message: it is the next chunk, and the last
\* one completes the segment.
LEMMA ReceiveFlow ==
  ASSUME Chunks \in Nat \ {0}, FlowInv, NEW r \in WT!Requests, WT!Receive(r)
  PROVE  Channels' /\ OthersQuiet(r) /\ Asking(r)' /\ Answering(r)'
<1> USE DEF WT!clientVars, WT!serverVars, WT!channelVars, WT!signalVars
<1> DEFINE chunks == got[r] \o Head(toClient[r]).chunk
<1>0. /\ transferPhase \in [WT!Requests -> WT!Phases] /\ Channels /\ Asking(r) /\ Answering(r)
      /\ transferPhase[r] = "receiving" /\ toClient[r] # <<>> /\ sent[r] \in Nat /\ sent[r] <= Chunks
  BY DEF FlowInv, SlotInv, SignalInv, Typed, WT!Receive, Answering
<1>1. /\ serve' = serve /\ sent' = sent
      /\ got' = [got EXCEPT ![r] = chunks]
      /\ toClient' = [toClient EXCEPT ![r] = Tail(@)]
  BY DEF WT!Receive
<1>2. \/ /\ Head(toClient[r]).type = "segment_error"
         /\ toServer' = [toServer EXCEPT ![r] = Append(@, "segment_received")]
         /\ transferPhase' = [transferPhase EXCEPT ![r] = "failed"]
      \/ /\ Head(toClient[r]).type # "segment_error" /\ Len(chunks) = Chunks
         /\ toServer' = [toServer EXCEPT ![r] = Append(@, "segment_received")]
         /\ \/ transferPhase' = [transferPhase EXCEPT ![r] = "verifying"]
            \/ transferPhase' = [transferPhase EXCEPT ![r] = "done"]
      \/ /\ Head(toClient[r]).type # "segment_error"
         /\ toServer' = toServer /\ transferPhase' = transferPhase
  BY DEF WT!Receive, WT!EndRequest, WT!Complete
<1>3. Channels' /\ OthersQuiet(r)
  BY <1>0, <1>1, <1>2 DEF Channels, OthersQuiet, SameChannel, PhaseGoesOn, ServeGoesOn
<1>4. /\ serve'[r] = serve[r] /\ sent'[r] = sent[r]
      /\ got'[r] = chunks /\ toClient'[r] = Tail(toClient[r])
  BY <1>0, <1>1 DEF Channels
<1>5. serve[r] \notin {"none", "answering", "waiting", "looking"}
  BY <1>0 DEF Answering
<1>6. CASE Refusing(r)
  <2>1. Head(toClient[r]) = WT!Control("segment_error") /\ Tail(toClient[r]) = <<>>
    BY <1>6 DEF Refusing
  <2>2. chunks = <<>> /\ Head(toClient[r]).type = "segment_error"
    BY <1>6, <2>1 DEF Refusing, WT!Control
  <2>3. transferPhase'[r] = "failed"
    BY <1>0, <1>2, <2>2
  <2>4. Flowing(r)'
    <3>1. toClient'[r] = Messages(1, sent'[r] + 1 - 1) /\ got'[r] = FirstChunks(1 - 1)
      BY <1>4, <1>6, <2>1, <2>2, NoneYet DEF Refusing
    <3>2. sent'[r] = 0
      BY <1>4, <1>6 DEF Refusing
    <3> QED
      BY <3>1, <3>2 DEF Flowing, Taken
  <2>5. Asking(r)'
    BY <1>4, <1>6, <2>3 DEF Asking, Refusing, Early, Private
  <2>6. Answering(r)'
    BY <1>0, <1>4, <1>5, <1>6, <2>3, <2>4 DEF Answering, Refusing
  <2> QED
    BY <1>3, <2>5, <2>6
<1>7. CASE Flowing(r)
  <2>1. PICK j \in 0..(sent[r] + 1) : Taken(r, j)
    BY <1>7 DEF Flowing
  <2>2. j \in 0..sent[r]
    <3>1. j # sent[r] + 1
      BY <1>0, <2>1, NoneYet DEF Taken
    <3> QED
      BY <1>0, <2>1, <3>1
  <2>3. Head(toClient[r]) = Message(j + 1) /\ Tail(toClient[r]) = Messages(j + 1, sent[r] - j)
    BY <1>0, <2>1, <2>2, MessageTaken DEF Taken
  <2>4. chunks = FirstChunks(j)
    <3>1. CASE j = 0
      <4>1. Head(toClient[r]).chunk = <<>> /\ got[r] = <<>>
        BY <2>1, <2>3, <3>1, NoneYet DEF Taken, Message, WT!Control
      <4> QED
        BY <3>1, <4>1, NoneYet
    <3>2. CASE j # 0
      <4>1. j \in 1..Chunks /\ Message(j + 1) = WT!Frame(j)
        BY <1>0, <2>2, <3>2 DEF Message
      <4> QED
        BY <2>1, <2>3, <4>1, ChunkAdded DEF Taken
    <3> QED
      BY <3>1, <3>2
  <2>5. Head(toClient[r]).type # "segment_error"
    BY <2>3 DEF Message, WT!Control, WT!Frame
  <2>6. Len(chunks) = Chunks => chunks = WT!Whole
    <3>1. j \in Nat
      BY <1>0, <2>2
    <3>2. Len(chunks) = j
      BY <2>4, <3>1, ChunksCounted
    <3>3. WT!Whole = FirstChunks(Chunks)
      BY DEF WT!Whole, FirstChunks
    <3> QED
      BY <2>4, <3>2, <3>3
  <2>7. Flowing(r)'
    <3>1. toClient'[r] = Messages(j + 1, sent'[r] + 1 - (j + 1)) /\ got'[r] = FirstChunks((j + 1) - 1)
      <4>1. sent[r] + 1 - (j + 1) = sent[r] - j /\ (j + 1) - 1 = j
        BY <1>0, <2>2
      <4> QED
        BY <1>4, <2>3, <2>4, <4>1
    <3>2. j + 1 \in 0..(sent'[r] + 1)
      BY <1>0, <1>4, <2>2
    <3> QED
      BY <3>1, <3>2 DEF Flowing, Taken
  <2>8. CASE Len(chunks) = Chunks
    <3>1. /\ got'[r] = WT!Whole
          /\ transferPhase'[r] \in {"receiving", "verifying", "done"}
          /\ transferPhase'[r] = "receiving" => toServer'[r] = toServer[r]
      BY <1>0, <1>2, <1>4, <2>5, <2>6, <2>8
    <3>2. Asking(r)'
      BY <1>0, <1>4, <1>5, <3>1 DEF Asking, Early, Private, WT!Whole
    <3>3. Answering(r)'
      BY <1>0, <1>4, <1>5, <2>7, <3>1 DEF Answering, WT!Whole
    <3> QED
      BY <1>3, <3>2, <3>3
  <2>9. CASE Len(chunks) # Chunks
    <3>1. toServer'[r] = toServer[r] /\ transferPhase'[r] = "receiving"
      BY <1>0, <1>2, <2>5, <2>9
    <3>2. serve[r] # "served"
      <4>1. ASSUME serve[r] = "served" PROVE FALSE
        <5>1. got[r] = FirstChunks(Chunks)
          BY <1>0, <4>1 DEF Answering, WT!Whole, FirstChunks
        <5>2. CASE j = 0
          BY <2>1, <5>1, <5>2, NoneYet, ChunksCounted DEF Taken
        <5>3. CASE j # 0
          <6>1. j - 1 \in Nat /\ j - 1 # Chunks
            BY <1>0, <2>2, <5>3
          <6> QED
            BY <2>1, <5>1, <6>1, ChunksCounted DEF Taken
        <5> QED
          BY <5>2, <5>3
      <4> QED
        BY <4>1
    <3>3. Asking(r)'
      BY <1>0, <1>4, <1>5, <3>1 DEF Asking, Early, Private
    <3>4. Answering(r)'
      BY <1>0, <1>4, <1>5, <2>7, <3>1, <3>2 DEF Answering
    <3> QED
      BY <1>3, <3>3, <3>4
  <2> QED
    BY <2>8, <2>9
<1> QED
  BY <1>0, <1>6, <1>7 DEF Answering

LEMMA FlowInit == ASSUME Chunks \in Nat \ {0}, WT!Init PROVE FlowInv
<1>1. ASSUME NEW r \in WT!Requests PROVE Asking(r) /\ Answering(r)
  <2>1. Taken(r, 1)
    BY <1>1, NoneYet DEF WT!Init, Taken
  <2>2. Flowing(r)
    BY <1>1, <2>1 DEF WT!Init, Flowing
  <2> QED
    BY <1>1, <2>2 DEF WT!Init, Asking, Answering
<1>2. Channels
  BY DEF WT!Init, Channels
<1> QED
  BY <1>1, <1>2, SlotsInit DEF FlowInv

LEMMA FlowKept ==
  ASSUME TwoPeers, IsFiniteSet(WT!Requests), Chunks \in Nat \ {0}, FlowInv, [WT!Next]_(WT!vars)
  PROVE  FlowInv'
<1>0. SlotInv' /\ SlotInv /\ SignalInv
  BY SlotKept DEF FlowInv, SlotInv
<1>1. ASSUME Channels => Channels',
             \A q \in WT!Requests : SameChannel(q) /\ PhaseGoesOn(q) /\ ServeGoesOn(q)
      PROVE  FlowInv'
  BY <1>0, <1>1, QuietStep DEF FlowInv
<1>2. ASSUME NEW r \in WT!Requests, Channels', OthersQuiet(r), Asking(r)', Answering(r)'
      PROVE  FlowInv'
  <2>1. ASSUME NEW q \in WT!Requests, q # r PROVE Asking(q)' /\ Answering(q)'
    BY <1>2, <2>1, QuietStep DEF FlowInv, OthersQuiet
  <2> QED
    BY <1>0, <1>2, <2>1 DEF FlowInv
<1>3. CASE SocketActs
  BY <1>0, <1>1, <1>3, SocketQuiet
<1>4. ASSUME NEW r \in WT!Requests, ClientActs(r) PROVE FlowInv'
  <2>1. CASE WT!ChannelOpens(r)
    BY <1>2, <2>1, OpensFlow
  <2>2. CASE WT!Receive(r)
    BY <1>2, <2>2, ReceiveFlow
  <2>3. CASE ~WT!ChannelOpens(r) /\ ~WT!Receive(r)
    BY <1>0, <1>1, <1>4, <2>3, ClientQuiet DEF ClientActs
  <2> QED
    BY <2>1, <2>2, <2>3
<1>5. ASSUME NEW r \in WT!Requests, ServerActs(r) PROVE FlowInv'
  <2>1. CASE WT!ReceiveRequest(r)
    BY <1>2, <2>1, RequestFlow
  <2>2. CASE WT!Respond(r)
    BY <1>2, <2>2, RespondFlow
  <2>3. CASE WT!SendChunk(r)
    BY <1>2, <2>3, ChunkFlow
  <2>4. CASE WT!ReceiveReceipt(r)
    BY <1>2, <2>4, ReceiptFlow
  <2>5. CASE WT!AcceptOffer(r) \/ WT!SendAnswer(r) \/ WT!UploadAborts(r) \/ WT!ServeFails(r)
    BY <1>0, <1>1, <2>5, ServerQuiet
  <2> QED
    BY <1>5, <2>1, <2>2, <2>3, <2>4, <2>5 DEF ServerActs
<1>6. CASE UNCHANGED (WT!vars)
  <2>1. /\ sent' = sent /\ got' = got /\ toServer' = toServer /\ toClient' = toClient
        /\ transferPhase' = transferPhase /\ serve' = serve
    BY <1>6 DEF WT!vars, WT!clientVars, WT!serverVars, WT!channelVars, WT!signalVars
  <2> QED
    BY <1>1, <2>1 DEF Channels, SameChannel, PhaseGoesOn, ServeGoesOn
<1> QED
  BY <1>3, <1>4, <1>5, <1>6, TransferActs

\* receiveSegment, serveSegment and waitForSegmentReceipt (webrtc-transport.ts,
\* webrtc-peer.ts): what a request returns is the whole segment in order, and
\* an upload that counts as served was received whole, whatever ends close in
\* between, however many chunks a segment has.
THEOREM WholeOrNothing ==
  ASSUME TwoPeers, IsFiniteSet(WT!Requests), Chunks \in Nat \ {0}
  PROVE  SafeSpec => []ReceivedIsServed
<1>1. MachineInit => FlowInv
  BY FlowInit DEF MachineInit
<1>2. FlowInv /\ [MachineNext]_machineVars => FlowInv'
  BY FlowKept, MachineSteps
<1>3. FlowInv => ReceivedIsServed
  BY DEF FlowInv, Answering, ReceivedIsServed, WT!ReceivedIsServed
<1> QED
  BY <1>1, <1>2, <1>3, PTL DEF SafeSpec

-----------------------------------------------------------------------------
(* The types of what the machines keep.                                    *)

LEMMA LeaseTyped ==
  ASSUME Lease \in Nat, MaxOutages \in Nat
  PROVE  /\ BL!Init => BL!TypeOK
         /\ BL!TypeOK /\ [BL!Next]_(BL!leaseVars) => BL!TypeOK'
<1>1. BL!Init => BL!TypeOK
  BY DEF BL!Init, BL!TypeOK, BL!Left
<1>2. \A left \in BL!Left : BL!Aged(left) \in BL!Left
  BY DEF BL!Left, BL!Aged
<1>3. Lease \in BL!Left
  BY DEF BL!Left
<1>4. ASSUME BL!TypeOK, BL!Tick PROVE BL!TypeOK'
  BY <1>2, <1>3, <1>4 DEF BL!TypeOK, BL!Tick
<1>5. ASSUME BL!TypeOK, BL!Started \/ BL!Shutdown \/ BL!Unregistered \/ BL!Stopped \/ BL!Crash \/ BL!Sweep
      PROVE  BL!TypeOK'
  BY <1>5 DEF BL!TypeOK, BL!Started, BL!Shutdown, BL!Unregistered, BL!Stopped, BL!Crash, BL!Sweep
<1>6. ASSUME BL!TypeOK, BL!GoesDown PROVE BL!TypeOK'
  <2>1. outages' \in 0..MaxOutages
    BY <1>6 DEF BL!TypeOK, BL!GoesDown
  <2> QED
    BY <1>6, <2>1 DEF BL!TypeOK, BL!GoesDown
<1>9. ASSUME BL!TypeOK, BL!ComesUp PROVE BL!TypeOK'
  BY <1>9 DEF BL!TypeOK, BL!ComesUp
<1>7. ASSUME BL!TypeOK, NEW left \in BL!Left,
             BL!Answered(left) \/ BL!TimedOut(left) \/ BL!Rejected(left) \/ BL!StrayArrives(left)
      PROVE  BL!TypeOK'
  BY <1>7 DEF BL!TypeOK, BL!Answered, BL!Registered, BL!TimedOut, BL!Rejected, BL!StrayArrives
<1>8. BL!TypeOK /\ UNCHANGED BL!leaseVars => BL!TypeOK'
  BY DEF BL!TypeOK, BL!leaseVars
<1> QED
  BY <1>1, <1>4, <1>5, <1>6, <1>7, <1>8, <1>9 DEF BL!Next

\* A request is sent, if it is sent, by one that was free.
LEMMA RequestSent ==
  ASSUME NEW States, NEW calls \in [Slot -> States], NEW as \in States, NEW more \in PS!Send(calls, as)
  PROVE  more \in [Slot -> States]
BY DEF PS!Send

LEMMA ViewerTyped ==
  ASSUME MaxAttach \in Nat
  PROVE  /\ PS!Init => PS!TypeOK
         /\ PS!TypeOK /\ [PS!Next]_(PS!vars) => PS!TypeOK'
<1> USE DEF PS!PostState, PS!DeleteState
<1> DEFINE Flags == {viewerActive, viewerRegistered, viewerToken, retry, viewerRefresh, viewerStarted,
                     viewerReconnect, viewerListed, failed}
<1>1. ASSUME PS!Init PROVE PS!TypeOK
  <2>1. Flags \subseteq {FALSE}
    BY <1>1, Zenon DEF PS!Init
  <2>2. Flags \subseteq BOOLEAN
    BY <2>1
  <2>3. posts \in [Slot -> PS!PostState] /\ deletes \in [Slot -> PS!DeleteState]
    BY <1>1 DEF PS!Init
  <2>4. viewerAttached = 0
    BY <1>1, Zenon DEF PS!Init
  <2>5. refreshing = {} /\ viewerSocket = "none"
    BY <1>1, Zenon DEF PS!Init
  <2> QED
    BY <2>2, <2>3, <2>4, <2>5 DEF PS!TypeOK
<1>2. SUFFICES ASSUME PS!TypeOK, [PS!Next]_(PS!vars) PROVE PS!TypeOK'
  BY <1>1
<1> USE <1>2 DEF PS!TypeOK
<1>3. ASSUME NEW again, PS!Register(again) PROVE posts' \in [Slot -> PS!PostState] /\ refreshing' \subseteq Slot
  BY <1>3 DEF PS!Register, PS!Headers
<1>4. ASSUME NEW bearer, PS!Unregister(bearer)
      PROVE  /\ viewerRegistered' = FALSE /\ viewerRefresh' = FALSE
             /\ deletes' \in [Slot -> PS!DeleteState]
  <2>1. viewerRegistered' = FALSE /\ viewerRefresh' = FALSE
    BY <1>4, Zenon DEF PS!Unregister
  <2>2. deletes' \in [Slot -> PS!DeleteState]
    BY <1>4, RequestSent DEF PS!Unregister
  <2> QED
    BY <2>1, <2>2
<1>5. CASE PS!Attach
  <2>1. viewerAttached' \in 0..MaxAttach
    BY <1>5 DEF PS!Attach
  <2> QED
    BY <1>3, <1>5, <2>1 DEF PS!Attach, PS!session, PS!timers, PS!client
<1>6. CASE PS!Detach
  <2>1. /\ viewerActive' = FALSE /\ retry' = FALSE /\ viewerStarted' = FALSE /\ viewerReconnect' = FALSE
        /\ viewerRefresh' = FALSE /\ viewerRegistered' \in BOOLEAN
        /\ viewerToken' = viewerToken /\ viewerListed' = viewerListed /\ failed' = failed
    <3>1. \/ PS!Unregister(viewerToken)
          \/ viewerRefresh' = FALSE /\ viewerRegistered' = viewerRegistered
      BY <1>6 DEF PS!Detach
    <3>2. viewerRefresh' = FALSE /\ viewerRegistered' \in BOOLEAN
      BY <1>4, <3>1
    <3> QED
      BY <1>6, <3>2, Zenon DEF PS!Detach, PS!StopClient
  <2>2. Flags' \subseteq BOOLEAN
    BY <2>1
  <2>3. deletes' \in [Slot -> PS!DeleteState]
    BY <1>4, <1>6 DEF PS!Detach
  <2> QED
    BY <1>6, <2>2, <2>3 DEF PS!Detach, PS!StopClient
<1>7. CASE PS!RetryFires \/ PS!RefreshFires
  BY <1>3, <1>7 DEF PS!RetryFires, PS!RefreshFires, PS!session, PS!client
<1>8. CASE PS!Opens \/ PS!Closes \/ PS!ReconnectFires \/ PS!TrackerForgets
  BY <1>8 DEF PS!Opens, PS!Closes, PS!ReconnectFires, PS!TrackerForgets, PS!session, PS!timers, PS!client
<1>9. ASSUME NEW s \in Slot, PS!TrackerJoins(s) \/ PS!PostFails(s) PROVE PS!TypeOK'
  BY <1>9 DEF PS!TrackerJoins, PS!PostFails, PS!session, PS!timers, PS!client
<1>10. ASSUME NEW s \in Slot, PS!TrackerRemoves(s) \/ PS!DeleteFails(s) \/ PS!Deleted(s) PROVE PS!TypeOK'
  BY <1>10 DEF PS!TrackerRemoves, PS!DeleteFails, PS!Deleted, PS!session, PS!timers, PS!client
<1>11. ASSUME NEW s \in Slot, PS!Joined(s) PROVE PS!TypeOK'
  <2>1. /\ viewerToken' = TRUE /\ viewerActive' = viewerActive /\ retry' = retry
        /\ viewerListed' = viewerListed /\ failed' = failed
        /\ viewerRegistered' \in BOOLEAN /\ viewerRefresh' \in BOOLEAN
        /\ viewerStarted' \in BOOLEAN /\ viewerReconnect' \in BOOLEAN
    <3>1. \/ /\ viewerRegistered' = TRUE /\ viewerRefresh' = TRUE /\ viewerStarted' = TRUE
             /\ viewerReconnect' = viewerReconnect
          \/ /\ PS!Unregister(TRUE)
             /\ viewerStarted' = viewerStarted /\ viewerReconnect' = viewerReconnect
      BY <1>11, Zenon DEF PS!Joined, PS!client
    <3>2. /\ viewerRegistered' \in BOOLEAN /\ viewerRefresh' \in BOOLEAN
          /\ viewerStarted' \in BOOLEAN /\ viewerReconnect' \in BOOLEAN
      BY <1>4, <3>1
    <3> QED
      BY <1>11, <3>2, Zenon DEF PS!Joined
  <2>2. Flags' \subseteq BOOLEAN
    BY <2>1
  <2>3. deletes' \in [Slot -> PS!DeleteState]
    BY <1>4, <1>11 DEF PS!Joined
  <2> QED
    BY <1>11, <2>2, <2>3 DEF PS!Joined, PS!client
<1>12. ASSUME NEW s \in Slot, PS!Refused(s) PROVE PS!TypeOK'
  BY <1>12 DEF PS!Refused, PS!session, PS!client
<1>13. CASE UNCHANGED PS!vars
  BY <1>13 DEF PS!vars, PS!session, PS!timers, PS!client
<1> QED
  BY <1>5, <1>6, <1>7, <1>8, <1>9, <1>10, <1>11, <1>12, <1>13 DEF PS!Next

\* Bytes that were served settle the request: it is gone, and nobody waits.
LEMMA SettleTyped ==
  ASSUME PL!TypeOK, NEW result \in {"good", "bad", "raw", "error"}, PL!Settle(result)
  PROVE  PL!TypeOK'
<1>1. loadCached' \in {"none", "good", "bad", "raw"}
  BY DEF PL!TypeOK, PL!Settle, PL!Keep
<1>4. holds' \in [Loader -> {"none", "good", "bad", "raw"}]
  BY DEF PL!TypeOK, PL!Settle
<1>2. loader' \in [Loader -> PL!LoaderState]
  BY DEF PL!TypeOK, PL!Settle, PL!LoaderState
<1>3. request'.plan = "none" /\ consumers' = {}
  BY DEF PL!Settle, PL!NoRequest
<1> QED
  BY <1>1, <1>2, <1>3, <1>4 DEF PL!TypeOK, PL!Settle, PL!assembling

\* A step of the shared request leaves it in flight.
LEMMA ContinueTyped ==
  ASSUME PL!TypeOK, NEW next \in LoadRequests, next.plan = request.plan, next # PL!NoRequest,
         PL!Continue(next)
  PROVE  PL!TypeOK'
BY DEF PL!TypeOK, PL!Continue, PL!assembling

LEMMA LoadsTyped ==
  ASSUME Parts \in Nat
  PROVE  /\ PL!Init => PL!TypeOK
         /\ PL!TypeOK /\ LoadsInv /\ [PL!Next]_(PL!vars) => PL!TypeOK'
<1>1. ASSUME PL!Init PROVE PL!TypeOK
  <2>1. PL!NoRequest.plan = "none"
    BY DEF PL!NoRequest
  <2>2. loadActive \in BOOLEAN /\ verifying \in BOOLEAN
    BY <1>1, Zenon DEF PL!Init
  <2>5. holds \in [Loader -> {"none", "good", "bad", "raw"}]
    BY <1>1 DEF PL!Init
  <2>3. loader \in [Loader -> PL!LoaderState]
    BY <1>1 DEF PL!Init, PL!LoaderState
  <2>4. /\ loadCached = "none" /\ request = PL!NoRequest /\ consumers = {} /\ parts = {}
        /\ assembly = "open" /\ loadListed = 0
    BY <1>1, Zenon DEF PL!Init
  <2> QED
    BY <2>1, <2>2, <2>3, <2>4, <2>5 DEF PL!TypeOK
<1>2. SUFFICES ASSUME PL!TypeOK, LoadsInv, [PL!Next]_(PL!vars) PROVE PL!TypeOK'
  BY <1>1
<1>3. request \in LoadRequests
  BY <1>2 DEF LoadsInv
<1> USE <1>2
<1>4. ASSUME NEW l \in Loader, PL!Load(l) PROVE PL!TypeOK'
  <2>1. CASE loadCached # "none"
    BY <1>4, <2>1 DEF PL!Load, PL!TypeOK, PL!LoaderState, PL!assembling
  <2>2. CASE loadCached = "none"
    <3>1. /\ loader' \in [Loader -> PL!LoaderState] /\ consumers' \subseteq Loader
          /\ \/ request = PL!NoRequest /\ request' \in PL!Started
             \/ request # PL!NoRequest /\ request' = request
      BY <1>4, <2>2 DEF PL!Load, PL!TypeOK, PL!LoaderState, PL!assembling
    <3>2. \A r \in PL!Started : r.plan \in {"origin", "peers", "hedged"}
      BY DEF PL!Started
    <3>3. request'.plan \in {"none", "origin", "peers", "hedged"} /\ request' # PL!NoRequest
      BY <3>1, <3>2 DEF PL!TypeOK, PL!NoRequest
    <3> QED
      BY <1>4, <3>1, <3>3 DEF PL!Load, PL!TypeOK, PL!assembling
  <2> QED
    BY <2>1, <2>2
<1>5. ASSUME NEW l \in Loader, PL!Leave(l) PROVE PL!TypeOK'
  <2>1. /\ loader' \in [Loader -> PL!LoaderState] /\ consumers' \subseteq consumers
        /\ \/ request' = request
           \/ request' = PL!Without(l)
    BY <1>5 DEF PL!Leave, PL!TypeOK, PL!LoaderState
  <2>2. PL!Without(l).plan = request.plan /\ (PL!Without(l) = PL!NoRequest => request = PL!NoRequest)
    BY <1>3 DEF PL!Without, LoadRequests, PL!NoRequest
  <2> QED
    BY <1>5, <2>1, <2>2 DEF PL!Leave, PL!TypeOK, PL!assembling
<1>6. ASSUME NEW l \in Loader, PL!Deliver(l) \/ PL!Renew(l) PROVE PL!TypeOK'
  BY <1>6 DEF PL!Deliver, PL!Renew, PL!TypeOK, PL!LoaderState, PL!assembling
<1>7. CASE PL!PeersDeliver \/ PL!OriginDelivers \/ PL!HedgeAborted
  <2>1. \E result \in {"good", "bad", "raw", "error"} : PL!Settle(result)
    BY <1>7 DEF PL!PeersDeliver, PL!OriginDelivers, PL!HedgeAborted
  <2> QED
    BY <2>1, SettleTyped
<1>8. CASE PL!Detach
  <2>1. request'.plan = request.plan /\ (request' = PL!NoRequest => request = PL!NoRequest)
    BY <1>3, <1>8 DEF PL!Detach, LoadRequests, PL!NoRequest
  <2> QED
    BY <1>8, <2>1 DEF PL!Detach, PL!TypeOK, PL!assembling
<1>9. CASE PL!Attach \/ PL!Evict \/ PL!List
  BY <1>9 DEF PL!Attach, PL!Evict, PL!List, PL!TypeOK, PL!assembling
<1>10. CASE PL!Verified \/ PL!Forget
  <2>1. loadCached' \in {"none", "good", "bad", "raw"}
    BY <1>10 DEF PL!Verified, PL!Forget, PL!TypeOK, PL!Joined
  <2> QED
    BY <1>10, <2>1 DEF PL!Verified, PL!Forget, PL!TypeOK
<1>11. ASSUME NEW more \in {{}} \cup {{i} : i \in 1..Parts}, PL!Record(more) PROVE PL!TypeOK'
  <2>1. more \subseteq 1..Parts
    OBVIOUS
  <2>2. parts' \subseteq 1..Parts /\ assembly' \in {"open", "verifying", "closed"}
    BY <1>11, <2>1 DEF PL!Record, PL!TypeOK
  <2> QED
    BY <1>11, <2>2 DEF PL!Record, PL!TypeOK
<1>12. CASE UNCHANGED PL!vars
  BY <1>12 DEF PL!vars, PL!assembling, PL!TypeOK
<1>13. CASE PL!PeersFail
  <2> DEFINE next == [request EXCEPT !.peers = "lost",
                        !.origin = IF request.plan = "peers" THEN "running" ELSE @]
  <2>1. next \in LoadRequests /\ next.plan = request.plan /\ next # PL!NoRequest
    BY <1>3 DEF LoadRequests, PL!NoRequest
  <2>2. PL!Settle("error") \/ PL!Continue(next)
    BY <1>13 DEF PL!PeersFail
  <2> HIDE DEF next
  <2> QED
    BY <2>1, <2>2, SettleTyped, ContinueTyped
<1>14. CASE PL!HedgeFires
  <2> DEFINE next == [request EXCEPT !.origin = "running"]
  <2>1. next \in LoadRequests /\ next.plan = request.plan /\ next # PL!NoRequest
    BY <1>3 DEF LoadRequests, PL!NoRequest
  <2>2. PL!Continue(next)
    BY <1>14 DEF PL!HedgeFires
  <2> HIDE DEF next
  <2> QED
    BY <2>1, <2>2, ContinueTyped
<1>15. CASE PL!OriginFails
  <2> DEFINE next == [request EXCEPT !.origin = "lost"]
  <2>1. next \in LoadRequests /\ next.plan = request.plan /\ next # PL!NoRequest
    BY <1>3 DEF LoadRequests, PL!NoRequest
  <2>2. PL!Settle("error") \/ PL!Continue(next)
    BY <1>15 DEF PL!OriginFails
  <2> HIDE DEF next
  <2> QED
    BY <2>1, <2>2, SettleTyped, ContinueTyped
<1> QED
  BY <1>4, <1>5, <1>6, <1>7, <1>8, <1>9, <1>10, <1>11, <1>12, <1>13, <1>14, <1>15 DEF PL!Next

LEMMA PlansAreTyped == ASSUME PlanAssumption, PlanInv PROVE SS!TypeOK
<1>1. PICK n \in 1..MaxWork : planned \in [1..n -> [segment : Wanted, ahead : Nat]]
  BY DEF PlanInv, BatchInv
<1>2. AskedOnce(Work, planned)
  BY <1>1, EachOnce DEF Work, PlanAssumption
<1>3. ASSUME NEW i \in DOMAIN assignments
      PROVE  /\ assignments[i].segment \in {planned[j].segment : j \in DOMAIN planned}
             /\ assignments[i].peer \in SS!Candidates \cup {None}
  <2>1. /\ assignments \in Seq(AssignmentRecords) /\ i \in 1..Len(assignments)
        /\ Len(assignments) <= Len(Work) /\ assignments[i].segment = Work[i].segment
    BY DEF PlanInv, BatchInv
  <2>2. PICK j \in DOMAIN planned : Work[i] = planned[j]
    BY <1>2, <2>1 DEF AskedOnce
  <2>3. assignments[i] \in AssignmentRecords
    BY <2>1
  <2> QED
    BY <2>1, <2>2, <2>3 DEF AssignmentRecords
<1> QED
  BY <1>3 DEF PlanInv, BatchInv, HedgeFits, SS!TypeOK

\* No peer serves more than it has slots for.
SlotsBounded == \A p \in WT!Peers : slots[p] <= MaxUploads

LEMMA SlotsStayBounded ==
  ASSUME MaxUploads \in Nat, SlotInv, SlotInv', SlotsBounded, [WT!Next]_(WT!vars)
  PROVE  SlotsBounded'
<1> USE DEF SlotsBounded
<1>1. slots \in [WT!Peers -> Nat] /\ slots' \in [WT!Peers -> Nat]
  BY DEF SlotInv
<1>2. ASSUME slots' = slots PROVE SlotsBounded'
  BY <1>2
<1>3. ASSUME NEW r \in WT!Requests, WT!Finish(r) PROVE SlotsBounded'
  BY <1>1, <1>3 DEF WT!Finish
<1>4. ASSUME NEW r \in WT!Requests, WT!AcceptOffer(r) PROVE SlotsBounded'
  BY <1>1, <1>4 DEF WT!AcceptOffer, WT!serverVars
<1>5. CASE SocketActs
  BY <1>2, <1>5 DEF SocketActs, WT!Start, WT!SocketOpens, WT!SocketCloses, WT!Reconnect, WT!StopNode,
                    WT!StopBrowser, WT!serverVars
<1>6. ASSUME NEW r \in WT!Requests, ClientActs(r) PROVE SlotsBounded'
  BY <1>2, <1>6 DEF ClientActs, WT!NodeRequest, WT!BrowserRequest, WT!SendOffer, WT!ReceiveAnswer,
                    WT!ChannelOpens, WT!Receive, WT!Verified, WT!RequestFails, WT!TimeOutSignaling, WT!serverVars
<1>7. ASSUME NEW r \in WT!Requests, ServerActs(r) PROVE SlotsBounded'
  BY <1>2, <1>3, <1>4, <1>7
     DEF ServerActs, WT!SendAnswer, WT!ReceiveRequest, WT!Respond, WT!SendChunk, WT!ReceiveReceipt,
         WT!UploadAborts, WT!ServeFails
<1>8. CASE UNCHANGED (WT!vars)
  BY <1>2, <1>8 DEF WT!vars, WT!serverVars
<1> QED
  BY <1>5, <1>6, <1>7, <1>8, TransferActs

\* What a request has received are chunks of the segment.
LEMMA ChunksTyped ==
  ASSUME Chunks \in Nat, NEW r \in WT!Requests, Answering(r)
  PROVE  got[r] \in Seq(1..Chunks) /\ sent[r] \in 0..Chunks
<1>1. sent[r] \in 0..Chunks
  BY DEF Answering
<1>2. ASSUME NEW j \in 0..(sent[r] + 1) PROVE FirstChunks(j - 1) \in Seq(1..Chunks)
  <2>1. CASE j = 0
    <3>1. FirstChunks(j - 1) = <<>>
      BY <2>1 DEF FirstChunks
    <3>2. <<>> \in Seq(1..Chunks)
      OBVIOUS
    <3> QED
      BY <3>1, <3>2, Zenon
  <2>2. CASE j # 0
    <3>1. j - 1 \in Nat /\ \A i \in 1..(j - 1) : i \in 1..Chunks
      BY <1>1, <2>2
    <3> QED
      BY <3>1 DEF FirstChunks
  <2> QED
    BY <2>1, <2>2
<1>3. CASE Refusing(r)
  BY <1>1, <1>3 DEF Refusing
<1>4. CASE Flowing(r)
  <2>1. PICK j \in 0..(sent[r] + 1) : got[r] = FirstChunks(j - 1)
    BY <1>4 DEF Flowing, Taken
  <2> QED
    BY <1>1, <1>2, <2>1
<1> QED
  BY <1>3, <1>4 DEF Answering

LEMMA TransferTyped ==
  ASSUME MaxUploads \in Nat, Chunks \in Nat, FlowInv, SlotsBounded
  PROVE  WT!TypeOK
<1>1. \A r \in WT!Requests : got[r] \in Seq(1..Chunks) /\ sent[r] \in 0..Chunks
  BY ChunksTyped DEF FlowInv
<1>2. slots \in [WT!Peers -> 0..MaxUploads]
  BY DEF FlowInv, SlotInv, SlotsBounded
<1> QED
  BY <1>1, <1>2 DEF WT!TypeOK, FlowInv, SlotInv, SignalInv, Typed

\* What each machine takes are its own steps: the session and the leases, too.
LEMMA SessionSteps ==
  ASSUME [MachineNext]_machineVars
  PROVE  [SessionNext]_sessionVars /\ [BL!Next]_(BL!leaseVars)
<1>1. ASSUME NEW m, Only(m)
      PROVE  (m = "TS" \/ UNCHANGED sessionVars) /\ (m = "BL" \/ UNCHANGED leaseVars)
  BY <1>1 DEF Only
<1>2. UNCHANGED machineVars => UNCHANGED sessionVars /\ UNCHANGED leaseVars
  BY DEF machineVars
<1>3. SessionStep => SessionNext /\ Only("TS")
  BY DEF SessionStep, SessionNext
<1>4. LeaseStep => BL!Next /\ Only("BL")
  BY DEF LeaseStep, BL!Next
<1>5. /\ FetchStep => Only("SF")
      /\ TransferStep => Only("WT")
      /\ RunStep => Only("PA")
      /\ ViewerStep => Only("PS")
      /\ LoadStep => Only("PL")
      /\ HubStep => Only("TH")
  BY DEF FetchStep, TransferStep, RunStep, ViewerStep, LoadStep, HubStep
<1>6. /\ StoreStep => Only("SQ")
      /\ TrustStep => Only("FR")
      /\ StreamStep => Only("HS")
  BY DEF StoreStep, TrustStep, StreamStep
<1>7. UNCHANGED leaseVars => UNCHANGED (BL!leaseVars)
  BY DEF leaseVars, BL!leaseVars
<1> QED
  BY <1>1, <1>2, <1>3, <1>4, <1>5, <1>6, <1>7 DEF MachineNext

\* What the hub and the store keep of their types, in the words of the machine.
LEMMA HubIsTyped ==
  ASSUME TH!ViewAssumption, TH!HubAssumption
  PROVE  TM!TypeInv => TH!TypeOK
<1>1. TM!TypeOK => TH!TypeOK
  BY Zenon DEF TM!TypeOK, TH!TypeOK, TM!Update, TH!Update, TM!NoUpdates, TH!NoUpdates
<1>2. TM!ViewAssumption /\ TM!HubAssumption
  BY SameHub
<1> QED
  BY <1>1, <1>2, TM!TypeInvTyped DEF TM!TypeInvTyped

LEMMA StoreIsTyped == SP!StoreInv /\ SP!RowsInv => SQ!TypeOK
<1>1. SP!TypeOK => SQ!TypeOK
  BY Zenon DEF SP!TypeOK, SQ!TypeOK, SP!Range, SQ!Range
<1> QED
  BY <1>1, SP!RowsAreTyped DEF SP!RowsAreTyped

\* The invariants of the machines that run in the model, from which their types follow.
PeerTypes == IInv /\ SessionTypeOK /\ FlowInv /\ SlotsBounded /\ RunInv /\ SchedulingInv
PluginTypes == PS!TypeOK /\ PL!TypeOK /\ LoadsInv
TrackerTypes == TM!TypeInv /\ SP!StoreInv /\ SP!RowsInv /\ TrustInv
OriginTypes == BL!TypeOK /\ StreamInv

LEMMA PeerTyped ==
  ASSUME TwoPeers, IsFiniteSet(WT!Requests), MaxUploads \in Nat, Chunks \in Nat \ {0},
         LastSegment \in Nat \ {0}, MaxAttempts \in Nat \ {0}, PlanAssumption
  PROVE  /\ MachineInit => PeerTypes
         /\ PeerTypes /\ [MachineNext]_machineVars => PeerTypes'
<1>1. MachineInit => IInv /\ SessionTypeOK /\ RunInv /\ FlowInv
  BY FlightsInit, InitTyped, RunInit, FlowInit DEF MachineInit
<1>2. MachineInit => SlotsBounded
  <2> SUFFICES ASSUME WT!Init PROVE SlotsBounded
    BY DEF MachineInit
  <2>1. slots = [p \in WT!Peers |-> 0]
    BY DEF WT!Init
  <2> QED
    BY <2>1 DEF SlotsBounded
<1>3. MachineInit => SchedulingInv
  BY SchedulingKept
<1>4. ASSUME PeerTypes, [MachineNext]_machineVars PROVE PeerTypes'
  <2>1. IInv' /\ SessionTypeOK'
    BY <1>4, FetcherSteps, FlightsNext, SessionSteps, TypePreserved DEF PeerTypes
  <2>2. RunInv' /\ SchedulingInv'
    BY <1>4, MachineSteps, RunKept, SchedulingKept DEF PeerTypes
  <2>3. FlowInv' /\ [WT!Next]_(WT!vars)
    BY <1>4, MachineSteps, FlowKept DEF PeerTypes
  <2>4. SlotsBounded'
    BY <1>4, <2>3, SlotsStayBounded DEF PeerTypes, FlowInv
  <2> QED
    BY <2>1, <2>2, <2>3, <2>4 DEF PeerTypes
<1> QED
  BY <1>1, <1>2, <1>3, <1>4 DEF PeerTypes

LEMMA PluginTyped ==
  ASSUME MaxAttach \in Nat, Parts \in Nat
  PROVE  /\ MachineInit => PluginTypes
         /\ PluginTypes /\ [MachineNext]_machineVars => PluginTypes'
<1>1. MachineInit => PluginTypes
  BY ViewerTyped, LoadsTyped, LoadsInit DEF MachineInit, PluginTypes
<1>2. ASSUME PluginTypes, [MachineNext]_machineVars PROVE PluginTypes'
  <2>1. [PS!Next]_(PS!vars) /\ [PL!Next]_(PL!vars)
    BY <1>2, MachineSteps
  <2> QED
    BY <1>2, <2>1, ViewerTyped, LoadsTyped, LoadsStep DEF PluginTypes
<1> QED
  BY <1>1, <1>2

LEMMA TrackerTypesKept ==
  ASSUME TH!ViewAssumption, TH!HubAssumption, Traffic \subseteq Nat, 0 \in Traffic, MaxSegments \in Nat, MaxCharacters \in Nat
  PROVE  /\ MachineInit => TrackerTypes
         /\ TrackerTypes /\ [MachineNext]_machineVars => TrackerTypes'
<1>0. TM!ViewAssumption /\ TM!HubAssumption
  BY SameHub
<1>1. MachineInit => TM!TypeInv
  BY <1>0, SameHub, TM!TypeInit DEF MachineInit, TM!TypeInit
<1>2. TM!TypeInv /\ [MachineNext]_machineVars => TM!TypeInv'
  BY <1>0, HubSteps, TM!TypeKept DEF TM!TypeKept
<1>3. MachineInit => SP!StoreInv /\ SP!RowsInv
  BY SameStore, SP!StoreStarts, SP!RowsStart DEF MachineInit, SP!RowsStart
<1>4. SP!StoreInv /\ SP!RowsInv /\ [MachineNext]_machineVars => SP!StoreInv' /\ SP!RowsInv'
  <2>1. [MachineNext]_machineVars => [SP!Next]_(SP!vars)
    <3>1. StoreStep => SQ!Next
      BY DEF StoreStep, Call, SQ!Next
    <3> QED
      BY <3>1, OneRuns, SameStore
  <2> QED
    BY <2>1, SP!StoreKeeps, SP!RowsStayTyped DEF SP!Kept
<1>5. MachineInit => TrustInv
  BY TrustInit DEF MachineInit
<1>6. TrustInv /\ [MachineNext]_machineVars => TrustInv'
  BY MachineSteps, TrustKept
<1> QED
  BY <1>1, <1>2, <1>3, <1>4, <1>5, <1>6 DEF TrackerTypes

LEMMA OriginTyped ==
  ASSUME Lease \in Nat, MaxOutages \in Nat, MaxRestarts \in Nat
  PROVE  /\ MachineInit => OriginTypes
         /\ OriginTypes /\ [MachineNext]_machineVars => OriginTypes'
<1>1. ASSUME MachineInit PROVE BL!TypeOK
  <2>1. CASE BL!Init
    BY <2>1, LeaseTyped
  <2>2. CASE /\ leaseOrigin = "gone" /\ loops = {} /\ stray = {}
             /\ record = Unlisted /\ up = TRUE /\ outages = 0
    BY <2>2 DEF BL!TypeOK
  <2> QED
    BY <1>1, <2>1, <2>2 DEF MachineInit
<1>2. MachineInit => StreamInv
  BY StreamInit DEF MachineInit
<1>3. ASSUME OriginTypes, [MachineNext]_machineVars PROVE OriginTypes'
  BY <1>3, SessionSteps, MachineSteps, LeaseTyped, StreamKept DEF OriginTypes
<1> QED
  BY <1>1, <1>2, <1>3 DEF OriginTypes

\* The values that the state of every machine may have, whatever interleaves in it:
\* among them that no peer serves more uploads than it has slots for
\* (webrtc-peer.ts), that run() tries no segment more often than it may
\* (client.ts), that the hub holds updates only while a timer runs for them
\* (websocket.ts) and that outside a group commit the store works on what is
\* committed (sqlite-store.ts).
THEOREM MachinesTypeCorrect ==
  ASSUME TwoPeers, IsFiniteSet(WT!Requests), MaxUploads \in Nat, Chunks \in Nat \ {0},
         LastSegment \in Nat \ {0}, MaxAttempts \in Nat \ {0}, PlanAssumption,
         MaxAttach \in Nat, Parts \in Nat, TH!ViewAssumption, TH!HubAssumption,
         Traffic \subseteq Nat, 0 \in Traffic, MaxSegments \in Nat, MaxCharacters \in Nat,
         Lease \in Nat, MaxOutages \in Nat, MaxRestarts \in Nat
  PROVE  SafeSpec => []MachineTypeOK
<1> DEFINE Inv == PeerTypes /\ PluginTypes /\ TrackerTypes /\ OriginTypes
<1>1. MachineInit => Inv
  BY PeerTyped, PluginTyped, TrackerTypesKept, OriginTyped
<1>2. Inv /\ [MachineNext]_machineVars => Inv'
  BY PeerTyped, PluginTyped, TrackerTypesKept, OriginTyped
<1>3. Inv => MachineTypeOK
  <2> SUFFICES ASSUME Inv PROVE MachineTypeOK
    OBVIOUS
  <2>1. TypeOK /\ SessionTypeOK /\ PA!TypeOK
    BY DEF PeerTypes, IInv, RunInv
  <2>2. WT!TypeOK
    BY TransferTyped DEF PeerTypes
  <2>3. machine = "SS" => SS!TypeOK
    BY PlansAreTyped DEF PeerTypes, SchedulingInv
  <2>4. PS!TypeOK /\ PL!TypeOK
    BY DEF PluginTypes
  <2>5. TH!TypeOK /\ SQ!TypeOK /\ FR!TypeOK
    BY HubIsTyped, StoreIsTyped DEF TrackerTypes, TrustInv
  <2>6. BL!TypeOK /\ HS!TypeOK
    BY DEF OriginTypes, StreamInv
  <2> QED
    BY <2>1, <2>2, <2>3, <2>4, <2>5, <2>6 DEF MachineTypeOK
<1> QED
  BY <1>1, <1>2, <1>3, PTL DEF SafeSpec
-----------------------------------------------------------------------------
(* What has stopped at the origin stays stopped.                            *)

\* How far stop() of the streamer has come, which begins when the server fails or
\* closes: from its beginning on nothing is scheduled; a start that it had to wait for is over when it signals ffmpeg, and
\* ffmpeg is gone when it waits for the hashes.
Halting ==
  /\ server \in {"starting", "binding", "serving"} => stop = "none"
  /\ stop # "none" => stopping /\ ~restart
  /\ stop \in {"exiting", "hashing", "done", "rejected"} => start = "none"
  /\ stop \in {"hashing", "done", "rejected"} => child = "none"
  /\ child = "terminating" <=> stop = "exiting"
  /\ server = "stopped" => stop \in {"done", "rejected"}

HaltInv == StreamInv /\ Halting

StoppedIsDark == server = "stopped" => HS!Silent

\* An exit schedules nothing when stop() has begun.
LEMMA ExitHalts ==
  ASSUME Supervised, HS!Exits \/ HS!Killed
  PROVE  child' = "none" /\ (stopping => UNCHANGED restart)
<1>1. PICK bySigterm \in BOOLEAN : HS!ChildExits(bySigterm)
  BY DEF HS!Exits, HS!Killed
<1>2. child' = "none" /\ (UNCHANGED <<restart, streamAttempts>> \/ HS!Schedule(stopping))
  BY <1>1, ExitForms DEF Supervised
<1> QED
  BY <1>2, ScheduleForms DEF Supervised

LEMMA HaltKept ==
  ASSUME MaxRestarts \in Nat, HaltInv, [HS!Next]_(HS!streamVars)
  PROVE  HaltInv'
<1> USE DEF HaltInv, HS!procVars, HS!hashVars
<1>0. StreamInv' /\ Supervised /\ HS!TypeOK
  BY StreamKept DEF StreamInv
<1>1. ASSUME UNCHANGED <<server, stop, stopping, restart, start, child>> PROVE Halting'
  BY <1>1 DEF Halting
<1>2. CASE HS!Prepared
  BY <1>0, <1>2 DEF HS!Prepared, Halting, Supervised
<1>3. CASE HS!Spawned
  BY <1>0, <1>3 DEF HS!Spawned, Halting, Supervised
<1>4. CASE HS!StartFails
  <2>1. stopping => UNCHANGED restart
    BY <1>0, <1>4, ScheduleForms DEF HS!StartFails, Supervised
  <2> QED
    BY <1>0, <1>4, <2>1 DEF HS!StartFails, Halting, Supervised, HS!TypeOK
<1>5. CASE HS!RestartFires
  BY <1>0, <1>5 DEF HS!RestartFires, Halting, Supervised
<1>6. CASE HS!Exits
  <2>1. child' = "none" /\ (stopping => UNCHANGED restart)
    BY <1>0, <1>6, ExitHalts
  <2>2. child = "running" /\ UNCHANGED <<server, start, stop, stopping>>
    BY <1>6 DEF HS!Exits
  <2> QED
    BY <1>0, <2>1, <2>2 DEF Halting, Supervised
<1>7. CASE HS!Bind
  BY <1>0, <1>7 DEF HS!Bind, HS!CallStop, Halting, Supervised
<1>8. CASE HS!Close
  BY <1>0, <1>8 DEF HS!Close, HS!CallStop, Halting, Supervised
<1>9. CASE HS!StopChild
  BY <1>0, <1>9 DEF HS!StopChild, Halting, Supervised, HS!TypeOK
<1>10. CASE HS!Killed
  <2>1. child' = "none" /\ (stopping => UNCHANGED restart)
    BY <1>0, <1>10, ExitHalts
  <2>2. child = "terminating" /\ stop' = "hashing" /\ UNCHANGED <<server, start, stopping>>
    BY <1>10 DEF HS!Killed
  <2> QED
    BY <1>0, <2>1, <2>2 DEF Halting, Supervised
<1>11. CASE HS!StopDone \/ HS!Closed \/ HS!Terminate
  BY <1>0, <1>11 DEF HS!StopDone, HS!Closed, HS!Terminate, Halting
<1>12. CASE \/ HS!Write \/ HS!Publish \/ HS!IntervalFires \/ HS!RequestHash
            \/ \E hash \in HS!Hashes : HS!HashEnds(hash)
  BY <1>0, <1>1, <1>12 DEF HS!Write, HS!Publish, HS!IntervalFires, HS!RequestHash, HS!HashEnds
<1>13. CASE UNCHANGED (HS!streamVars)
  BY <1>0, <1>1, <1>13 DEF HS!streamVars
<1> QED
  BY <1>0, <1>2, <1>3, <1>4, <1>5, <1>6, <1>7, <1>8, <1>9, <1>10, <1>11, <1>12, <1>13 DEF HS!Next

\* When stop() of OriginServer has ended, ffmpeg is gone and nobody is going to
\* start it: not the back-off, not a start that was under way when stop() came,
\* not an exit that is noticed late, and not a start that failed (streamer.ts,
\* scheduleRestart and stopOnce; server.ts, stop).
THEOREM StoppedStreamIsDark ==
  ASSUME MaxRestarts \in Nat
  PROVE  SafeSpec => []StoppedIsDark
<1>1. MachineInit => HaltInv
  BY StreamInit DEF MachineInit, HaltInv, Halting, HS!Init
<1>2. HaltInv /\ [MachineNext]_machineVars => HaltInv'
  BY MachineSteps, HaltKept
<1>3. HaltInv => StoppedIsDark
  BY DEF HaltInv, Halting, StoppedIsDark, HS!Silent
<1> QED
  BY <1>1, <1>2, <1>3, PTL DEF SafeSpec

\* No more than n intervals are left of the lease that the tracker knows, and of
\* any that is still on its way to it.
AtMost(n) ==
  /\ record # Unlisted => record <= n
  /\ \A left \in stray : left <= n

\* The tracker does not know the broadcast and will not hear of it.
Forgotten == record = Unlisted /\ stray = {}

LeaseShrinks ==
  leaseOrigin = "gone" =>
    /\ leaseOrigin' = "gone"
    /\ \A n \in BL!Left : AtMost(n) => AtMost(n)' /\ (BL!Tick => AtMost(BL!Aged(n))')
    /\ Forgotten => Forgotten'
LeaseRunsOut == [][LeaseShrinks]_(BL!leaseVars)

LEMMA LeaseGoesDown ==
  ASSUME Lease \in Nat, BL!TypeOK, [BL!Next]_(BL!leaseVars)
  PROVE  [LeaseShrinks]_(BL!leaseVars)
<1> SUFFICES ASSUME BL!Next, leaseOrigin = "gone" PROVE LeaseShrinks
  BY DEF LeaseShrinks
<1>0. leaseOrigin' = "gone" /\ stray \subseteq Nat /\ (record = Unlisted \/ record \in Nat)
  BY DEF BL!Next, BL!TypeOK, BL!Left, BL!Started, BL!Shutdown, BL!Unregistered, BL!Stopped, BL!Crash,
         BL!Tick, BL!Sweep, BL!GoesDown, BL!ComesUp, BL!Answered, BL!Sending, BL!TimedOut, BL!Rejected,
         BL!StrayArrives
<1>1. CASE BL!Tick
  <2>1. ASSUME NEW n \in BL!Left, AtMost(n) PROVE AtMost(n)' /\ AtMost(BL!Aged(n))'
    <3>1. /\ record' = IF record = Unlisted THEN Unlisted ELSE BL!Aged(record)
          /\ stray' = {BL!Aged(left) : left \in stray}
      BY <1>1 DEF BL!Tick
    <3>2. n \in Nat
      BY DEF BL!Left
    <3>3. \A m \in Nat : m <= n => BL!Aged(m) <= n /\ BL!Aged(m) <= BL!Aged(n)
      BY <3>2 DEF BL!Aged
    <3>4. ASSUME record' # Unlisted PROVE record' <= n /\ record' <= BL!Aged(n)
      BY <1>0, <2>1, <3>1, <3>3, <3>4 DEF AtMost
    <3>5. \A left \in stray' : left <= n /\ left <= BL!Aged(n)
      BY <1>0, <2>1, <3>1, <3>3 DEF AtMost
    <3> QED
      BY <3>4, <3>5 DEF AtMost
  <2>2. Forgotten => Forgotten'
    BY <1>1 DEF BL!Tick, Forgotten
  <2> QED
    BY <1>0, <2>1, <2>2 DEF LeaseShrinks
<1>2. CASE ~BL!Tick
  <2>1. /\ stray' \subseteq stray
        /\ record' \in {record, Unlisted} \cup stray
    BY <1>2 DEF BL!Next, BL!Started, BL!Shutdown, BL!Unregistered, BL!Stopped, BL!Crash,
         BL!Sweep, BL!GoesDown, BL!ComesUp, BL!Answered, BL!Sending, BL!TimedOut, BL!Rejected,
         BL!StrayArrives
  <2>2. ASSUME NEW n \in BL!Left, AtMost(n) PROVE AtMost(n)'
    BY <2>1, <2>2 DEF AtMost
  <2>3. Forgotten => Forgotten'
    BY <2>1 DEF Forgotten
  <2> QED
    BY <1>0, <1>2, <2>2, <2>3 DEF LeaseShrinks
<1> QED
  BY <1>1, <1>2

\* Once the origin is gone, by a shutdown or a crash, nothing it sent before
\* prolongs its broadcast: what is left of the lease, also of registrations that
\* arrive late, does not grow and goes with every interval, and a broadcast
\* that is forgotten with nothing under way stays forgotten (origin server.ts,
\* registerBroadcast and unregisterBroadcasts; tracker server.ts,
\* removeStalePeers).
THEOREM GoneOriginsAreForgotten ==
  ASSUME Lease \in Nat, MaxOutages \in Nat, MaxRestarts \in Nat
  PROVE  SafeSpec => LeaseRunsOut
<1>1. MachineInit => OriginTypes
  BY OriginTyped
<1>2. OriginTypes /\ [MachineNext]_machineVars => OriginTypes' /\ [LeaseShrinks]_(BL!leaseVars)
  BY OriginTyped, SessionSteps, LeaseGoesDown DEF OriginTypes
<1> QED
  BY <1>1, <1>2, PTL DEF SafeSpec, LeaseRunsOut
=============================================================================
