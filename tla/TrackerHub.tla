----------------------------- MODULE TrackerHub -----------------------------
(***************************************************************************)
(* The tracker of one broadcast: the peers and inventories of its store    *)
(* (tracker/src/store.ts), the routes that change them (server.ts) and the *)
(* WebSocket hub that tells the subscribers (websocket.ts).                *)
(*                                                                         *)
(* A WebSocket is ordered, so what matters of the messages sent on it is   *)
(* what a client (peer/src/tracker.ts) makes of all of them: mirror[k].    *)
(*                                                                         *)
(* Node runs a handler to its end.  Removing peers is the one handler that *)
(* loops over nondeterministic steps; it is spread over RemovePeers,       *)
(* PeerLeft and Refill, and nothing else happens before it is done (Idle). *)
(*                                                                         *)
(* Not modelled: the limit on a peer's inventory (limitInventory drops the *)
(* oldest of 10000 names), rate limits, and messages a client cannot read. *)
(***************************************************************************)
EXTENDS NeighborViews

CONSTANTS
  Segments,
  Sockets,        \* WebSocket connections
  Owner,          \* the peer whose session each connection carries
  Modes,          \* how clients subscribe: immediate, batched, viewer
  ReportKinds,    \* how peers report: delta, list, rest
  ViewersPerTurn, \* TrackerWebSocketOptions.viewersPerFlushTurn
  MayRejoin,      \* bound: a peer that left may join again
  Unknown,        \* a client has no entry for a peer
  NoUpdate        \* no pending inventory for a peer

ASSUME HubAssumption ==
  /\ Owner \in [Sockets -> Peers]
  /\ Modes \subseteq {"immediate", "batched", "viewer"}
  /\ ReportKinds \subseteq {"delta", "list", "rest"}
  /\ ViewersPerTurn \in Nat \ {0}
  /\ MayRejoin \in BOOLEAN
  /\ \A S \in SUBSET Segments : Unknown # S

VARIABLES
  members,   \* peers in the store
  inv,       \* Peer.segments in the store
  mode,      \* how each socket is subscribed, "none" if it is not
  mirror,    \* TrackerClient.peers of each client: a set of segments or Unknown
  pending,   \* pendingInventory.updates
  timer,     \* pendingInventory: none, armed, or due (its timer fired in vain)
  flushing,  \* a flush is still sending to viewers
  requested, \* flushRequested
  updates,   \* what that flush sends
  queue,     \* viewers it has yet to serve
  current,   \* its BroadcastSubscribers object is still the broadcast's
  departing, \* peers removed from the store whose peerLeft is to come
  refill,    \* watchers of the last peerLeft whose view is to be topped up
  former,    \* peers that left, if they may not join again
  reported,  \* history: what each peer reported since it last joined
  attached   \* history: the peer has not left since the socket subscribed

storeVars  == <<members, inv, former, reported>>
batchVars  == <<pending, timer>>
flushVars  == <<flushing, requested, updates, queue, current>>
turnVars   == <<departing, refill>>
vars == <<viewVars, storeVars, batchVars, flushVars, turnVars, mode, mirror, attached>>

Update == [replace : BOOLEAN, added : SUBSET Segments, removed : SUBSET Segments]
NoUpdates == [p \in Peers |-> NoUpdate]

InMode(m)  == {k \in Sockets : mode[k] = m}
Audience   == Sockets \ InMode("none")
ViewerIds  == {Owner[k] : k \in InMode("viewer")}
Idle       == departing = {} /\ refill = {}

Init ==
  /\ ViewsInit
  /\ members = {}
  /\ inv = [p \in Peers |-> {}]
  /\ mode = [k \in Sockets |-> "none"]
  /\ mirror = [k \in Sockets |-> [p \in Peers |-> Unknown]]
  /\ pending = NoUpdates
  /\ timer = "none"
  /\ flushing = FALSE
  /\ requested = FALSE
  /\ updates = NoUpdates
  /\ queue = {}
  /\ current = FALSE
  /\ departing = {}
  /\ refill = {}
  /\ former = {}
  /\ reported = [p \in Peers |-> {}]
  /\ attached = [k \in Sockets |-> FALSE]

-----------------------------------------------------------------------------
(* Clients *)

\* replaceInventory and applyInventoryDelta: removals, then additions.
Applied(known, u) ==
  IF known = Unknown \/ u = NoUpdate THEN known
  ELSE IF u.replace THEN u.added
  ELSE (known \ u.removed) \cup u.added

\* A mutant of Tell: clients with inventory_batch are forgotten.
TellImmediate(K, p, S, mir) ==
  [k \in Sockets |->
     IF k \in K \ InMode("batched") /\ Owner[k] # p
     THEN [mir[k] EXCEPT ![p] = S] ELSE mir[k]]

\* The clients of K are told of p with the inventory S, or that p left.  What
\* a client hears of its own peer is not part of its mirror.
Tell(K, p, S, mir) ==
  [k \in Sockets |->
     IF k \in K /\ Owner[k] # p THEN [mir[k] EXCEPT ![p] = S] ELSE mir[k]]

\* A mutant of Announce: evicted links are not announced.
AnnounceAdditions(p, A, E, present, mir) ==
  [k \in Sockets |-> [q \in Peers |->
     IF /\ mode[k] = "viewer" /\ q \in present
        /\ (Owner[k] = p /\ q \in A) \/ (Owner[k] \in Reciprocal(p, A) /\ q = p)
     THEN inv[q] ELSE mir[k][q]]]

\* announceFill(p): viewers hear of the peers that entered or left their view.
\* A peer that `present` lacks is not found in the store and not announced.
Announce(p, A, E, present, mir) ==
  [k \in Sockets |->
     IF mode[k] # "viewer" THEN mir[k]
     ELSE [q \in Peers |->
       CASE <<Owner[k], q>> \in E -> Unknown
         [] /\ \/ Owner[k] = p /\ q \in A
               \/ Owner[k] \in Reciprocal(p, A) /\ q = p
            /\ q \in present -> inv[q]
         [] OTHER -> mir[k][q]]]

-----------------------------------------------------------------------------
(* Peers join and leave *)

\* seededViews, then add.
Seeded(p, present) == (IF registered = {} THEN present ELSE registered) \cup {p}

\* POST .../peers by a peer the store does not have.
Join(p) ==
  /\ Idle
  /\ p \notin members \cup former
  /\ members' = members \cup {p}
  /\ reported' = [reported EXCEPT ![p] = {}]
  /\ LET known == Seeded(p, members')
     IN \E A \in Additions(p, known) : \E E \in Evictions(p, A) :
          /\ Relink(p, known, A, E)
          /\ mirror' = Announce(p, A, E, members',
                         Tell(InMode("immediate") \cup InMode("batched"), p, {}, mirror))
  /\ UNCHANGED <<inv, former, batchVars, flushVars, turnVars, mode, attached>>

\* DELETE .../peers/:id removes one peer, removeStalePeers any number.
RemovePeers(S) ==
  /\ Idle
  /\ members' = members \ S
  /\ inv' = [p \in Peers |-> IF p \in S THEN {} ELSE inv[p]]
  /\ departing' = S
  /\ former' = IF MayRejoin THEN {} ELSE former \cup S
  /\ UNCHANGED <<reported, viewVars, batchVars, flushVars, refill, mode, mirror, attached>>

WithoutUpdatesOf(p) == [pending EXCEPT ![p] = NoUpdate]

\* peerLeft(p), up to its loop over the watchers.
PeerLeft(p) ==
  /\ refill = {}
  /\ p \in departing
  /\ departing' = departing \ {p}
  /\ pending' = WithoutUpdatesOf(p)
  /\ attached' = [k \in Sockets |-> attached[k] /\ Owner[k] # p]
  /\ LET lost == IF p \in registered THEN Watchers(p) ELSE {}
     IN  /\ refill' = lost
         /\ mirror' = Tell(InMode("immediate") \cup InMode("batched")
                             \cup {k \in InMode("viewer") : Owner[k] \in lost},
                           p, Unknown, mirror)
  /\ IF p \in registered THEN Leave(p) ELSE UNCHANGED viewVars
  /\ UNCHANGED <<storeVars, timer, flushVars, mode>>

\* One turn of that loop.
Refill(w) ==
  /\ w \in refill
  /\ refill' = refill \ {w}
  /\ \E A \in Additions(w, registered) : \E E \in Evictions(w, A) :
       /\ Relink(w, registered, A, E)
       /\ mirror' = Announce(w, A, E, members, mirror)
  /\ UNCHANGED <<storeVars, batchVars, flushVars, departing, mode, attached>>

-----------------------------------------------------------------------------
(* Reports.  A published update goes to immediate clients at once and is    *)
(* merged into the pending batch for the others.                            *)

\* A mutant of Merge: opposite changes do not cancel.
MergeAll(u, v) ==
  IF v.replace \/ u = NoUpdate THEN v
  ELSE [u EXCEPT !.added = @ \cup v.added, !.removed = @ \cup v.removed]

Merge(u, v) ==
  IF v.replace THEN v
  ELSE IF u = NoUpdate THEN [v EXCEPT !.removed = @ \ v.added]
  ELSE [replace |-> u.replace,
        added   |-> (u.added \ v.removed) \cup v.added,
        removed |-> IF u.replace THEN {} ELSE (u.removed \cup v.removed) \ v.added]

Publish(p, u) ==
  /\ mirror' = [k \in Sockets |->
       IF mode[k] = "immediate" /\ Owner[k] # p
       THEN [mirror[k] EXCEPT ![p] = Applied(@, u)] ELSE mirror[k]]
  /\ IF InMode("batched") \cup InMode("viewer") = {} THEN UNCHANGED batchVars
     ELSE /\ pending' = [pending EXCEPT ![p] = Merge(@, u)]
          /\ timer' = IF timer = "none" THEN "armed" ELSE timer

\* applySegmentDelta, and reportSegments with replace unset.
Stored(p, u) ==
  /\ inv' = [inv EXCEPT ![p] = Applied(@, u)]
  /\ reported' = [reported EXCEPT ![p] = @ \cup u.added]
  /\ UNCHANGED <<members, former>>

\* report_segments on a socket, as a delta or as a list.
Report(k, u) ==
  /\ Idle
  /\ mode[k] # "none" /\ Owner[k] \in members
  /\ \/ /\ "delta" \in ReportKinds /\ ~u.replace
        /\ u.added \cap u.removed = {} /\ u.added \cup u.removed # {}
     \/ /\ "list" \in ReportKinds /\ u.removed = {}
        /\ u.replace => inv[Owner[k]] # u.added
  /\ Stored(Owner[k], u)
  /\ Publish(Owner[k], u)
  /\ UNCHANGED <<viewVars, flushVars, turnVars, mode, attached>>

\* POST .../segments: TrackerServer publishes every report with replace set.
ReportRest(p, u) ==
  /\ Idle
  /\ "rest" \in ReportKinds
  /\ p \in members
  /\ u.removed = {}
  /\ Stored(p, u)
  /\ Publish(p, [u EXCEPT !.replace = TRUE])
  /\ UNCHANGED <<viewVars, flushVars, turnVars, mode, attached>>

-----------------------------------------------------------------------------
(* Flushing a batch *)

\* The viewers that one event-loop turn serves.
Turns(V) ==
  {now \in SUBSET V : \/ Cardinality(now) = ViewersPerTurn
                      \/ now = V /\ Cardinality(V) < ViewersPerTurn}

\* Sockets K are sent the updates of the peers their owners see in `sight`.
SentTo(K, ups, sight, mir) ==
  [k \in Sockets |->
     [q \in Peers |-> IF k \in K /\ <<Owner[k], q>> \in sight
                      THEN Applied(mir[k][q], ups[q])
                      ELSE mir[k][q]]]

\* A viewer gets the updates of the peers in its view at this moment.
SentToViewers(V, ups, mir) ==
  SentTo({k \in InMode("viewer") : Owner[k] \in V}, ups, sees, mir)

\* A batched client gets everybody's updates but its own.
SentToBatched(ups, mir) ==
  SentTo(InMode("batched"), ups, {x \in Peers \X Peers : x[1] # x[2]}, mir)

EndFlush ==
  /\ flushing' = FALSE
  /\ updates' = NoUpdates
  /\ queue' = {}
  /\ current' = FALSE

\* flushInventory when no flush is running; mir is what clients know so far.
Flush(mir) ==
  /\ pending' = NoUpdates
  /\ timer' = "none"
  /\ requested' = FALSE
  /\ LET batched == SentToBatched(pending, mir)
     IN  IF pending = NoUpdates \/ Audience = {}
         THEN mirror' = mir /\ EndFlush
         ELSE \E now \in Turns(ViewerIds) :
                /\ mirror' = SentToViewers(now, pending, batched)
                /\ IF now = ViewerIds THEN EndFlush
                   ELSE /\ flushing' = TRUE
                        /\ updates' = pending
                        /\ queue' = ViewerIds \ now
                        /\ current' = TRUE

\* The batch timer fires: flush, or wait for the running flush.
FlushTimer ==
  /\ Idle
  /\ timer = "armed"
  /\ IF flushing
     THEN /\ timer' = "due"
          /\ requested' = TRUE
          /\ UNCHANGED <<pending, mirror, flushing, updates, queue, current>>
     ELSE Flush(mirror)
  /\ UNCHANGED <<storeVars, viewVars, turnVars, mode, attached>>

\* The flush is over: start the one that was requested meanwhile.
FlushOver(mir) ==
  IF requested THEN Flush(mir)
  ELSE mirror' = mir /\ EndFlush /\ UNCHANGED <<batchVars, requested>>

\* setImmediate: the next slice of viewers.
Slice ==
  /\ Idle
  /\ flushing
  /\ IF ~current THEN FlushOver(mirror)
     ELSE \E now \in Turns(queue) :
            IF now = queue
            THEN FlushOver(SentToViewers(now, updates, mirror))
            ELSE /\ mirror' = SentToViewers(now, updates, mirror)
                 /\ queue' = queue \ now
                 /\ UNCHANGED <<batchVars, flushing, requested, updates, current>>
  /\ UNCHANGED <<storeVars, viewVars, turnVars, mode, attached>>

-----------------------------------------------------------------------------
(* Subscriptions *)

\* unindexSubscription: an empty BroadcastSubscribers is deleted, and the next
\* subscriber gets a new one.
StillCurrent(k) == current /\ Audience \ {k} # {}

\* What a peer_list with these peers makes a client know.
Listed(k, S) == [q \in Peers |-> IF q \in S \ {Owner[k]} THEN inv[q] ELSE Unknown]

\* subscribe, with or without the features inventory_batch and neighbor_view.
Subscribe(k, m) ==
  /\ Idle
  /\ Owner[k] \in members
  /\ m \in Modes
  /\ mode' = [mode EXCEPT ![k] = m]
  /\ attached' = [attached EXCEPT ![k] = TRUE]
  /\ current' = StillCurrent(k)
  /\ IF m # "viewer"
     THEN /\ mirror' = [mirror EXCEPT ![k] = Listed(k, members)]
          /\ UNCHANGED viewVars
     ELSE LET p     == Owner[k]
              known == Seeded(p, members)
          IN \E A \in Additions(p, known) : \E E \in Evictions(p, A) :
               /\ Relink(p, known, A, E)
               /\ mirror' = [Announce(p, A, E, members, mirror) EXCEPT
                               ![k] = Listed(k, (View(p) \cup A) \cap members)]
  /\ UNCHANGED <<storeVars, batchVars, flushing, requested, updates, queue, turnVars>>

\* The connection closes: the client goes, or the tracker refuses a message.
Close(k) ==
  /\ Idle
  /\ mode[k] # "none"
  /\ mode' = [mode EXCEPT ![k] = "none"]
  /\ mirror' = [mirror EXCEPT ![k] = [p \in Peers |-> Unknown]]
  /\ attached' = [attached EXCEPT ![k] = FALSE]
  /\ current' = StillCurrent(k)
  /\ UNCHANGED <<storeVars, viewVars, batchVars, flushing, requested, updates, queue, turnVars>>

Disconnected ==
  /\ mode' = [k \in Sockets |-> "none"]
  /\ mirror' = [k \in Sockets |-> [p \in Peers |-> Unknown]]
  /\ attached' = [k \in Sockets |-> FALSE]
  /\ pending' = NoUpdates
  /\ timer' = "none"
  /\ ForgetViews

\* DELETE /broadcasts/:id, or its lease expires.  The ID may be used again.
RemoveBroadcast ==
  /\ Idle
  /\ members # {}
  /\ members' = {}
  /\ inv' = [p \in Peers |-> {}]
  /\ Disconnected
  /\ current' = FALSE
  /\ UNCHANGED <<former, reported, flushing, requested, updates, queue, turnVars>>

\* The tracker restarts; the peers are in its SQLite store.
Restart ==
  /\ Idle
  /\ members # {}
  /\ Disconnected
  /\ requested' = FALSE
  /\ EndFlush
  /\ UNCHANGED <<storeVars, turnVars>>

Turn ==
  \/ \E p \in departing : PeerLeft(p)
  \/ \E w \in refill : Refill(w)

\* All but the reports over REST, of which the hub says more than it should: see
\* ReplaceIsFull.
SocketNext ==
  \/ \E p \in Peers : Join(p)
  \/ \E S \in SUBSET members \ {{}} : RemovePeers(S)
  \/ Turn
  \/ \E k \in Sockets, u \in Update : Report(k, u)
  \/ FlushTimer \/ Slice
  \/ \E k \in Sockets, m \in Modes : Subscribe(k, m)
  \/ \E k \in Sockets : Close(k)
  \/ RemoveBroadcast \/ Restart

Next == SocketNext \/ \E p \in Peers, u \in Update : ReportRest(p, u)

\* Handlers run to their end; due timers and immediates get their turn, however
\* often other handlers run first.
Fairness == WF_vars(Turn) /\ SF_vars(FlushTimer) /\ SF_vars(Slice)

Spec == Init /\ [][Next]_vars /\ Fairness

SocketSpec == Init /\ [][SocketNext]_vars /\ Fairness

-----------------------------------------------------------------------------
(* Properties *)

\* The types, and what goes together: updates are pending only while a timer
\* runs for them (else no flush ever sends them), and a flush that is over has
\* left nothing behind for the next one (flushInventory, sendViewerBatches).
TypeOK ==
  /\ registered \subseteq Peers
  /\ sees \subseteq Peers \X Peers /\ seenBy \subseteq Peers \X Peers
  /\ members \subseteq Peers
  /\ inv \in [Peers -> SUBSET Segments]
  /\ mode \in [Sockets -> {"none", "immediate", "batched", "viewer"}]
  /\ mirror \in [Sockets -> [Peers -> {Unknown} \cup SUBSET Segments]]
  /\ pending \in [Peers -> {NoUpdate} \cup Update]
  /\ timer \in {"none", "armed", "due"}
  /\ flushing \in BOOLEAN /\ requested \in BOOLEAN /\ current \in BOOLEAN
  /\ updates \in [Peers -> {NoUpdate} \cup Update]
  /\ queue \subseteq Peers
  /\ departing \subseteq Peers /\ refill \subseteq Peers
  /\ former \subseteq Peers
  /\ reported \in [Peers -> SUBSET Segments]
  /\ attached \in [Sockets -> BOOLEAN]
  /\ timer = "none" => pending = NoUpdates
  /\ ~flushing => ~requested /\ ~current /\ queue = {} /\ updates = NoUpdates
  /\ current => queue # {}

Known(k) == {q \in Peers : mirror[k][q] # Unknown}
Viewing  == {k \in InMode("viewer") : attached[k]}

\* API_REFERENCE.md:320-328: however the audience churns, the view of a
\* subscribed peer is full, and an audience no larger than the view is seen
\* whole.
ViewsFull ==
  Idle => \A k \in Viewing :
    \/ Cardinality(View(Owner[k])) = ViewSize
    \/ View(Owner[k]) = registered \ {Owner[k]}

\* Clients know exactly the peers they are to see: the members of the
\* broadcast or the neighbors in their view, after any sequence of joins,
\* departures, evictions, seedings and subscriptions.
MembershipMirrored ==
  Idle => /\ \A k \in Viewing : Known(k) = View(Owner[k])
          /\ \A k \in InMode("immediate") \cup InMode("batched") :
               Known(k) = members \ {Owner[k]}

\* Once nothing is pending, a client with inventory_batch has them too, although
\* batches merge and replace updates, overtake the snapshots of peer_list and
\* peer_joined, and are cut in slices between which views change.
InventoriesMirrored ==
  Idle /\ timer = "none" /\ ~flushing =>
    \A k \in InMode("batched") \cup Viewing : \A q \in Known(k) : mirror[k][q] = inv[q]

\* API_REFERENCE.md:353, a batch holds the "net inventory changes since the
\* last batch": on top of them the inventories of the store are up to date.
PendingIsNet ==
  \A p \in members : Applied(inv[p], pending[p]) = inv[p]

\* API_REFERENCE.md:351, "`replace` means it is the full inventory".
ReplaceIsFull ==
  \A p \in members : pending[p] # NoUpdate /\ pending[p].replace => pending[p].added = inv[p]

\* API_REFERENCE.md:358-360, "Updates from a peer that left before the batch
\* was sent are dropped, so `peer_left` is never followed by a stale update":
\* clients list for a peer only what it reported since it last joined.
NothingResurrected ==
  Idle => \A k \in InMode("immediate") \cup InMode("batched") \cup Viewing :
    \A q \in Known(k) : mirror[k][q] \subseteq reported[q]
=============================================================================
