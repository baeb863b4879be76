---------------------------- MODULE TrackerStore ----------------------------
(***************************************************************************)
(* What a tracker store promises to the HTTP and WebSocket services: the   *)
(* operations of TrackerStoreBackend, each one atomic, over broadcasts,    *)
(* their peers and the traffic of the peers that left.  An operation whose *)
(* guard is false here throws a StoreError and changes nothing.  The store *)
(* in memory (store.ts) is this module with nothing durable; SqliteStore   *)
(* is shown to implement it, failing statements and crashes included.      *)
(***************************************************************************)
EXTENDS Naturals, FiniteSets, FiniteSetsExt

CONSTANTS Broadcast, Peer, Segment,
          MaxPeers,        \* the peers a broadcast may have
          MaxSegments,     \* the segments an inventory may have
          MaxCharacters,   \* the characters their names may have in all
          Length,          \* the characters of a segment's name
          Traffic,         \* the values of a peer's traffic counter
          Quality          \* the values of a peer's quality

VARIABLES db,              \* what the callers of the store see
          durable          \* what a crash of the tracker keeps

storeVars == <<db, durable>>

Put(f, x, v) == [y \in DOMAIN f \cup {x} |-> IF y = x THEN v ELSE f[y]]
Drop(f, S) == [y \in DOMAIN f \ S |-> f[y]]

EmptyDb == [b \in {} |-> {}]
NewBroadcast == [peers |-> [p \in {} |-> {}], retired |-> 0]
NewPeer == [segments |-> {}, traffic |-> 0, quality |-> Max(Quality), seen |-> TRUE]

Member(b, p) == b \in DOMAIN db /\ p \in DOMAIN db[b].peers

\* What one inventory may list; each character is an element, so that their
\* number is a cardinality.
InventoryFits(S) ==
  /\ Cardinality(S) <= MaxSegments
  /\ Cardinality(UNION {{s} \X (1..Length[s]) : s \in S}) <= MaxCharacters

\* limitInventory gives up segments only if one more would not fit; which ones
\* is the order the implementation keeps them in.
Limited(S) ==
  {T \in SUBSET S : /\ InventoryFits(T)
                    /\ T # S => \E s \in S \ T : ~InventoryFits(T \cup {s})}

\* The traffic of the peers S: each unit of it is an element, so that the sum is
\* a cardinality.
Carried(broadcast, S) ==
  Cardinality(UNION {{p} \X (1..broadcast.peers[p].traffic) : p \in S})

\* The peers S leave a broadcast: their traffic stays in its totals.
Retired(broadcast, S) ==
  [peers |-> Drop(broadcast.peers, S),
   retired |-> broadcast.retired + Carried(broadcast, S)]

Stale(broadcast) == {p \in DOMAIN broadcast.peers : ~broadcast.peers[p].seen}

\* The row of a member is rewritten; every operation of a peer says it was seen.
Rewritten(b, p, row) == [db EXCEPT ![b].peers[p] = [row EXCEPT !.seen = TRUE]]
----
StoreInit == db = EmptyDb /\ durable = EmptyDb

\* An operation takes effect for its callers at once; it may be durable then,
\* or become so later.
Becomes(next) == db' = next /\ durable' \in {durable, next}

RegisterBroadcast(b) == b \notin DOMAIN db /\ Becomes(Put(db, b, NewBroadcast))

UnregisterBroadcast(b) == b \in DOMAIN db /\ Becomes(Drop(db, {b}))

\* Only a new peer counts against the limit; one that joins again keeps what
\* the store knows of it.
JoinPeer(b, p) ==
  /\ b \in DOMAIN db
  /\ \/ Member(b, p) /\ Becomes(Rewritten(b, p, db[b].peers[p]))
     \/ /\ ~Member(b, p) /\ Cardinality(DOMAIN db[b].peers) < MaxPeers
        /\ Becomes([db EXCEPT ![b].peers = Put(@, p, NewPeer)])

LeavePeer(b, p) == Member(b, p) /\ Becomes([db EXCEPT ![b] = Retired(@, {p})])

\* reportSegments, with and without replace, and applySegmentDelta: any
\* inventory can be what there was, less some segments, with some others.
ReportSegments(b, p) ==
  /\ Member(b, p)
  /\ \E wanted \in SUBSET Segment :
       \E kept \in Limited(wanted) :
         Becomes(Rewritten(b, p, [db[b].peers[p] EXCEPT !.segments = kept]))

Heartbeat(b, p) ==
  /\ Member(b, p)
  /\ \E q \in Quality :
       Becomes(Rewritten(b, p, [db[b].peers[p] EXCEPT !.quality = q]))

ReportStats(b, p) ==
  /\ Member(b, p)
  /\ \E n \in Traffic :
       Becomes(Rewritten(b, p, [db[b].peers[p] EXCEPT !.traffic = n]))

\* The penalty of a failure report that reached the quorum (FailureReports);
\* it does not say that the peer was seen.
Penalize(b, p) ==
  /\ Member(b, p)
  /\ \E q \in Quality : /\ q < db[b].peers[p].quality
                        /\ Becomes([db EXCEPT ![b].peers[p].quality = q])

\* Time passes: nobody was seen within the age removeStalePeers is given.
AllAge ==
  LET aged(d) == [b \in DOMAIN d |-> [d[b] EXCEPT
                    !.peers = [p \in DOMAIN @ |-> [@[p] EXCEPT !.seen = FALSE]]]]
  IN  db' = aged(db) /\ durable' = aged(durable)

RemoveStalePeers ==
  Becomes([b \in DOMAIN db |-> Retired(db[b], Stale(db[b]))])

Persist == durable' = db /\ UNCHANGED db

\* The tracker starts again, after a crash or after close().
Restart == db' = durable /\ UNCHANGED durable

StoreNext ==
  \/ \E b \in Broadcast :
       \/ RegisterBroadcast(b) \/ UnregisterBroadcast(b)
       \/ \E p \in Peer : \/ JoinPeer(b, p) \/ LeavePeer(b, p)
                          \/ ReportSegments(b, p) \/ Heartbeat(b, p)
                          \/ ReportStats(b, p) \/ Penalize(b, p)
  \/ AllAge \/ RemoveStalePeers \/ Persist \/ Restart

StoreSpec == StoreInit /\ [][StoreNext]_storeVars
=============================================================================
