----------------------------- MODULE SqliteStore -----------------------------
(***************************************************************************)
(* The tracker store on SQLite: five tables joined by foreign keys, calls  *)
(* that run one SQL statement after the other in a transaction of their    *)
(* own, and the group commit of the writes of one event-loop turn.  A      *)
(* statement may fail, which undoes its call, and the process may die      *)
(* between any two statements, which undoes what was not committed.        *)
(* TrackerStore, with what its callers see and what a crash keeps, is what *)
(* all this must amount to.                                                *)
(***************************************************************************)
EXTENDS Naturals, Sequences, FiniteSets, SequencesExt

CONSTANTS Broadcast, Peer, Segment, MaxPeers, MaxSegments, MaxCharacters, Length,
          Traffic, Quality,
          MaxRetired       \* bound: the retired traffic of a broadcast

VARIABLES disk,            \* the committed tables
          work,            \* the tables as the open transaction sees them
          before,          \* the tables when the running call began
          script,          \* the statements the running call has left
          grouped          \* groupWrites() opened the transaction of this turn

vars == <<disk, work, before, script, grouped>>

Store == INSTANCE TrackerStore WITH db <- {}, durable <- {}

Empty == [x \in {} |-> {}]
NoRows == [broadcasts |-> {}, peers |-> Empty, segments |-> <<>>,
           stats |-> Empty, retired |-> Empty]

\* The elements of a sequence that are in a set, and those that are not.
Those(s, T) ==
  LET those[n \in 0..Len(s)] ==
        IF n = 0 THEN <<>>
        ELSE IF s[n] \in T THEN Append(those[n - 1], s[n]) ELSE those[n - 1]
  IN  those[Len(s)]
Less(s, T) == Those(s, Range(s) \ T)

\* The rows of one peer, in the order of their row ids.
SegmentsOf(t, b, p) ==
  LET rows == Those(t.segments, {b} \X {p} \X Segment)
  IN  [i \in DOMAIN rows |-> rows[i][3]]
PeersOf(t, b) == {p \in Peer : <<b, p>> \in DOMAIN t.peers}
TrafficOf(t, k) == IF k \in DOMAIN t.stats THEN t.stats[k] ELSE 0
RetiredOf(t, b) == IF b \in DOMAIN t.retired THEN t.retired[b] ELSE 0

\* What the tables amount to.
View(t) ==
  [b \in t.broadcasts |->
     [peers |-> [p \in PeersOf(t, b) |->
        [segments |-> Range(SegmentsOf(t, b, p)), traffic |-> TrafficOf(t, <<b, p>>),
         quality |-> t.peers[<<b, p>>].quality, seen |-> t.peers[<<b, p>>].seen]],
      retired |-> RetiredOf(t, b)]]

Init == /\ disk = NoRows /\ work = NoRows /\ before = NoRows
        /\ script = <<>> /\ grouped = FALSE
----
(***************************************************************************)
(* The prepared statements.                                                *)
(***************************************************************************)
Stmt(do, key, arg) == [do |-> do, key |-> key, arg |-> arg]

Without(f, Gone(_)) == [x \in {y \in DOMAIN f : ~Gone(y)} |-> f[x]]

Effect(t, st) ==
  LET k == st.key
      b == k[1]
  IN CASE st.do = "insertBroadcast" -> [t EXCEPT !.broadcasts = @ \cup {b}]
       [] st.do = "deleteBroadcastSegments" ->
            [t EXCEPT !.segments = Less(@, {b} \X Peer \X Segment)]
       [] st.do = "deleteBroadcastPeerStats" ->
            [t EXCEPT !.stats = Without(@, LAMBDA y : y[1] = b)]
       [] st.do = "deleteBroadcastRetiredStats" ->
            [t EXCEPT !.retired = Without(@, LAMBDA y : y = b)]
       [] st.do = "deleteBroadcastPeers" ->
            [t EXCEPT !.peers = Without(@, LAMBDA y : y[1] = b)]
       [] st.do = "deleteBroadcast" -> [t EXCEPT !.broadcasts = @ \ {b}]
       [] st.do = "upsertPeer" ->
            [t EXCEPT !.peers = Store!Put(@, k,
               [quality |-> IF k \in DOMAIN @ THEN @[k].quality
                            ELSE Store!NewPeer.quality, seen |-> TRUE])]
       [] st.do = "insertEmptyPeerStats" ->
            [t EXCEPT !.stats = IF k \in DOMAIN @ THEN @ ELSE Store!Put(@, k, 0)]
       [] st.do = "accumulateRetiredStats" ->
            IF k \in DOMAIN t.stats
            THEN [t EXCEPT !.retired = Store!Put(@, b, RetiredOf(t, b) + t.stats[k])]
            ELSE t
       [] st.do = "deletePeerStats" -> [t EXCEPT !.stats = Store!Drop(@, {k})]
       [] st.do = "deletePeerSegments" ->
            [t EXCEPT !.segments = Less(@, {b} \X {k[2]} \X Segment)]
       [] st.do = "deletePeer" -> [t EXCEPT !.peers = Store!Drop(@, {k})]
       [] st.do = "deletePeerSegment" ->
            [t EXCEPT !.segments = Less(@, {<<b, k[2], st.arg>>})]
       [] st.do = "insertPeerSegment" ->
            [t EXCEPT !.segments = Append(@, <<b, k[2], st.arg>>)]
       [] st.do = "replacePeerStats" -> [t EXCEPT !.stats = Store!Put(@, k, st.arg)]
       [] st.do = "updatePeerLastSeen" -> [t EXCEPT !.peers[k].seen = TRUE]
       [] st.do = "updatePeerHealth" ->
            [t EXCEPT !.peers[k] = [quality |-> st.arg, seen |-> TRUE]]
       [] st.do = "updatePeerTrust" -> [t EXCEPT !.peers[k].quality = st.arg]
----
(***************************************************************************)
(* Calls.  They run to their end before another one starts.                *)
(***************************************************************************)
Call(statements) ==
  /\ script' = statements
  /\ UNCHANGED <<disk, work, before>>

Single(do, key, arg) == Call(<<Stmt(do, key, arg)>>)

RegisterBroadcast(b) ==
  /\ b \notin work.broadcasts /\ Single("insertBroadcast", <<b>>, 0)
  /\ UNCHANGED grouped

UnregisterBroadcast(b) ==
  /\ b \in work.broadcasts
  /\ Call([i \in 1..5 |-> Stmt(<<"deleteBroadcastSegments",
             "deleteBroadcastPeerStats", "deleteBroadcastRetiredStats",
             "deleteBroadcastPeers", "deleteBroadcast">>[i], <<b>>, 0)])
  /\ UNCHANGED grouped

JoinPeer(b, p) ==
  /\ b \in work.broadcasts
  /\ <<b, p>> \in DOMAIN work.peers \/ Cardinality(PeersOf(work, b)) < MaxPeers
  /\ Call(<<Stmt("upsertPeer", <<b, p>>, 0),
            Stmt("insertEmptyPeerStats", <<b, p>>, 0)>>)
  /\ UNCHANGED grouped

\* retirePeer
Retire(k) == <<Stmt("accumulateRetiredStats", k, 0), Stmt("deletePeerStats", k, 0),
               Stmt("deletePeerSegments", k, 0), Stmt("deletePeer", k, 0)>>

\* Those of several peers, one after the other.
Retirements(keys) ==
  [i \in 1..(4 * Len(keys)) |-> Retire(keys[(i + 3) \div 4])[((i + 3) % 4) + 1]]

\* Bound: the traffic that the peers leave behind.
Fits(b, gone) == RetiredOf(work, b) + Store!Carried(View(work)[b], gone) <= MaxRetired

LeavePeer(b, p) ==
  /\ <<b, p>> \in DOMAIN work.peers /\ Fits(b, {p})
  /\ Call(Retire(<<b, p>>)) /\ UNCHANGED grouped

\* listStalePeers and the transaction that retires them all.
RemoveStalePeers ==
  LET stale == {k \in DOMAIN work.peers : ~work.peers[k].seen}
  IN  /\ stale # {}
      /\ \A b \in work.broadcasts : Fits(b, {p \in Peer : <<b, p>> \in stale})
      /\ Call(Retirements(SetToSeq(stale))) /\ UNCHANGED grouped

\* groupWrites() comes first, so a transaction opens for an unknown peer too.
GroupedCall(b, p, statements) ==
  /\ grouped' = TRUE
  /\ IF <<b, p>> \in DOMAIN work.peers THEN Call(statements) ELSE Call(<<>>)

\* Where the rests of an inventory begin that its limits allow: none of it is one.
Starts(segments) ==
  LET n == Len(segments)
  IN  {i \in 1..(n + 1) : Store!InventoryFits(Range(SubSeq(segments, i, n)))}

\* Mutant of Newest: one too many.
NewestAndOne(segments) ==
  LET start == Min(Starts(segments))
  IN  SubSeq(segments, (IF start > 1 THEN start - 1 ELSE start), Len(segments))

\* The longest rest, from the last segment back until one does not fit.
Newest(segments) == SubSeq(segments, Min(Starts(segments)), Len(segments))

\* The rows that go, those that come, and the peer was seen.
Inventory(b, p, wanted) ==
  LET existing == SegmentsOf(work, b, p)
      next == Newest(wanted)
      goes == Less(existing, Range(next))
      comes == Less(next, Range(existing))
  IN  [i \in DOMAIN goes |-> Stmt("deletePeerSegment", <<b, p>>, goes[i])]
        \o [i \in DOMAIN comes |-> Stmt("insertPeerSegment", <<b, p>>, comes[i])]
        \o <<Stmt("updatePeerLastSeen", <<b, p>>, 0)>>

\* A report names finitely many segments, each once.
Reports == UNION {SetToSeqs(T) : T \in {R \in SUBSET Segment : IsFiniteSet(R)}}
With(segments, more) ==
  segments \o Less(more, Range(segments))

ReportSegments(b, p) ==
  \E reported \in Reports, replace \in BOOLEAN :
    GroupedCall(b, p, Inventory(b, p,
      IF replace THEN reported ELSE With(SegmentsOf(work, b, p), reported)))

ApplySegmentDelta(b, p) ==
  \E added \in Reports, removed \in SUBSET Segment :
    GroupedCall(b, p, Inventory(b, p,
      With(Less(SegmentsOf(work, b, p), removed), added)))

Heartbeat(b, p) ==
  \E q \in Quality :
    GroupedCall(b, p, <<Stmt("updatePeerHealth", <<b, p>>, q)>>)

ReportStats(b, p) ==
  \E n \in Traffic :
    GroupedCall(b, p, <<Stmt("replacePeerStats", <<b, p>>, n),
                        Stmt("updatePeerLastSeen", <<b, p>>, 0)>>)

\* The part of reportPeerFailure that writes, once a quorum is reached.
Penalize(b, p) ==
  /\ <<b, p>> \in DOMAIN work.peers
  /\ \E q \in Quality : /\ q < work.peers[<<b, p>>].quality
                        /\ Single("updatePeerTrust", <<b, p>>, q)
  /\ UNCHANGED grouped
----
(***************************************************************************)
(* Statements, failures, the end of a turn and the end of the process.     *)
(***************************************************************************)
\* Mutant of Statement: the statements of a call outside a group commit one by one.
CommitEach ==
  /\ script # <<>> /\ script' = Tail(script)
  /\ work' = Effect(work, Head(script)) /\ before' = work'
  /\ disk' = IF grouped THEN disk ELSE work'
  /\ UNCHANGED grouped

\* The last statement ends the call; outside a group it commits, too.
Statement ==
  /\ script # <<>> /\ script' = Tail(script)
  /\ work' = Effect(work, Head(script))
  /\ IF Tail(script) # <<>> THEN UNCHANGED <<disk, before>>
     ELSE before' = work' /\ disk' = IF grouped THEN disk ELSE work'
  /\ UNCHANGED grouped

\* A statement throws: its call's savepoint, or its transaction, rolls back.
StatementFails ==
  /\ script # <<>> /\ script' = <<>> /\ work' = before
  /\ UNCHANGED <<disk, before, grouped>>

\* commitGroupedWrites, from setImmediate or from close().
EndTurn ==
  /\ grouped /\ script = <<>>
  /\ disk' = work /\ grouped' = FALSE /\ UNCHANGED <<work, before, script>>

Crash ==
  /\ work' = disk /\ before' = disk /\ script' = <<>> /\ grouped' = FALSE
  /\ UNCHANGED disk

AllAge ==
  LET aged(t) == [t EXCEPT !.peers = [k \in DOMAIN @ |-> [@[k] EXCEPT !.seen = FALSE]]]
  IN  /\ script = <<>> /\ disk' = aged(disk) /\ work' = aged(work)
      /\ before' = aged(before) /\ UNCHANGED <<script, grouped>>

Next ==
  \/ /\ script = <<>>
     /\ \/ RemoveStalePeers
        \/ \E b \in Broadcast :
             \/ RegisterBroadcast(b) \/ UnregisterBroadcast(b)
             \/ \E p \in Peer :
                  \/ JoinPeer(b, p) \/ LeavePeer(b, p) \/ Heartbeat(b, p)
                  \/ ReportSegments(b, p) \/ ApplySegmentDelta(b, p)
                  \/ ReportStats(b, p) \/ Penalize(b, p)
  \/ Statement \/ StatementFails \/ EndTurn \/ Crash \/ AllAge

Spec == Init /\ [][Next]_vars
----
A == INSTANCE TrackerStore WITH db <- View(before), durable <- View(disk)

\* The types.
TypeOK ==
  /\ grouped \in BOOLEAN
  /\ \A t \in {disk, work, before} :
       /\ t.broadcasts \subseteq Broadcast
       /\ DOMAIN t.peers \subseteq Broadcast \X Peer
       /\ Range(t.segments) \subseteq Broadcast \X Peer \X Segment
       /\ \A k \in DOMAIN t.stats : t.stats[k] \in Traffic
  /\ ~grouped /\ script = <<>> => disk = work

\* The calls of the SQLite store, with their failures and crashes, are the
\* operations of TrackerStore.
ImplementsStore == A!StoreSpec

=============================================================================
