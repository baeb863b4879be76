------------------------ MODULE TrackerMirrorProofs ------------------------
(***************************************************************************)
(* What is proved of the inventories that the hub's subscribers have: that *)
(* the pending batch is the net change, that clients have the inventories  *)
(* of the store once nothing is pending, and that they list nothing that a *)
(* peer has not reported.                                                  *)
(***************************************************************************)
EXTENDS TrackerHubProofs

-----------------------------------------------------------------------------
(* Batches.  A batch outlives its subscribers and misses what is reported    *)
(* while there are none, so clients without inventory_batch, who report but  *)
(* need no batch, are left out here; reports over REST are published with    *)
(* `replace` set whatever they mean, see ReplaceIsFull.                      *)

NetInv ==
  /\ MirrorInv
  /\ InMode("immediate") = {}
  /\ \A p \in Peers : p \notin members \cup departing => pending[p] = NoUpdate
  /\ PendingIsNet

\* What is merged into a batch that is up to date leaves it up to date.
LEMMA MergeIsNet ==
  ASSUME NEW S \in SUBSET Segments, NEW u \in {NoUpdate} \cup Update, NEW v \in Update,
         NoUpdate \notin Update, Applied(S, u) = S
  PROVE  Applied(Applied(S, v), Merge(u, v)) = Applied(S, v)
<1> DEFINE T == Applied(S, v)
           m == Merge(u, v)
<1>1. /\ T = IF v.replace THEN v.added ELSE (S \ v.removed) \cup v.added
      /\ T \in SUBSET Segments /\ T # Unknown
  <2>1. S # Unknown /\ v # NoUpdate /\ v.added \in SUBSET Segments
    BY Inventories DEF Update
  <2>2. T = IF v.replace THEN v.added ELSE (S \ v.removed) \cup v.added
    BY <2>1 DEF Applied
  <2> QED
    BY <2>1, <2>2, Inventories
<1>2. m \in Update /\ m # NoUpdate
  BY MergeTyped
<1>3. Applied(T, m) = IF m.replace THEN m.added ELSE (T \ m.removed) \cup m.added
  BY <1>1, <1>2 DEF Applied
<1>4. v = [replace |-> v.replace, added |-> v.added, removed |-> v.removed]
  BY DEF Update
<1>5. CASE v.replace
  <2>1. m = v
    BY <1>5 DEF Merge
  <2> QED
    BY <1>1, <1>3, <1>5, <2>1
<1>6. CASE ~v.replace /\ u = NoUpdate
  <2>1. m = [v EXCEPT !.removed = @ \ v.added]
    BY <1>6 DEF Merge
  <2>2. m.replace = v.replace /\ m.added = v.added /\ m.removed = v.removed \ v.added
    BY <1>4, <2>1
  <2> QED
    BY <1>1, <1>3, <1>6, <2>2
<1>7. CASE ~v.replace /\ u # NoUpdate
  <2>1. /\ m.replace = u.replace
        /\ m.added = (u.added \ v.removed) \cup v.added
        /\ m.removed = IF u.replace THEN {} ELSE (u.removed \cup v.removed) \ v.added
    BY <1>7 DEF Merge
  <2>2. S = IF u.replace THEN u.added ELSE (S \ u.removed) \cup u.added
    BY <1>7, Inventories DEF Applied
  <2> HIDE DEF T, m
  <2>3. CASE u.replace
    BY <1>1, <1>3, <1>7, <2>1, <2>2, <2>3 DEF T, m
  <2>4. CASE ~u.replace
    <3>1. Applied(T, m) = (T \ m.removed) \cup m.added
      BY <1>3, <2>1, <2>4
    <3>2. T = (S \ v.removed) \cup v.added
      BY <1>1, <1>7
    <3>3. (T \ ((u.removed \cup v.removed) \ v.added)) \cup ((u.added \ v.removed) \cup v.added) = T
      BY <2>2, <2>4, <3>2
    <3> QED
      BY <2>1, <2>4, <3>1, <3>3 DEF T, m
  <2> QED
    BY <2>3, <2>4
<1> QED
  BY <1>5, <1>6, <1>7

\* Every step of the sockets keeps the batch up to date.
LEMMA NetStep ==
  ASSUME "immediate" \notin Modes, NoUpdate \notin Update, NetInv, [SocketNext]_vars
  PROVE  NetInv'
<1>1. MirrorInv'
  BY MirrorStep DEF NetInv, Next
<1> DEFINE None(m)   == \A k \in Sockets : m[k] # "immediate"
           Absent    == \A p \in Peers : p \notin members \cup departing => pending[p] = NoUpdate
<1>2. None(mode) /\ Absent /\ PendingIsNet
  BY DEF NetInv, InMode
<1> SUFFICES None(mode') /\ Absent' /\ PendingIsNet'
  BY <1>1 DEF NetInv, InMode
<1>3. /\ members \subseteq Peers /\ departing \subseteq Peers /\ departing \cap members = {}
      /\ inv \in [Peers -> SUBSET Segments] /\ pending \in [Peers -> {NoUpdate} \cup Update]
      /\ mode \in [Sockets -> {"none", "immediate", "batched", "viewer"}]
  BY DEF NetInv, MirrorInv, ViewInv, Roster, HubTyped, Batches
<1>4. \A S : Applied(S, NoUpdate) = S
  BY DEF Applied
<1>5. ASSUME pending' = NoUpdates, None(mode') PROVE None(mode') /\ Absent' /\ PendingIsNet'
  <2>1. \A p \in Peers : pending'[p] = NoUpdate
    BY <1>5 DEF NoUpdates
  <2>2. members' \subseteq Peers
    BY <1>1 DEF MirrorInv, ViewInv
  <2> QED
    BY <1>4, <1>5, <2>1, <2>2 DEF PendingIsNet
<1>6. ASSUME UNCHANGED <<members, departing, inv, pending>>, None(mode')
      PROVE  None(mode') /\ Absent' /\ PendingIsNet'
  BY <1>2, <1>6 DEF PendingIsNet
<1>7. ASSUME NEW p \in Peers, Join(p) PROVE None(mode') /\ Absent' /\ PendingIsNet'
  <2>1. /\ UNCHANGED <<inv, pending, departing, mode>> /\ members' = members \cup {p}
        /\ p \notin members /\ departing = {}
    BY <1>7 DEF Join, Idle, turnVars, batchVars
  <2> QED
    BY <1>2, <1>4, <2>1 DEF PendingIsNet
<1>8. ASSUME NEW S \in SUBSET members, RemovePeers(S)
      PROVE  None(mode') /\ Absent' /\ PendingIsNet'
  <2>1. /\ UNCHANGED <<pending, mode>> /\ members' = members \ S /\ departing' = S
        /\ departing = {} /\ \A p \in Peers \ S : inv'[p] = inv[p]
    BY <1>8 DEF RemovePeers, Idle, batchVars
  <2> QED
    BY <1>2, <1>3, <2>1 DEF PendingIsNet
<1>9. ASSUME NEW p \in departing, PeerLeft(p) PROVE None(mode') /\ Absent' /\ PendingIsNet'
  <2>1. /\ UNCHANGED <<inv, members, mode>> /\ departing' = departing \ {p}
        /\ pending' = [pending EXCEPT ![p] = NoUpdate]
    BY <1>9 DEF PeerLeft, storeVars, WithoutUpdatesOf
  <2>2. p \notin members /\ \A q \in Peers \ {p} : pending'[q] = pending[q]
    BY <1>3, <1>9, <2>1
  <2>3. pending'[p] = NoUpdate
    BY <1>3, <1>9, <2>1
  <2> QED
    BY <1>2, <1>3, <2>1, <2>2, <2>3 DEF PendingIsNet
<1>10. ASSUME NEW w \in refill, Refill(w) PROVE None(mode') /\ Absent' /\ PendingIsNet'
  BY <1>2, <1>6, <1>10 DEF Refill, storeVars, batchVars
<1>11. ASSUME NEW k \in Sockets, NEW u \in Update, Report(k, u)
       PROVE  None(mode') /\ Absent' /\ PendingIsNet'
  <2> DEFINE p == Owner[k]
  <2>1. /\ UNCHANGED <<members, mode, departing>> /\ inv' = [inv EXCEPT ![p] = Applied(@, u)]
        /\ p \in members /\ mode[k] # "none" /\ Publish(p, u)
    BY <1>11 DEF Report, Stored, turnVars
  <2>2. InMode("batched") \cup InMode("viewer") # {}
    BY <1>2, <1>3, <2>1 DEF InMode
  <2>3. pending' = [pending EXCEPT ![p] = Merge(@, u)]
    BY <2>1, <2>2 DEF Publish
  <2>4. Applied(Applied(inv[p], u), Merge(pending[p], u)) = Applied(inv[p], u)
    BY <1>2, <1>3, <2>1, MergeIsNet DEF PendingIsNet
  <2> HIDE DEF p
  <2>5. /\ inv'[p] = Applied(inv[p], u) /\ pending'[p] = Merge(pending[p], u)
        /\ \A q \in Peers \ {p} : inv'[q] = inv[q] /\ pending'[q] = pending[q]
    BY <1>3, <2>1, <2>3
  <2> QED
    BY <1>2, <1>3, <2>1, <2>4, <2>5 DEF PendingIsNet
<1>12. CASE FlushTimer \/ Slice
  <2>1. UNCHANGED <<members, departing, mode, inv>>
    BY <1>12 DEF FlushTimer, Slice, storeVars, turnVars
  <2>2. pending' = NoUpdates \/ pending' = pending
    BY <1>12, FlushMirrors DEF NetInv
  <2> QED
    BY <1>2, <1>5, <1>6, <2>1, <2>2
<1>13. ASSUME NEW k \in Sockets, NEW m \in Modes, Subscribe(k, m)
       PROVE  None(mode') /\ Absent' /\ PendingIsNet'
  <2>1. UNCHANGED <<members, departing, inv, pending>> /\ mode' = [mode EXCEPT ![k] = m]
    BY <1>13 DEF Subscribe, storeVars, turnVars, batchVars
  <2>2. None(mode')
    BY <1>2, <1>3, <2>1
  <2> QED
    BY <1>6, <2>1, <2>2
<1>14. ASSUME NEW k \in Sockets, Close(k) PROVE None(mode') /\ Absent' /\ PendingIsNet'
  <2>1. UNCHANGED <<members, departing, inv, pending>> /\ mode' = [mode EXCEPT ![k] = "none"]
    BY <1>14 DEF Close, storeVars, turnVars, batchVars
  <2>2. None(mode')
    BY <1>2, <1>3, <2>1
  <2> QED
    BY <1>6, <2>1, <2>2
<1>15. CASE RemoveBroadcast \/ Restart
  <2>1. pending' = NoUpdates /\ mode' = [k \in Sockets |-> "none"]
    BY <1>15 DEF RemoveBroadcast, Restart, Disconnected
  <2> QED
    BY <1>5, <2>1
<1>16. CASE UNCHANGED vars
  BY <1>2, <1>6, <1>16 DEF vars, storeVars, batchVars, turnVars
<1> QED
  BY <1>7, <1>8, <1>9, <1>10, <1>11, <1>12, <1>13, <1>14, <1>15, <1>16 DEF SocketNext, Turn

\* As long as peers report over sockets that take batches, what is pending is the
\* net change: applied to the inventory the store has, it changes nothing, so a
\* client that gets both in either order is up to date (mergeInventoryUpdate and
\* peerLeft, whatever reports, departures, flushes and subscriptions come between).
THEOREM BatchesAreNet ==
  ASSUME "immediate" \notin Modes, NoUpdate \notin Update
  PROVE  SocketSpec => []PendingIsNet
<1>1. Init => NetInv
  BY MirrorInit DEF Init, NetInv, InMode, NoUpdates, PendingIsNet
<1>2. NetInv /\ [SocketNext]_vars => NetInv'
  BY NetStep
<1>3. NetInv => PendingIsNet
  BY DEF NetInv
<1> QED
  BY <1>1, <1>2, <1>3, PTL DEF SocketSpec

-----------------------------------------------------------------------------
(* Inventories.  What a client knows of a peer, what the running flush owes  *)
(* it and what is pending add up to the inventory of the store.              *)

\* An update is a set of removals and a set of additions.
LEMMA UpdateShape ==
  ASSUME NEW u \in {NoUpdate} \cup Update
  PROVE  \E R, A \in SUBSET Segments :
           \A T \in SUBSET Segments : Applied(T, u) = (T \ R) \cup A
<1>1. CASE u = NoUpdate
  <2>1. \A T \in SUBSET Segments : Applied(T, u) = (T \ {}) \cup {}
    BY <1>1 DEF Applied
  <2>2. {} \in SUBSET Segments
    OBVIOUS
  <2> QED
    BY <2>1, <2>2
<1>2. CASE u # NoUpdate
  <2>1. u.added \in SUBSET Segments /\ u.removed \in SUBSET Segments
    BY <1>2 DEF Update
  <2>2. CASE u.replace
    <3>1. \A T \in SUBSET Segments : Applied(T, u) = (T \ Segments) \cup u.added
      BY <1>2, <2>2, Inventories DEF Applied
    <3> QED
      BY <2>1, <3>1
  <2>3. CASE ~u.replace
    <3>1. \A T \in SUBSET Segments : Applied(T, u) = (T \ u.removed) \cup u.added
      BY <1>2, <2>3, Inventories DEF Applied
    <3> QED
      BY <2>1, <3>1
  <2> QED
    BY <2>2, <2>3
<1> QED
  BY <1>1, <1>2

\* An inventory stays an inventory.
LEMMA AppliedInventory ==
  ASSUME NEW S \in SUBSET Segments, NEW u \in {NoUpdate} \cup Update
  PROVE  Applied(S, u) \in SUBSET Segments
BY AppliedKnown, Inventories

\* MergeComposes, when nothing may be pending.
LEMMA MergeApplies ==
  ASSUME NEW S \in SUBSET Segments, NEW u \in {NoUpdate} \cup Update, NEW v \in Update,
         NoUpdate \notin Update
  PROVE  Applied(S, Merge(u, v)) = Applied(Applied(S, u), v)
<1>1. CASE u # NoUpdate
  BY <1>1, MergeComposes
<1>2. CASE u = NoUpdate /\ v.replace
  BY <1>2 DEF Merge, Applied
<1>3. CASE u = NoUpdate /\ ~v.replace
  <2> DEFINE m == Merge(u, v)
  <2>1. m \in Update /\ m # NoUpdate /\ v # NoUpdate
    BY MergeTyped
  <2>2. v = [replace |-> v.replace, added |-> v.added, removed |-> v.removed]
    BY DEF Update
  <2>3. m = [v EXCEPT !.removed = @ \ v.added]
    BY <1>3 DEF Merge
  <2>4. m.replace = v.replace /\ m.added = v.added /\ m.removed = v.removed \ v.added
    BY <2>2, <2>3
  <2> HIDE DEF m
  <2>5. Applied(S, m) = (S \ m.removed) \cup m.added
    BY <1>3, <2>1, <2>4, Inventories DEF Applied
  <2>6. Applied(Applied(S, u), v) = (S \ v.removed) \cup v.added
    BY <1>3, <2>1, Inventories DEF Applied
  <2> QED
    BY <2>4, <2>5, <2>6 DEF m
<1> QED
  BY <1>1, <1>2, <1>3

\* A report that is merged into the batch leaves an inventory that what is owed
\* and pending does not change.
LEMMA ReportKeeps ==
  ASSUME NEW T \in SUBSET Segments, NEW o \in {NoUpdate} \cup Update,
         NEW u \in {NoUpdate} \cup Update, NEW v \in Update, NoUpdate \notin Update,
         Applied(Applied(T, o), u) = T
  PROVE  Applied(Applied(Applied(T, v), o), Merge(u, v)) = Applied(T, v)
<1>1. PICK Ro, Ao \in SUBSET Segments :
        \A S \in SUBSET Segments : Applied(S, o) = (S \ Ro) \cup Ao
  BY UpdateShape
<1>2. PICK Ru, Au \in SUBSET Segments :
        \A S \in SUBSET Segments : Applied(S, u) = (S \ Ru) \cup Au
  BY UpdateShape
<1>3. PICK Rv, Av \in SUBSET Segments :
        \A S \in SUBSET Segments : Applied(S, v) = (S \ Rv) \cup Av
  BY UpdateShape
<1> DEFINE V == (T \ Rv) \cup Av
           O == (V \ Ro) \cup Ao
           U == (O \ Ru) \cup Au
<1>4. V \in SUBSET Segments /\ O \in SUBSET Segments /\ U \in SUBSET Segments
  OBVIOUS
<1>5. Applied(T, v) = V /\ Applied(V, o) = O /\ Applied(O, u) = U
  BY <1>1, <1>2, <1>3, <1>4
<1>6. Applied(O, Merge(u, v)) = (U \ Rv) \cup Av
  BY <1>3, <1>4, <1>5, MergeApplies
<1>7. T = (((T \ Ro) \cup Ao) \ Ru) \cup Au
  <2>1. (T \ Ro) \cup Ao \in SUBSET Segments
    OBVIOUS
  <2> QED
    BY <1>1, <1>2, <2>1
<1>8. (U \ Rv) \cup Av = V
  BY <1>7
<1> QED
  BY <1>5, <1>6, <1>8

\* What the running flush has yet to send of q, and of that, to k.
Due(q) == IF current THEN updates[q] ELSE NoUpdate
Owed(k, q) == IF mode[k] = "viewer" /\ Owner[k] \in queue THEN Due(q) ELSE NoUpdate

\* Who is to have the inventories.
Informed(k) == mode[k] = "batched" \/ (mode[k] = "viewer" /\ attached[k])

\* What goes together besides: a peer that is not in the store has no inventory
\* there, a batch only lives until its timer, and what a flush still sends is
\* about members, or peers that never come back.
Orderly ==
  /\ current => flushing
  /\ timer = "none" => pending = NoUpdates
  /\ \A p \in Peers \ members : inv[p] = {}
  /\ InMode("viewer") # {} => ~MayRejoin
  /\ current => ~MayRejoin /\ \A p \in Peers \ (members \cup former) : updates[p] = NoUpdate

\* The inventory of the store is what comes of it, and of what a client knows,
\* when all that is owed and pending is applied.
StoreSynced ==
  \A q \in members : Applied(Applied(inv[q], Due(q)), pending[q]) = inv[q]

ClientsSynced ==
  \A k \in Sockets, q \in members :
    Informed(k) /\ mirror[k][q] # Unknown =>
      Applied(Applied(mirror[k][q], Owed(k, q)), pending[q]) = inv[q]

SyncInv == NetInv /\ Orderly /\ StoreSynced /\ ClientsSynced

\* A client that is told the inventory of the store now stays in step with it.
LEMMA SnapshotSynced ==
  ASSUME SyncInv, NEW q \in members, NEW o \in {Due(q), NoUpdate}
  PROVE  Applied(Applied(inv[q], o), pending[q]) = inv[q]
<1>1. Applied(Applied(inv[q], Due(q)), pending[q]) = inv[q]
  BY DEF SyncInv, StoreSynced
<1>2. Applied(inv[q], NoUpdate) = inv[q] /\ Applied(inv[q], pending[q]) = inv[q]
  BY DEF SyncInv, NetInv, PendingIsNet, Applied
<1> QED
  BY <1>1, <1>2

\* Announcing a filled view tells inventories of the store.
LEMMA AnnouncedEntries ==
  ASSUME NEW p, NEW A, NEW E, NEW present, NEW mir, NEW k \in Sockets, NEW q \in Peers
  PROVE  Announce(p, A, E, present, mir)[k][q] \in {Unknown, inv[q], mir[k][q]}
<1>1. CASE mode[k] # "viewer"
  BY <1>1 DEF Announce
<1>2. CASE mode[k] = "viewer"
  BY <1>2 DEF Announce
<1> QED
  BY <1>1, <1>2

\* A peer that joins has reported nothing, and nothing is said of it.
LEMMA JoinSyncs ==
  ASSUME SyncInv, NEW p \in Peers, Join(p)
  PROVE  Orderly' /\ StoreSynced' /\ ClientsSynced'
<1> USE DEF SyncInv, NetInv
<1> DEFINE told == Tell(InMode("immediate") \cup InMode("batched"), p, {}, mirror)
<1>1. /\ members' = members \cup {p} /\ p \notin members \cup former
      /\ departing = {} /\ former' = former
      /\ UNCHANGED <<inv, mode, attached, pending, timer, updates, queue, current, flushing>>
      /\ members \subseteq Peers /\ members' \subseteq Peers
  BY DEF Join, Idle, turnVars, batchVars, flushVars, MirrorInv, ViewInv
<1>2. PICK A, E : mirror' = Announce(p, A, E, members', told)
  BY DEF Join
<1>3. Orderly'
  BY <1>1 DEF Orderly, InMode
<1>4. inv[p] = {} /\ Due(p) = NoUpdate /\ pending[p] = NoUpdate
  BY <1>1 DEF Orderly, Due
<1>5. \A S : Applied(S, NoUpdate) = S
  BY DEF Applied
<1>6. StoreSynced'
  BY <1>1, <1>4, <1>5 DEF StoreSynced, Due
<1>7. ASSUME NEW k \in Sockets, NEW q \in members', Informed(k), mirror'[k][q] # Unknown
      PROVE  Applied(Applied(mirror'[k][q], Owed(k, q)), pending[q]) = inv[q]
  <2>1. /\ mirror'[k][q] \in {inv[q], told[k][q]} /\ q \in Peers
    BY <1>1, <1>2, <1>7, AnnouncedEntries
  <2>2. told[k][q] = IF k \in InMode("immediate") \cup InMode("batched") /\ Owner[k] # p /\ q = p
                     THEN {} ELSE mirror[k][q]
    <3> DEFINE K == InMode("immediate") \cup InMode("batched")
    <3>1. mirror[k] \in [Peers -> {Unknown} \cup SUBSET Segments]
      BY DEF MirrorInv, HubTyped, Mirrors
    <3> HIDE DEF K
    <3>2. told[k] = IF k \in K /\ Owner[k] # p THEN [mirror[k] EXCEPT ![p] = {}] ELSE mirror[k]
      BY DEF Tell, K
    <3>3. told[k][q] = IF k \in K /\ Owner[k] # p /\ q = p THEN {} ELSE mirror[k][q]
      BY <2>1, <3>1, <3>2
    <3> QED
      BY <3>3 DEF K
  <2> HIDE DEF told
  <2>3. CASE q = p
    <3>1. mirror[k][p] = Unknown
      <4>1. p \notin members \cup departing /\ p \notin registered
        BY <1>1 DEF MirrorInv, Roster
      <4>2. CASE mode[k] = "viewer" /\ attached[k]
        BY <4>1, <4>2 DEF MirrorInv, Follows, Linked, ViewInv, ViewsInSync
      <4>3. CASE mode[k] = "batched"
        BY <4>1, <4>3 DEF MirrorInv, Follows, Lists
      <4> QED
        BY <1>7, <4>2, <4>3 DEF Informed
    <3>2. mirror'[k][q] = inv[q]
      BY <1>4, <1>7, <2>1, <2>2, <2>3, <3>1
    <3>3. Owed(k, q) = NoUpdate
      BY <1>4, <2>3 DEF Owed
    <3> QED
      BY <1>4, <1>5, <2>3, <3>2, <3>3
  <2>4. CASE q # p
    <3>1. q \in members /\ (mirror'[k][q] = inv[q] \/ mirror'[k][q] = mirror[k][q])
      BY <1>1, <2>1, <2>2, <2>4
    <3>2. Owed(k, q) \in {Due(q), NoUpdate}
      BY DEF Owed
    <3> QED
      BY <1>7, <3>1, <3>2, SnapshotSynced DEF ClientsSynced
  <2> QED
    BY <2>3, <2>4
<1>8. ClientsSynced'
  BY <1>1, <1>7 DEF ClientsSynced, Informed, Owed, Due
<1> QED
  BY <1>3, <1>6, <1>8

\* Removing peers, and what the hub makes of each.
LEMMA RemovePeersSyncs ==
  ASSUME SyncInv, NEW S \in SUBSET members, RemovePeers(S)
  PROVE  Orderly' /\ StoreSynced' /\ ClientsSynced'
<1> USE DEF SyncInv, NetInv
<1>1. /\ members' = members \ S /\ members \subseteq Peers
      /\ inv' = [p \in Peers |-> IF p \in S THEN {} ELSE inv[p]]
      /\ ~MayRejoin => former' = former \cup S
      /\ UNCHANGED <<mode, mirror, attached, pending, timer, updates, queue, current, flushing>>
  BY DEF RemovePeers, batchVars, flushVars, MirrorInv, ViewInv
<1>2. \A q \in members' : q \in members /\ inv'[q] = inv[q]
  BY <1>1
<1>3. Orderly'
  BY <1>1 DEF Orderly, InMode
<1>4. StoreSynced' /\ ClientsSynced'
  BY <1>1, <1>2 DEF StoreSynced, ClientsSynced, Informed, Owed, Due
<1> QED
  BY <1>3, <1>4

LEMMA PeerLeftSyncs ==
  ASSUME SyncInv, NEW p \in departing, PeerLeft(p)
  PROVE  Orderly' /\ StoreSynced' /\ ClientsSynced'
<1> USE DEF SyncInv, NetInv
<1>1. /\ UNCHANGED <<members, inv, former, mode, timer, updates, queue, current, flushing>>
      /\ pending' = [pending EXCEPT ![p] = NoUpdate]
      /\ attached' = [k \in Sockets |-> attached[k] /\ Owner[k] # p]
      /\ p \notin members /\ members \subseteq Peers
  BY DEF PeerLeft, storeVars, flushVars, WithoutUpdatesOf, MirrorInv, ViewInv, Roster
<1>2. PICK K : mirror' = Tell(K, p, Unknown, mirror)
  BY DEF PeerLeft
<1>3. \A q \in members : pending'[q] = pending[q]
  BY <1>1
<1>4. ASSUME NEW k \in Sockets, NEW q \in members
      PROVE  mirror'[k][q] = mirror[k][q]
  <2>1. mirror[k] \in [Peers -> {Unknown} \cup SUBSET Segments]
    BY DEF MirrorInv, HubTyped, Mirrors
  <2>2. mirror'[k] = mirror[k] \/ mirror'[k] = [mirror[k] EXCEPT ![p] = Unknown]
    BY <1>2 DEF Tell
  <2> QED
    BY <1>1, <2>1, <2>2
<1>5. pending = NoUpdates => pending' = NoUpdates
  BY <1>1 DEF NoUpdates
<1>6. Orderly'
  BY <1>1, <1>5 DEF Orderly, InMode
<1>7. StoreSynced'
  BY <1>1, <1>3 DEF StoreSynced, Due
<1>8. \A k \in Sockets : Informed(k)' => Informed(k)
  BY <1>1 DEF Informed, MirrorInv, HubTyped
<1>9. ClientsSynced'
  BY <1>1, <1>3, <1>4, <1>8 DEF ClientsSynced, Owed, Due
<1> QED
  BY <1>6, <1>7, <1>9

\* A view is topped up with peers whose inventories are told.
LEMMA RefillSyncs ==
  ASSUME SyncInv, NEW w \in refill, Refill(w)
  PROVE  Orderly' /\ StoreSynced' /\ ClientsSynced'
<1> USE DEF SyncInv, NetInv
<1>1. /\ UNCHANGED <<members, inv, former, mode, attached, pending, timer>>
      /\ UNCHANGED <<updates, queue, current, flushing>>
      /\ members \subseteq Peers
  BY DEF Refill, storeVars, batchVars, flushVars, MirrorInv, ViewInv
<1>2. PICK A, E : mirror' = Announce(w, A, E, members, mirror)
  BY DEF Refill
<1>3. Orderly' /\ StoreSynced'
  BY <1>1 DEF Orderly, InMode, StoreSynced, Due
<1>4. ASSUME NEW k \in Sockets, NEW q \in members, Informed(k), mirror'[k][q] # Unknown
      PROVE  Applied(Applied(mirror'[k][q], Owed(k, q)), pending[q]) = inv[q]
  <2>1. mirror'[k][q] \in {inv[q], mirror[k][q]}
    BY <1>1, <1>2, <1>4, AnnouncedEntries
  <2>2. Owed(k, q) \in {Due(q), NoUpdate}
    BY DEF Owed
  <2> QED
    BY <1>4, <2>1, <2>2, SnapshotSynced DEF ClientsSynced
<1> QED
  BY <1>1, <1>3, <1>4 DEF ClientsSynced, Informed, Owed, Due

\* A report changes the store at once, and clients by what is pending.
LEMMA ReportSyncs ==
  ASSUME SyncInv, NoUpdate \notin Update, NEW k \in Sockets, NEW u \in Update, Report(k, u)
  PROVE  Orderly' /\ StoreSynced' /\ ClientsSynced'
<1> USE DEF SyncInv, NetInv
<1> DEFINE p == Owner[k]
<1>1. /\ UNCHANGED <<members, former, mode, attached, updates, queue, current, flushing>>
      /\ inv' = [inv EXCEPT ![p] = Applied(@, u)]
      /\ p \in members /\ mode[k] # "none" /\ Publish(p, u)
      /\ members \subseteq Peers /\ mode \in [Sockets -> {"none", "immediate", "batched", "viewer"}]
      /\ inv \in [Peers -> SUBSET Segments] /\ pending \in [Peers -> {NoUpdate} \cup Update]
      /\ updates \in [Peers -> {NoUpdate} \cup Update] /\ mirror \in Mirrors
  BY DEF Report, Stored, flushVars, MirrorInv, ViewInv, HubTyped, Batches
<1>2. InMode("batched") \cup InMode("viewer") # {} /\ \A j \in Sockets : mode[j] # "immediate"
  BY <1>1 DEF InMode
<1>3. /\ pending' = [pending EXCEPT ![p] = Merge(@, u)]
      /\ timer' = IF timer = "none" THEN "armed" ELSE timer
      /\ \A j \in Sockets : mirror'[j] = mirror[j]
  BY <1>1, <1>2 DEF Publish
<1> HIDE DEF p
<1>4. /\ inv'[p] = Applied(inv[p], u) /\ pending'[p] = Merge(pending[p], u)
      /\ \A q \in Peers \ {p} : inv'[q] = inv[q] /\ pending'[q] = pending[q]
  BY <1>1, <1>3
<1>5. Orderly'
  BY <1>1, <1>3, <1>4 DEF Orderly, InMode
<1>6. /\ p \in Peers /\ inv[p] \in SUBSET Segments
      /\ pending[p] \in {NoUpdate} \cup Update /\ Due(p) \in {NoUpdate} \cup Update
  BY <1>1 DEF Due
<1>7. StoreSynced'
  <2>1. Applied(Applied(inv[p], Due(p)), pending[p]) = inv[p]
    BY <1>1 DEF StoreSynced
  <2>2. Applied(Applied(Applied(inv[p], u), Due(p)), Merge(pending[p], u)) = Applied(inv[p], u)
    BY <1>6, <2>1, ReportKeeps
  <2> QED
    BY <1>1, <1>4, <2>2 DEF StoreSynced, Due
<1>8. ASSUME NEW j \in Sockets, NEW q \in members, Informed(j), mirror[j][q] # Unknown
      PROVE  Applied(Applied(mirror[j][q], Owed(j, q)), pending'[q]) = inv'[q]
  <2>1. Applied(Applied(mirror[j][q], Owed(j, q)), pending[q]) = inv[q]
    BY <1>8 DEF ClientsSynced
  <2>2. CASE q # p
    BY <1>1, <1>4, <2>1, <2>2
  <2>3. CASE q = p
    <3>1. mirror[j][p] \in SUBSET Segments /\ Owed(j, p) \in {NoUpdate} \cup Update
      BY <1>1, <1>6, <1>8, <2>3 DEF Owed, Mirrors
    <3>2. Applied(mirror[j][p], Owed(j, p)) \in SUBSET Segments
      BY <3>1, AppliedInventory
    <3> QED
      BY <1>4, <1>6, <2>1, <2>3, <3>2, MergeApplies
  <2> QED
    BY <2>2, <2>3
<1>9. ClientsSynced'
  BY <1>1, <1>3, <1>8 DEF ClientsSynced, Informed, Owed, Due
<1> QED
  BY <1>5, <1>7, <1>9

\* Whoever changes its subscription, a flush goes on for the others.
LEMMA CloseSyncs ==
  ASSUME SyncInv, NEW k \in Sockets, Close(k)
  PROVE  Orderly' /\ StoreSynced' /\ ClientsSynced'
<1> USE DEF SyncInv, NetInv
<1>1. /\ UNCHANGED <<members, inv, former, pending, timer, updates, queue, flushing>>
      /\ mode' = [mode EXCEPT ![k] = "none"]
      /\ mirror' = [mirror EXCEPT ![k] = [p \in Peers |-> Unknown]]
      /\ attached' = [attached EXCEPT ![k] = FALSE]
      /\ current' = (current /\ Audience \ {k} # {})
      /\ mode \in [Sockets -> {"none", "immediate", "batched", "viewer"}]
      /\ attached \in [Sockets -> BOOLEAN] /\ mirror \in Mirrors
      /\ members \subseteq Peers
  BY DEF Close, storeVars, viewVars, batchVars, turnVars, StillCurrent, MirrorInv, HubTyped, ViewInv
<1>2. mode'[k] = "none" /\ \A j \in Sockets : j # k =>
        mode'[j] = mode[j] /\ attached'[j] = attached[j] /\ mirror'[j] = mirror[j]
  BY <1>1 DEF Mirrors
<1>3. Orderly'
  BY <1>1, <1>2 DEF Orderly, InMode
<1>4. StoreSynced'
  BY <1>1, SnapshotSynced DEF StoreSynced, Due
<1>5. ASSUME NEW j \in Sockets, NEW q \in members, Informed(j)', mirror'[j][q] # Unknown
      PROVE  Applied(Applied(mirror'[j][q], Owed(j, q)'), pending[q]) = inv[q]
  <2>1. j # k /\ Informed(j)
    BY <1>2, <1>5 DEF Informed
  <2>2. j \in Audience \ {k}
    BY <2>1 DEF Audience, InMode, Informed
  <2>3. Owed(j, q)' = Owed(j, q)
    BY <1>1, <1>2, <2>1, <2>2 DEF Owed, Due
  <2> QED
    BY <1>2, <1>5, <2>1, <2>3 DEF ClientsSynced
<1> QED
  BY <1>1, <1>3, <1>4, <1>5 DEF ClientsSynced

LEMMA SubscribeSyncs ==
  ASSUME SyncInv, "viewer" \in Modes => ~MayRejoin,
         NEW k \in Sockets, NEW m \in Modes, Subscribe(k, m)
  PROVE  Orderly' /\ StoreSynced' /\ ClientsSynced'
<1> USE DEF SyncInv, NetInv
<1>1. /\ UNCHANGED <<members, inv, former, pending, timer, updates, queue, flushing>>
      /\ mode' = [mode EXCEPT ![k] = m]
      /\ attached' = [attached EXCEPT ![k] = TRUE]
      /\ current' = (current /\ Audience \ {k} # {})
      /\ mode \in [Sockets -> {"none", "immediate", "batched", "viewer"}]
      /\ attached \in [Sockets -> BOOLEAN] /\ mirror \in Mirrors
      /\ members \subseteq Peers
  BY DEF Subscribe, storeVars, batchVars, turnVars, StillCurrent, MirrorInv, HubTyped, ViewInv
<1>2. /\ mode'[k] = m
      /\ \A j \in Sockets : j # k => mode'[j] = mode[j] /\ attached'[j] = attached[j]
  BY <1>1
<1>3. Orderly'
  BY <1>1, <1>2 DEF Orderly, InMode
<1>4. StoreSynced'
  BY <1>1, SnapshotSynced DEF StoreSynced, Due
<1>5. ASSUME NEW j \in Sockets, NEW q \in members
      PROVE  mirror'[j][q] \in {Unknown, inv[q]} \/ (j # k /\ mirror'[j][q] = mirror[j][q])
  <2>1. PICK S, new : mirror' = [new EXCEPT ![k] = Listed(k, S)]
                      /\ (new = mirror \/ \E A, E : new = Announce(Owner[k], A, E, members, mirror))
    <3>1. CASE m # "viewer"
      <4>1. mirror' = [mirror EXCEPT ![k] = Listed(k, members)]
        BY <3>1 DEF Subscribe
      <4> QED
        BY <4>1
    <3>2. CASE m = "viewer"
      <4>1. PICK A, E : mirror' = [Announce(Owner[k], A, E, members, mirror) EXCEPT
                                     ![k] = Listed(k, (View(Owner[k]) \cup A) \cap members)]
        BY <3>2 DEF Subscribe
      <4> QED
        BY <4>1
    <3> QED
      BY <3>1, <3>2
  <2>2. new[j][q] \in {Unknown, inv[q], mirror[j][q]}
    BY <1>1, <2>1, AnnouncedEntries
  <2>3. DOMAIN new = Sockets
    BY <1>1, <2>1 DEF Announce, Mirrors
  <2>4. Listed(k, S)[q] \in {Unknown, inv[q]}
    BY <1>1 DEF Listed
  <2>5. j = k => mirror'[j] = Listed(k, S)
    BY <2>1, <2>3
  <2>6. j # k => mirror'[j] = new[j]
    BY <2>1, <2>3
  <2> QED
    BY <2>2, <2>4, <2>5, <2>6
<1>6. ASSUME NEW j \in Sockets, NEW q \in members, Informed(j)', mirror'[j][q] # Unknown
      PROVE  Applied(Applied(mirror'[j][q], Owed(j, q)'), pending[q]) = inv[q]
  <2>1. Owed(j, q)' \in {Due(q), NoUpdate}
    BY <1>1 DEF Owed, Due
  <2>2. CASE mirror'[j][q] = inv[q]
    BY <2>1, <2>2, SnapshotSynced
  <2>3. CASE j # k /\ mirror'[j][q] = mirror[j][q]
    <3>1. Informed(j)
      BY <1>2, <1>6, <2>3 DEF Informed
    <3>2. j \in Audience \ {k}
      BY <2>3, <3>1 DEF Audience, InMode, Informed
    <3>3. Owed(j, q)' = Owed(j, q)
      BY <1>1, <1>2, <2>3, <3>2 DEF Owed, Due
    <3> QED
      BY <1>6, <2>3, <3>1, <3>3 DEF ClientsSynced
  <2> QED
    BY <1>5, <1>6, <2>2, <2>3
<1> QED
  BY <1>1, <1>3, <1>4, <1>6 DEF ClientsSynced

\* What a flush leaves alone.
Flushed == UNCHANGED <<storeVars, viewVars, turnVars, mode, attached>>

\* A client that knows of a peer may be sent its updates: a viewer sees the peer,
\* and nobody knows of its own.
LEMMA KnownIsSent ==
  ASSUME SyncInv, NEW k \in Sockets, NEW q \in members, Informed(k), mirror[k][q] # Unknown
  PROVE  /\ mode[k] = "viewer" => <<Owner[k], q>> \in sees
         /\ mode[k] = "batched" => <<Owner[k], q>> \in {x \in Peers \X Peers : x[1] # x[2]}
<1> USE DEF SyncInv, NetInv
<1>1. Owner[k] \in Peers /\ q \in Peers
  BY HubAssumption DEF MirrorInv, ViewInv
<1>2. CASE mode[k] = "viewer"
  BY <1>1, <1>2 DEF Informed, MirrorInv, Follows, Linked
<1>3. CASE mode[k] = "batched"
  <2>1. q # Owner[k]
    BY <1>1, <1>3 DEF MirrorInv, Follows, Lists
  <2> QED
    BY <1>1, <1>3, <2>1
<1> QED
  BY <1>2, <1>3

\* A flush that finds clients lacking only what is pending serves them, or owes
\* it to them.
LEMMA FlushSyncs ==
  ASSUME SyncInv, departing = {}, Flushed, NEW mir \in Mirrors, Flush(mir),
         \A k \in Sockets, q \in Peers : mir[k][q] = Unknown <=> mirror[k][q] = Unknown,
         \A k \in Sockets, q \in members : Informed(k) /\ mir[k][q] # Unknown =>
           Applied(mir[k][q], pending[q]) = inv[q]
  PROVE  Orderly' /\ StoreSynced' /\ ClientsSynced'
<1> USE DEF SyncInv, NetInv
<1> DEFINE batched == SentToBatched(pending, mir)
<1>1. /\ UNCHANGED <<members, inv, former, mode, attached, sees>>
      /\ pending' = NoUpdates /\ members \subseteq Peers
      /\ \A q \in Peers : pending'[q] = NoUpdate
      /\ \A S : Applied(S, NoUpdate) = S
  BY DEF Flushed, Flush, storeVars, viewVars, MirrorInv, ViewInv, NoUpdates, Applied
<1>2. ASSUME NEW k \in Sockets, NEW q \in members, Informed(k), mir[k][q] # Unknown
      PROVE  /\ mode[k] = "viewer" => <<Owner[k], q>> \in sees /\ batched[k][q] = mir[k][q]
             /\ mode[k] = "batched" => batched[k][q] = inv[q]
  <2>1. mirror[k][q] # Unknown /\ q \in Peers
    BY <1>1, <1>2
  <2>2. batched[k][q] = IF /\ k \in InMode("batched")
                           /\ <<Owner[k], q>> \in {x \in Peers \X Peers : x[1] # x[2]}
                        THEN Applied(mir[k][q], pending[q]) ELSE mir[k][q]
    BY <2>1 DEF SentToBatched, SentTo
  <2>3. CASE mode[k] = "viewer"
    BY <1>2, <2>1, <2>2, <2>3, KnownIsSent DEF InMode
  <2>4. CASE mode[k] = "batched"
    <3>1. k \in InMode("batched")
      BY <2>4 DEF InMode
    <3>2. <<Owner[k], q>> \in {x \in Peers \X Peers : x[1] # x[2]}
      BY <1>2, <2>1, <2>4, KnownIsSent
    <3> HIDE DEF batched
    <3> QED
      BY <1>2, <2>2, <2>4, <3>1, <3>2
  <2> QED
    BY <2>3, <2>4
<1>3. \A k \in Sockets, q \in Peers : batched[k][q] = Unknown <=> mir[k][q] = Unknown
  BY SentToKnown DEF SentToBatched, MirrorInv, HubTyped
<1> HIDE DEF batched
<1>4. CASE pending = NoUpdates \/ Audience = {}
  <2>1. mirror' = mir /\ EndFlush
    BY <1>4 DEF Flush
  <2>2. current' = FALSE
    BY <2>1 DEF EndFlush
  <2>3. Orderly'
    BY <1>1, <2>2 DEF Orderly, InMode
  <2>4. StoreSynced'
    BY <1>1, <2>2 DEF StoreSynced, Due
  <2>5. ASSUME NEW k \in Sockets, NEW q \in members, Informed(k), mir[k][q] # Unknown
        PROVE  mir[k][q] = inv[q]
    <3>1. Audience # {}
      BY <2>5 DEF Audience, InMode, Informed
    <3>2. pending[q] = NoUpdate
      BY <1>1, <1>4, <3>1
    <3> QED
      BY <1>1, <2>5, <3>2
  <2>6. ClientsSynced'
    BY <1>1, <2>1, <2>2, <2>5 DEF ClientsSynced, Informed, Owed, Due
  <2> QED
    BY <2>3, <2>4, <2>6
<1>5. CASE ~(pending = NoUpdates \/ Audience = {})
  <2>1. PICK now \in Turns(ViewerIds) :
          /\ mirror' = SentToViewers(now, pending, batched)
          /\ IF now = ViewerIds THEN EndFlush
             ELSE /\ flushing' = TRUE
                  /\ updates' = pending
                  /\ queue' = ViewerIds \ now
                  /\ current' = TRUE
    BY <1>5 DEF Flush, batched
  <2>2. current' => /\ flushing' /\ updates' = pending /\ now # ViewerIds
    BY <2>1 DEF EndFlush
  <2>3. now # ViewerIds => InMode("viewer") # {} /\ queue' = ViewerIds \ now /\ current'
                           /\ updates' = pending
    <3>1. now # ViewerIds => ViewerIds # {}
      BY <2>1 DEF Turns
    <3> QED
      BY <2>1, <3>1 DEF ViewerIds
  <2>4. Orderly'
    <3>1. InMode("viewer")' = InMode("viewer")
      BY <1>1 DEF InMode
    <3>2. \A p \in Peers \ (members \cup former) : pending[p] = NoUpdate
      OBVIOUS
    <3>3. timer' = "none" => pending' = NoUpdates
      BY <1>1
    <3>4. \A p \in Peers \ members' : inv'[p] = {}
      BY <1>1 DEF Orderly
    <3>5. InMode("viewer") # {} => ~MayRejoin
      BY DEF Orderly
    <3> QED
      BY <1>1, <2>2, <2>3, <3>1, <3>2, <3>3, <3>4, <3>5 DEF Orderly
  <2>5. StoreSynced'
    BY <1>1, <2>2 DEF StoreSynced, Due, PendingIsNet
  <2>6. ASSUME NEW k \in Sockets, NEW q \in members, Informed(k), mirror'[k][q] # Unknown
        PROVE  Applied(Applied(mirror'[k][q], Owed(k, q)'), pending'[q]) = inv[q]
    <3>1. /\ Applied(Applied(mirror'[k][q], Owed(k, q)'), pending'[q])
               = Applied(mirror'[k][q], Owed(k, q)')
          /\ q \in Peers
      BY <1>1
    <3>2. mirror'[k][q] = IF /\ k \in {j \in InMode("viewer") : Owner[j] \in now}
                             /\ <<Owner[k], q>> \in sees
                          THEN Applied(batched[k][q], pending[q]) ELSE batched[k][q]
      BY <2>1, <3>1 DEF SentToViewers, SentTo
    <3>3. mir[k][q] # Unknown
      <4>1. SentToViewers(now, pending, batched)[k][q] = Unknown <=> batched[k][q] = Unknown
        <5>1. batched \in Mirrors
          BY SentToKnown DEF batched, SentToBatched, MirrorInv, HubTyped
        <5>2. pending \in Batches
          BY DEF MirrorInv, HubTyped
        <5> QED
          BY <3>1, <5>1, <5>2, TurnKnown
      <4> QED
        BY <1>3, <2>1, <2>6, <3>1, <4>1
    <3>4. CASE mode[k] = "batched"
      <4>1. batched[k][q] = inv[q] /\ k \notin InMode("viewer")
        BY <1>2, <2>6, <3>3, <3>4 DEF InMode
      <4>2. mirror'[k][q] = inv[q]
        BY <3>2, <4>1
      <4>3. Owed(k, q)' = NoUpdate
        BY <1>1, <3>4 DEF Owed
      <4> QED
        BY <1>1, <3>1, <4>2, <4>3
    <3>5. CASE mode[k] = "viewer"
      <4>1. <<Owner[k], q>> \in sees /\ batched[k][q] = mir[k][q] /\ k \in InMode("viewer")
        BY <1>2, <2>6, <3>3, <3>5 DEF InMode
      <4>2. Owner[k] \in ViewerIds
        BY <4>1 DEF ViewerIds
      <4>3. CASE Owner[k] \in now
        <5>1. mirror'[k][q] = inv[q]
          BY <2>6, <3>2, <3>3, <4>1, <4>3
        <5>2. Owed(k, q)' = NoUpdate
          BY <2>2, <2>3, <4>3 DEF Owed, Due
        <5> QED
          BY <1>1, <3>1, <5>1, <5>2
      <4>4. CASE Owner[k] \notin now
        <5>1. mirror'[k][q] = mir[k][q]
          BY <3>2, <4>1, <4>4
        <5>2. Owed(k, q)' = pending[q]
          BY <1>1, <2>3, <3>5, <4>2, <4>4 DEF Owed, Due
        <5> QED
          BY <2>6, <3>1, <3>3, <5>1, <5>2
      <4> QED
        BY <4>3, <4>4
    <3> QED
      BY <2>6, <3>4, <3>5 DEF Informed
  <2>7. ClientsSynced'
    BY <1>1, <2>6 DEF ClientsSynced, Informed
  <2> QED
    BY <2>4, <2>5, <2>7
<1> QED
  BY <1>4, <1>5

\* So does the end of a flush that has served everybody.
LEMMA FlushOverSyncs ==
  ASSUME SyncInv, departing = {}, Flushed, NEW mir \in Mirrors, FlushOver(mir),
         \A k \in Sockets, q \in Peers : mir[k][q] = Unknown <=> mirror[k][q] = Unknown,
         \A k \in Sockets, q \in members : Informed(k) /\ mir[k][q] # Unknown =>
           Applied(mir[k][q], pending[q]) = inv[q]
  PROVE  Orderly' /\ StoreSynced' /\ ClientsSynced'
<1>1. CASE requested
  BY <1>1, FlushSyncs DEF FlushOver
<1>2. CASE ~requested
  <2>1. /\ UNCHANGED <<members, inv, former, mode, attached, pending, timer>>
        /\ mirror' = mir /\ current' = FALSE
        /\ \A S : Applied(S, NoUpdate) = S
    BY <1>2 DEF FlushOver, EndFlush, batchVars, Flushed, storeVars, Applied
  <2>2. Orderly'
    BY <2>1 DEF Orderly, InMode, SyncInv
  <2>3. StoreSynced'
    BY <2>1 DEF StoreSynced, Due, SyncInv, NetInv, PendingIsNet
  <2>4. ClientsSynced'
    BY <2>1 DEF ClientsSynced, Informed, Owed, Due
  <2> QED
    BY <2>2, <2>3, <2>4
<1> QED
  BY <1>1, <1>2

\* The batch timer.
LEMMA FlushTimerSyncs ==
  ASSUME SyncInv, FlushTimer
  PROVE  Orderly' /\ StoreSynced' /\ ClientsSynced'
<1> USE DEF SyncInv, NetInv
<1>1. /\ departing = {} /\ Flushed /\ timer = "armed" /\ mirror \in Mirrors
      /\ \A S : Applied(S, NoUpdate) = S
  BY DEF FlushTimer, Idle, Flushed, MirrorInv, HubTyped, Applied
<1>2. CASE flushing
  <2>1. /\ UNCHANGED <<pending, mirror, flushing, updates, queue, current>>
        /\ UNCHANGED <<members, inv, former, mode, attached>> /\ timer' = "due"
    BY <1>1, <1>2 DEF FlushTimer, Flushed, storeVars
  <2> QED
    BY <2>1 DEF Orderly, InMode, StoreSynced, ClientsSynced, Informed, Owed, Due
<1>3. CASE ~flushing
  <2>1. ~current /\ Flush(mirror)
    BY <1>3 DEF FlushTimer, Orderly
  <2>2. \A k \in Sockets, q \in members : Owed(k, q) = NoUpdate
    BY <2>1 DEF Owed, Due
  <2>3. \A k \in Sockets, q \in members : Informed(k) /\ mirror[k][q] # Unknown =>
           Applied(mirror[k][q], pending[q]) = inv[q]
    BY <1>1, <2>2 DEF ClientsSynced
  <2> QED
    BY <1>1, <2>1, <2>3, FlushSyncs
<1> QED
  BY <1>2, <1>3

\* A turn of a flush pays what is owed to the viewers it serves.
LEMMA TurnPays ==
  ASSUME SyncInv, current, NEW now \in SUBSET queue, NEW k \in Sockets, NEW q \in members,
         Informed(k), SentToViewers(now, updates, mirror)[k][q] # Unknown
  PROVE  LET sent == SentToViewers(now, updates, mirror)
             owed == IF Owner[k] \in now THEN NoUpdate ELSE Owed(k, q)
         IN  Applied(Applied(sent[k][q], owed), pending[q]) = inv[q]
<1> USE DEF SyncInv, NetInv
<1> DEFINE sent == SentToViewers(now, updates, mirror)
<1>1. /\ q \in Peers /\ mirror \in Mirrors /\ updates \in Batches
      /\ \A S : Applied(S, NoUpdate) = S
  BY DEF MirrorInv, ViewInv, HubTyped, Applied
<1>2. sent[k][q] = IF /\ k \in {j \in InMode("viewer") : Owner[j] \in now}
                      /\ <<Owner[k], q>> \in sees
                   THEN Applied(mirror[k][q], updates[q]) ELSE mirror[k][q]
  BY <1>1 DEF SentToViewers, SentTo
<1>3. mirror[k][q] # Unknown
  BY <1>1, TurnKnown
<1> HIDE DEF sent
<1>4. Applied(Applied(mirror[k][q], Owed(k, q)), pending[q]) = inv[q]
  BY <1>3 DEF ClientsSynced
<1>5. CASE mode[k] = "batched"
  <2>1. Owed(k, q) = NoUpdate /\ sent[k][q] = mirror[k][q]
    BY <1>2, <1>5 DEF Owed, InMode
  <2> QED
    BY <1>4, <2>1 DEF sent
<1>6. CASE mode[k] = "viewer" /\ Owner[k] \notin now
  BY <1>2, <1>4, <1>6 DEF sent
<1>7. CASE mode[k] = "viewer" /\ Owner[k] \in now
  <2>1. Owed(k, q) = updates[q]
    BY <1>7 DEF Owed, Due
  <2>2. <<Owner[k], q>> \in sees /\ k \in InMode("viewer")
    BY <1>3, <1>7, KnownIsSent DEF InMode
  <2>3. sent[k][q] = Applied(mirror[k][q], updates[q])
    BY <1>2, <1>7, <2>2
  <2> QED
    BY <1>1, <1>4, <1>7, <2>1, <2>3 DEF sent
<1> QED
  BY <1>5, <1>6, <1>7 DEF Informed

LEMMA SliceSyncs ==
  ASSUME SyncInv, Slice
  PROVE  Orderly' /\ StoreSynced' /\ ClientsSynced'
<1> USE DEF SyncInv, NetInv
<1>1. /\ departing = {} /\ Flushed /\ mirror \in Mirrors /\ updates \in Batches
      /\ members \subseteq Peers
      /\ \A S : Applied(S, NoUpdate) = S
  BY DEF Slice, Idle, Flushed, MirrorInv, HubTyped, ViewInv, Applied
<1>2. CASE ~current
  <2>1. FlushOver(mirror)
    BY <1>2 DEF Slice
  <2>2. \A k \in Sockets, q \in members : Owed(k, q) = NoUpdate
    BY <1>2 DEF Owed, Due
  <2>3. \A k \in Sockets, q \in members : Informed(k) /\ mirror[k][q] # Unknown =>
           Applied(mirror[k][q], pending[q]) = inv[q]
    BY <1>1, <2>2 DEF ClientsSynced
  <2> QED
    BY <1>1, <2>1, <2>3, FlushOverSyncs
<1>3. CASE current
  <2>1. PICK now \in Turns(queue) :
          IF now = queue
          THEN FlushOver(SentToViewers(now, updates, mirror))
          ELSE /\ mirror' = SentToViewers(now, updates, mirror)
               /\ queue' = queue \ now
               /\ UNCHANGED <<batchVars, flushing, requested, updates, current>>
    BY <1>3 DEF Slice
  <2> DEFINE sent == SentToViewers(now, updates, mirror)
  <2>2. now \in SUBSET queue
    BY DEF Turns
  <2>3. /\ sent \in Mirrors
        /\ \A k \in Sockets, q \in Peers : sent[k][q] = Unknown <=> mirror[k][q] = Unknown
    BY <1>1, TurnKnown
  <2>4. \A k \in Sockets, q \in members : Informed(k) /\ sent[k][q] # Unknown =>
          Applied(Applied(sent[k][q], IF Owner[k] \in now THEN NoUpdate ELSE Owed(k, q)),
                  pending[q]) = inv[q]
    BY <1>3, <2>2, TurnPays
  <2> HIDE DEF sent
  <2>5. CASE now = queue
    <3>1. FlushOver(sent)
      BY <2>1, <2>5 DEF sent
    <3>2. \A k \in Sockets, q \in members : Informed(k) /\ sent[k][q] # Unknown =>
            Applied(sent[k][q], pending[q]) = inv[q]
      BY <1>1, <2>4, <2>5 DEF Owed
    <3> QED
      BY <1>1, <2>3, <3>1, <3>2, FlushOverSyncs
  <2>6. CASE now # queue
    <3>1. /\ mirror' = sent /\ queue' = queue \ now
          /\ UNCHANGED <<pending, timer, flushing, updates, current>>
          /\ UNCHANGED <<members, inv, former, mode, attached>>
      BY <1>1, <2>1, <2>6 DEF sent, batchVars, Flushed, storeVars
    <3>2. Orderly' /\ StoreSynced'
      BY <3>1 DEF Orderly, InMode, StoreSynced, Due
    <3>3. \A k \in Sockets, q \in members :
            Owed(k, q)' = IF Owner[k] \in now THEN NoUpdate ELSE Owed(k, q)
      BY <2>2, <3>1 DEF Owed, Due
    <3>4. ClientsSynced'
      BY <2>4, <3>1, <3>3 DEF ClientsSynced, Informed
    <3> QED
      BY <3>2, <3>4
  <2> QED
    BY <2>5, <2>6
<1> QED
  BY <1>2, <1>3

\* Nobody is a client and nothing is pending any more.
LEMMA DisconnectedSyncs ==
  ASSUME SyncInv, Disconnected, current' = FALSE,
         \A p \in Peers \ members' : inv'[p] = {}, members' \subseteq Peers
  PROVE  Orderly' /\ StoreSynced' /\ ClientsSynced'
<1>1. /\ \A k \in Sockets : mode'[k] = "none"
      /\ pending' = NoUpdates
      /\ \A q \in members' : pending'[q] = NoUpdate
      /\ \A S : Applied(S, NoUpdate) = S
  BY DEF Disconnected, NoUpdates, Applied
<1>2. Orderly'
  BY <1>1 DEF Orderly, InMode
<1>3. StoreSynced' /\ ClientsSynced'
  BY <1>1 DEF StoreSynced, ClientsSynced, Due, Informed
<1> QED
  BY <1>2, <1>3

\* Every step of the sockets keeps clients in step.
LEMMA SyncStep ==
  ASSUME "immediate" \notin Modes, NoUpdate \notin Update, "viewer" \in Modes => ~MayRejoin,
         SyncInv, [SocketNext]_vars
  PROVE  SyncInv'
<1>1. NetInv'
  BY NetStep DEF SyncInv
<1> SUFFICES Orderly' /\ StoreSynced' /\ ClientsSynced'
  BY <1>1 DEF SyncInv
<1>2. members \subseteq Peers /\ \A p \in Peers \ members : inv[p] = {}
  BY DEF SyncInv, NetInv, MirrorInv, ViewInv, Orderly
<1>3. ASSUME NEW p \in Peers, Join(p) PROVE Orderly' /\ StoreSynced' /\ ClientsSynced'
  BY <1>3, JoinSyncs
<1>4. ASSUME NEW S \in SUBSET members, RemovePeers(S)
      PROVE  Orderly' /\ StoreSynced' /\ ClientsSynced'
  BY <1>4, RemovePeersSyncs
<1>5. CASE Turn
  BY <1>5, PeerLeftSyncs, RefillSyncs DEF Turn
<1>6. ASSUME NEW k \in Sockets, NEW u \in Update, Report(k, u)
      PROVE  Orderly' /\ StoreSynced' /\ ClientsSynced'
  BY <1>6, ReportSyncs
<1>7. CASE FlushTimer \/ Slice
  BY <1>7, FlushTimerSyncs, SliceSyncs
<1>8. ASSUME NEW k \in Sockets, NEW m \in Modes, Subscribe(k, m)
      PROVE  Orderly' /\ StoreSynced' /\ ClientsSynced'
  BY <1>8, SubscribeSyncs
<1>9. ASSUME NEW k \in Sockets, Close(k) PROVE Orderly' /\ StoreSynced' /\ ClientsSynced'
  BY <1>9, CloseSyncs
<1>10. CASE RemoveBroadcast
  <2>1. /\ Disconnected /\ current' = FALSE /\ members' = {}
        /\ inv' = [p \in Peers |-> {}]
    BY <1>10 DEF RemoveBroadcast
  <2> QED
    BY <2>1, DisconnectedSyncs
<1>11. CASE Restart
  <2>1. Disconnected /\ current' = FALSE /\ members' = members /\ inv' = inv
    BY <1>11 DEF Restart, EndFlush, storeVars
  <2> QED
    BY <1>2, <2>1, DisconnectedSyncs
<1>12. CASE UNCHANGED vars
  BY <1>12 DEF vars, viewVars, storeVars, turnVars, batchVars, flushVars, SyncInv,
               Orderly, InMode, StoreSynced, ClientsSynced, Informed, Owed, Due
<1> QED
  BY <1>3, <1>4, <1>5, <1>6, <1>7, <1>8, <1>9, <1>10, <1>11, <1>12 DEF SocketNext

\* Once nothing is pending and no flush runs, clients have the inventories of the
\* store, whatever reports, snapshots, slices, departures and evictions came
\* between (queueInventory, sendViewerBatches, announceFill).  Viewers need that
\* no peer comes back: a slice may tell of the one that was there before.
THEOREM ClientsCatchUp ==
  ASSUME "immediate" \notin Modes, NoUpdate \notin Update, "viewer" \in Modes => ~MayRejoin
  PROVE  SocketSpec => []InventoriesMirrored
<1>1. Init => SyncInv
  <2> SUFFICES ASSUME Init PROVE SyncInv
    OBVIOUS
  <2>1. NetInv
    BY MirrorInit DEF Init, NetInv, InMode, NoUpdates, PendingIsNet
  <2>2. Orderly /\ StoreSynced /\ ClientsSynced
    BY DEF Init, Orderly, InMode, StoreSynced, ClientsSynced, Informed
  <2> QED
    BY <2>1, <2>2 DEF SyncInv
<1>2. SyncInv /\ [SocketNext]_vars => SyncInv'
  BY SyncStep
<1>3. SyncInv => InventoriesMirrored
  <2> SUFFICES ASSUME SyncInv, departing = {}, timer = "none", ~flushing,
                      NEW k \in InMode("batched") \cup Viewing, NEW q \in Known(k)
               PROVE  mirror[k][q] = inv[q]
    BY DEF InventoriesMirrored, Idle
  <2>1. Informed(k) /\ mirror[k][q] # Unknown /\ q \in Peers /\ k \in Sockets
    BY DEF Viewing, InMode, Known, Informed
  <2>2. q \in members
    <3>1. CASE mode[k] = "viewer" /\ attached[k]
      BY <2>1, <3>1 DEF SyncInv, NetInv, MirrorInv, Follows, Linked, Roster, ViewInv, ViewsInSync
    <3>2. CASE mode[k] = "batched"
      BY <2>1, <3>2 DEF SyncInv, NetInv, MirrorInv, Follows, Lists
    <3> QED
      BY <2>1, <3>1, <3>2 DEF Informed
  <2>3. Owed(k, q) = NoUpdate /\ pending[q] = NoUpdate
    BY <2>1 DEF SyncInv, Orderly, Owed, Due, NoUpdates
  <2> QED
    BY <2>1, <2>2, <2>3 DEF SyncInv, ClientsSynced, Applied
<1> QED
  BY <1>1, <1>2, <1>3, PTL DEF SocketSpec

-----------------------------------------------------------------------------
(* What is listed for a peer is what it reported.  A peer that comes back    *)
(* must find no slice of a flush that began before: either none comes back,  *)
(* or one turn serves all viewers.                                           *)

\* Who is told of its peers.
Follower(k) == mode[k] \in {"immediate", "batched"} \/ (mode[k] = "viewer" /\ attached[k])

\* What an update adds was reported by q.
Reports(u, q) == u # NoUpdate => u.added \subseteq reported[q]

\* Nothing is pending or stored for a peer that is not in the store, and what a
\* flush still sends is not about one that may join.
NothingOfOthers ==
  /\ \A p \in Peers \ (members \cup departing) : pending[p] = NoUpdate
  /\ \A p \in Peers \ members : inv[p] = {}
  /\ current => ~MayRejoin /\ \A p \in Peers \ (members \cup former) : updates[p] = NoUpdate

\* The store, the batch, the running flush and the clients have of each peer only
\* what it reported since it joined.
AllReported ==
  \A q \in Peers :
    /\ inv[q] \subseteq reported[q]
    /\ Reports(pending[q], q)
    /\ current => Reports(updates[q], q)
    /\ \A k \in Sockets : Follower(k) /\ mirror[k][q] # Unknown => mirror[k][q] \subseteq reported[q]

ReportedInv ==
  /\ MirrorInv
  /\ reported \in [Peers -> SUBSET Segments]
  /\ NothingOfOthers
  /\ AllReported

\* Updates that were reported keep what was.
LEMMA AppliedReported ==
  ASSUME NEW q \in Peers, NEW S \in {Unknown} \cup SUBSET Segments,
         NEW u \in {NoUpdate} \cup Update,
         S # Unknown => S \subseteq reported[q], Reports(u, q)
  PROVE  Applied(S, u) # Unknown => Applied(S, u) \subseteq reported[q]
BY DEF Applied, Reports

LEMMA MergeReported ==
  ASSUME NEW q \in Peers, NEW R, reported[q] \subseteq R,
         NEW u \in {NoUpdate} \cup Update, NEW v \in Update,
         Reports(u, q), v.added \subseteq R
  PROVE  Merge(u, v).added \subseteq R
<1>1. CASE v.replace
  BY <1>1 DEF Merge
<1>2. CASE ~v.replace /\ u = NoUpdate
  <2>1. v = [replace |-> v.replace, added |-> v.added, removed |-> v.removed]
    BY DEF Update
  <2>2. Merge(u, v) = [v EXCEPT !.removed = @ \ v.added]
    BY <1>2 DEF Merge
  <2>3. Merge(u, v).added = v.added
    BY <2>1, <2>2
  <2> QED
    BY <2>3
<1>3. CASE ~v.replace /\ u # NoUpdate
  BY <1>3 DEF Merge, Reports
<1> QED
  BY <1>1, <1>2, <1>3

LEMMA SentReported ==
  ASSUME NEW K, NEW ups \in Batches, NEW sight, NEW mir \in Mirrors,
         \A q \in Peers : Reports(ups[q], q),
         NEW k \in Sockets, NEW q \in Peers,
         mir[k][q] # Unknown => mir[k][q] \subseteq reported[q]
  PROVE  SentTo(K, ups, sight, mir)[k][q] # Unknown =>
           SentTo(K, ups, sight, mir)[k][q] \subseteq reported[q]
<1> DEFINE new == SentTo(K, ups, sight, mir)
<1>1. mir[k][q] \in {Unknown} \cup SUBSET Segments /\ ups[q] \in {NoUpdate} \cup Update
  BY DEF Mirrors, Batches
<1>2. new[k][q] = Applied(mir[k][q], ups[q]) \/ new[k][q] = mir[k][q]
  BY DEF SentTo
<1> HIDE DEF new
<1>3. Applied(mir[k][q], ups[q]) # Unknown => Applied(mir[k][q], ups[q]) \subseteq reported[q]
  BY <1>1, AppliedReported
<1>4. new[k][q] # Unknown => new[k][q] \subseteq reported[q]
  BY <1>2, <1>3
<1> QED
  BY <1>4 DEF new

\* A peer that joins has no entry anywhere.
LEMMA JoinReported ==
  ASSUME ReportedInv, NEW p \in Peers, Join(p)
  PROVE  NothingOfOthers' /\ AllReported' /\ reported' \in [Peers -> SUBSET Segments]
<1> USE DEF ReportedInv
<1> DEFINE told == Tell(InMode("immediate") \cup InMode("batched"), p, {}, mirror)
<1>1. /\ members' = members \cup {p} /\ p \notin members \cup former
      /\ departing = {} /\ departing' = {} /\ former' = former
      /\ UNCHANGED <<inv, mode, attached, pending, timer, updates, queue, current, flushing>>
      /\ members \subseteq Peers
      /\ reported' = [reported EXCEPT ![p] = {}]
  BY DEF Join, Idle, turnVars, batchVars, flushVars, MirrorInv, ViewInv
<1>2. PICK A, E : mirror' = Announce(p, A, E, members', told)
  BY DEF Join
<1>3. NothingOfOthers'
  BY <1>1 DEF NothingOfOthers
<1>4. inv[p] = {} /\ pending[p] = NoUpdate /\ (current => updates[p] = NoUpdate)
  BY <1>1 DEF NothingOfOthers
<1>5. reported' \in [Peers -> SUBSET Segments] /\ \A q \in Peers : q # p => reported'[q] = reported[q]
  BY <1>1
<1>6. ASSUME NEW k \in Sockets, NEW q \in Peers, Follower(k), mirror'[k][q] # Unknown
      PROVE  mirror'[k][q] \subseteq reported'[q]
  <2>1. mirror'[k][q] \in {inv[q], told[k][q]}
    BY <1>1, <1>2, <1>6, AnnouncedEntries
  <2>2. told[k][q] = IF k \in InMode("immediate") \cup InMode("batched") /\ Owner[k] # p /\ q = p
                     THEN {} ELSE mirror[k][q]
    <3> DEFINE K == InMode("immediate") \cup InMode("batched")
    <3>1. mirror[k] \in [Peers -> {Unknown} \cup SUBSET Segments]
      BY DEF MirrorInv, HubTyped, Mirrors
    <3> HIDE DEF K
    <3>2. told[k] = IF k \in K /\ Owner[k] # p THEN [mirror[k] EXCEPT ![p] = {}] ELSE mirror[k]
      BY DEF Tell, K
    <3>3. told[k][q] = IF k \in K /\ Owner[k] # p /\ q = p THEN {} ELSE mirror[k][q]
      BY <3>1, <3>2
    <3> QED
      BY <3>3 DEF K
  <2> HIDE DEF told
  <2>3. CASE q = p
    <3>1. mirror[k][p] = Unknown
      <4>1. p \notin members \cup departing /\ p \notin registered
        BY <1>1 DEF MirrorInv, Roster
      <4>2. CASE mode[k] = "viewer" /\ attached[k]
        BY <4>1, <4>2 DEF MirrorInv, Follows, Linked, ViewInv, ViewsInSync
      <4>3. CASE mode[k] \in {"immediate", "batched"}
        BY <4>1, <4>3 DEF MirrorInv, Follows, Lists
      <4> QED
        BY <1>6, <4>2, <4>3 DEF Follower
    <3> QED
      BY <1>4, <1>6, <2>1, <2>2, <2>3, <3>1
  <2>4. CASE q # p
    BY <1>5, <1>6, <2>1, <2>2, <2>4 DEF AllReported
  <2> QED
    BY <2>3, <2>4
<1>7. ASSUME NEW q \in Peers
      PROVE  /\ inv[q] \subseteq reported'[q] /\ Reports(pending[q], q)'
             /\ current => Reports(updates[q], q)'
  BY <1>1, <1>4, <1>5 DEF AllReported, Reports
<1>8. AllReported'
  BY <1>1, <1>6, <1>7 DEF AllReported, Follower
<1> QED
  BY <1>3, <1>5, <1>8

\* Removing peers, and what the hub makes of each.
LEMMA LeaveReported ==
  ASSUME ReportedInv,
         (\E S \in SUBSET members : RemovePeers(S)) \/ (\E p \in departing : PeerLeft(p))
  PROVE  NothingOfOthers' /\ AllReported'
<1> USE DEF ReportedInv
<1>1. members \subseteq Peers /\ departing \subseteq Peers /\ departing \cap members = {}
      /\ inv \in [Peers -> SUBSET Segments] /\ pending \in [Peers -> {NoUpdate} \cup Update]
      /\ attached \in [Sockets -> BOOLEAN] /\ mirror \in Mirrors
  BY DEF MirrorInv, ViewInv, Roster, HubTyped, Batches
<1>2. ASSUME NEW S \in SUBSET members, RemovePeers(S) PROVE NothingOfOthers' /\ AllReported'
  <2>1. /\ members' = members \ S /\ departing' = S /\ departing = {}
        /\ inv' = [p \in Peers |-> IF p \in S THEN {} ELSE inv[p]]
        /\ ~MayRejoin => former' = former \cup S
        /\ UNCHANGED <<reported, mode, mirror, attached, pending, updates, current>>
    BY <1>2 DEF RemovePeers, Idle, batchVars, flushVars
  <2>2. NothingOfOthers'
    BY <1>1, <2>1 DEF NothingOfOthers
  <2>3. \A q \in Peers : inv'[q] \subseteq inv[q]
    BY <2>1
  <2>4. AllReported'
    BY <2>1, <2>3 DEF AllReported, Reports, Follower
  <2> QED
    BY <2>2, <2>4
<1>3. ASSUME NEW p \in departing, PeerLeft(p) PROVE NothingOfOthers' /\ AllReported'
  <2>1. /\ UNCHANGED <<members, inv, former, reported, mode, updates, current>>
        /\ departing' = departing \ {p}
        /\ pending' = [pending EXCEPT ![p] = NoUpdate]
        /\ attached' = [k \in Sockets |-> attached[k] /\ Owner[k] # p]
    BY <1>3 DEF PeerLeft, storeVars, flushVars, WithoutUpdatesOf
  <2>2. PICK K : mirror' = Tell(K, p, Unknown, mirror)
    BY <1>3 DEF PeerLeft
  <2>3. \A q \in Peers : pending'[q] = IF q = p THEN NoUpdate ELSE pending[q]
    BY <1>1, <2>1
  <2>4. NothingOfOthers'
    BY <1>1, <2>1, <2>3 DEF NothingOfOthers
  <2>5. ASSUME NEW k \in Sockets, NEW q \in Peers
        PROVE  mirror'[k][q] \in {Unknown, mirror[k][q]}
    <3>1. mirror[k] \in [Peers -> {Unknown} \cup SUBSET Segments]
      BY <1>1 DEF Mirrors
    <3>2. mirror'[k] = mirror[k] \/ mirror'[k] = [mirror[k] EXCEPT ![p] = Unknown]
      BY <2>2 DEF Tell
    <3> QED
      BY <3>1, <3>2
  <2>6. \A k \in Sockets : Follower(k)' => Follower(k)
    BY <1>1, <2>1 DEF Follower
  <2>7. AllReported'
    BY <2>1, <2>3, <2>5, <2>6 DEF AllReported, Reports
  <2> QED
    BY <2>4, <2>7
<1> QED
  BY <1>2, <1>3

\* Who subscribes, and who is announced to viewers, gets inventories of the store.
LEMMA ToldReported ==
  ASSUME ReportedInv,
         UNCHANGED <<members, inv, reported, former, departing, pending, updates>>,
         current' => current,
         \A k \in Sockets, q \in Peers : Follower(k)' =>
           mirror'[k][q] \in {Unknown, inv[q]} \/ (Follower(k) /\ mirror'[k][q] = mirror[k][q])
  PROVE  NothingOfOthers' /\ AllReported'
BY DEF ReportedInv, NothingOfOthers, AllReported, Reports

LEMMA SubscribeReported ==
  ASSUME ReportedInv, NEW k \in Sockets, NEW m \in Modes, Subscribe(k, m)
  PROVE  NothingOfOthers' /\ AllReported'
<1>1. /\ UNCHANGED <<members, inv, reported, former, departing, pending, updates>>
      /\ current' => current
      /\ mode' = [mode EXCEPT ![k] = m]
      /\ attached' = [attached EXCEPT ![k] = TRUE]
      /\ mode \in [Sockets -> {"none", "immediate", "batched", "viewer"}]
      /\ attached \in [Sockets -> BOOLEAN] /\ mirror \in Mirrors
  BY DEF Subscribe, storeVars, batchVars, turnVars, StillCurrent, ReportedInv, MirrorInv, HubTyped
<1>2. ASSUME NEW j \in Sockets, NEW q \in Peers
      PROVE  mirror'[j][q] \in {Unknown, inv[q]} \/ (j # k /\ mirror'[j][q] = mirror[j][q])
  <2>1. PICK S, new : mirror' = [new EXCEPT ![k] = Listed(k, S)]
                      /\ (new = mirror \/ \E A, E : new = Announce(Owner[k], A, E, members, mirror))
    <3>1. CASE m # "viewer"
      <4>1. mirror' = [mirror EXCEPT ![k] = Listed(k, members)]
        BY <3>1 DEF Subscribe
      <4> QED
        BY <4>1
    <3>2. CASE m = "viewer"
      <4>1. PICK A, E : mirror' = [Announce(Owner[k], A, E, members, mirror) EXCEPT
                                     ![k] = Listed(k, (View(Owner[k]) \cup A) \cap members)]
        BY <3>2 DEF Subscribe
      <4> QED
        BY <4>1
    <3> QED
      BY <3>1, <3>2
  <2>2. new[j][q] \in {Unknown, inv[q], mirror[j][q]}
    BY <2>1, AnnouncedEntries
  <2>3. DOMAIN new = Sockets
    BY <1>1, <2>1 DEF Announce, Mirrors
  <2>4. Listed(k, S)[q] \in {Unknown, inv[q]}
    BY DEF Listed
  <2>5. j = k => mirror'[j] = Listed(k, S)
    BY <2>1, <2>3
  <2>6. j # k => mirror'[j] = new[j]
    BY <2>1, <2>3
  <2> QED
    BY <2>2, <2>4, <2>5, <2>6
<1>3. \A j \in Sockets : j # k /\ Follower(j)' => Follower(j)
  BY <1>1 DEF Follower
<1> QED
  BY <1>1, <1>2, <1>3, ToldReported

\* A report adds to what was reported.
LEMMA ReportReported ==
  ASSUME ReportedInv, NEW p \in members, NEW u \in Update, NEW v \in Update,
         v.added = u.added, Stored(p, u), Publish(p, v),
         UNCHANGED <<viewVars, flushVars, turnVars, mode, attached>>
  PROVE  NothingOfOthers' /\ AllReported' /\ reported' \in [Peers -> SUBSET Segments]
<1> USE DEF ReportedInv
<1>1. /\ UNCHANGED <<members, departing, former, mode, attached, updates, current>>
      /\ inv' = [inv EXCEPT ![p] = Applied(@, u)]
      /\ reported' = [reported EXCEPT ![p] = @ \cup u.added]
      /\ mirror' = [k \in Sockets |->
           IF mode[k] = "immediate" /\ Owner[k] # p
           THEN [mirror[k] EXCEPT ![p] = Applied(@, v)] ELSE mirror[k]]
      /\ pending' = pending \/ pending' = [pending EXCEPT ![p] = Merge(@, v)]
      /\ p \in Peers
  BY DEF Stored, Publish, batchVars, flushVars, turnVars, MirrorInv, ViewInv
<1>2. /\ inv \in [Peers -> SUBSET Segments] /\ pending \in [Peers -> {NoUpdate} \cup Update]
      /\ mirror \in Mirrors /\ u.added \in SUBSET Segments
  BY DEF MirrorInv, HubTyped, Batches, Update
<1>3. /\ reported' \in [Peers -> SUBSET Segments]
      /\ reported'[p] = reported[p] \cup u.added
      /\ \A q \in Peers \ {p} : reported'[q] = reported[q]
      /\ \A q \in Peers : reported[q] \subseteq reported'[q]
  BY <1>1, <1>2
<1>4. /\ inv'[p] = Applied(inv[p], u)
      /\ \A q \in Peers \ {p} : inv'[q] = inv[q]
      /\ \A q \in Peers \ {p} : pending'[q] = pending[q]
      /\ pending'[p] \in {pending[p], Merge(pending[p], v)}
  BY <1>1, <1>2
<1>5. NothingOfOthers'
  BY <1>1, <1>4 DEF NothingOfOthers
<1>6. \A S \in {Unknown} \cup SUBSET Segments, w \in Update :
        S # Unknown => Applied(S, w) \subseteq S \cup w.added
  BY DEF Applied
<1>7. inv'[p] \subseteq reported'[p]
  <2>1. inv[p] \subseteq reported[p] /\ inv[p] # Unknown
    BY <1>1, <1>2, Inventories DEF AllReported
  <2> QED
    BY <1>1, <1>2, <1>3, <1>4, <1>6, <2>1
<1>8. Reports(pending[p], p)'
  <2>1. Reports(pending[p], p) /\ pending[p] \in {NoUpdate} \cup Update
    BY <1>1, <1>2 DEF AllReported
  <2>2. reported[p] \subseteq reported'[p] /\ v.added \subseteq reported'[p]
    BY <1>3
  <2>3. Merge(pending[p], v).added \subseteq reported'[p]
    BY <1>1, <2>1, <2>2, MergeReported
  <2> QED
    BY <1>4, <2>1, <2>2, <2>3 DEF Reports
<1>9. ASSUME NEW k \in Sockets, NEW q \in Peers, Follower(k), mirror'[k][q] # Unknown
      PROVE  mirror'[k][q] \subseteq reported'[q]
  <2>1. mirror[k] \in [Peers -> {Unknown} \cup SUBSET Segments]
    BY <1>2 DEF Mirrors
  <2>2. mirror'[k][q] = mirror[k][q] \/ (q = p /\ mirror'[k][q] = Applied(mirror[k][q], v))
    <3>1. mirror'[k] = mirror[k] \/ mirror'[k] = [mirror[k] EXCEPT ![p] = Applied(@, v)]
      BY <1>1
    <3> QED
      BY <2>1, <3>1
  <2>3. mirror[k][q] # Unknown
    BY <1>9, <2>1, <2>2, AppliedKnown
  <2>4. mirror[k][q] \subseteq reported[q]
    BY <1>9, <2>3 DEF AllReported
  <2>5. mirror[k][q] \in {Unknown} \cup SUBSET Segments
    BY <2>1
  <2> QED
    BY <1>3, <1>6, <2>2, <2>3, <2>4, <2>5
<1>10. ASSUME NEW q \in Peers
       PROVE  /\ inv'[q] \subseteq reported'[q] /\ Reports(pending[q], q)'
              /\ current => Reports(updates[q], q)'
  <2>1. inv[q] \subseteq reported[q] /\ Reports(pending[q], q) /\ (current => Reports(updates[q], q))
    BY DEF AllReported
  <2>2. current => Reports(updates[q], q)'
    BY <1>1, <1>3, <2>1 DEF Reports
  <2>3. CASE q = p
    BY <1>7, <1>8, <2>2, <2>3
  <2>4. CASE q # p
    BY <1>3, <1>4, <2>1, <2>2, <2>4 DEF Reports
  <2> QED
    BY <2>3, <2>4
<1>11. AllReported'
  BY <1>1, <1>9, <1>10 DEF AllReported, Follower
<1> QED
  BY <1>3, <1>5, <1>11

\* A flush is never cut, or no peer comes back.
FlushesWhole == Cardinality(Peers) <= ViewersPerTurn

\* What a flush sends was reported.
LEMMA FlushReported ==
  ASSUME ReportedInv, ~MayRejoin \/ FlushesWhole, departing = {}, Flushed,
         NEW mir \in Mirrors, Flush(mir),
         \A k \in Sockets, q \in Peers : Follower(k) /\ mir[k][q] # Unknown =>
           mir[k][q] \subseteq reported[q]
  PROVE  NothingOfOthers' /\ AllReported'
<1> USE DEF ReportedInv
<1> DEFINE batched == SentToBatched(pending, mir)
<1>1. /\ UNCHANGED <<members, inv, former, reported, departing, mode, attached>>
      /\ \A q \in Peers : pending'[q] = NoUpdate
      /\ pending \in Batches /\ \A q \in Peers : Reports(pending[q], q)
  BY DEF Flushed, Flush, storeVars, turnVars, NoUpdates, AllReported, MirrorInv, HubTyped
<1>2. batched \in Mirrors
  BY <1>1, SentToKnown DEF SentToBatched
<1>3. \A k \in Sockets, q \in Peers : Follower(k) /\ batched[k][q] # Unknown =>
           batched[k][q] \subseteq reported[q]
  BY <1>1, SentReported DEF SentToBatched
<1> HIDE DEF batched
<1>4. /\ current' => /\ ~MayRejoin /\ updates' = pending
      /\ \/ mirror' = mir
         \/ \E V : mirror' = SentToViewers(V, pending, batched)
  <2>1. CASE pending = NoUpdates \/ Audience = {}
    BY <2>1 DEF Flush, EndFlush
  <2>2. CASE ~(pending = NoUpdates \/ Audience = {})
    <3>1. PICK now \in Turns(ViewerIds) :
            /\ mirror' = SentToViewers(now, pending, batched)
            /\ IF now = ViewerIds THEN EndFlush
               ELSE /\ flushing' = TRUE
                    /\ updates' = pending
                    /\ queue' = ViewerIds \ now
                    /\ current' = TRUE
      BY <2>2 DEF Flush, batched
    <3>2. ASSUME FlushesWhole PROVE now = ViewerIds
      <4>1. ViewerIds \subseteq Peers
        BY HubAssumption DEF ViewerIds, InMode
      <4>2. IsFiniteSet(ViewerIds) /\ Cardinality(ViewerIds) <= Cardinality(Peers)
        BY <4>1, ViewAssumption, FS_Subset
      <4>3. now \subseteq ViewerIds /\ IsFiniteSet(now)
            /\ Cardinality(now) <= Cardinality(ViewerIds)
            /\ (Cardinality(now) = Cardinality(ViewerIds) => now = ViewerIds)
        BY <4>2, FS_Subset DEF Turns
      <4>4. Cardinality(now) \in Nat /\ Cardinality(ViewerIds) \in Nat /\ Cardinality(Peers) \in Nat
        BY <4>2, <4>3, ViewAssumption, FS_CardinalityType
      <4>5. Cardinality(now) = ViewersPerTurn \/ now = ViewerIds
        BY DEF Turns
      <4> QED
        BY <3>2, <4>2, <4>3, <4>4, <4>5, HubAssumption DEF FlushesWhole
    <3> QED
      BY <3>1, <3>2 DEF EndFlush
  <2> QED
    BY <2>1, <2>2
<1>5. NothingOfOthers'
  BY <1>1, <1>4 DEF NothingOfOthers
<1>6. \A k \in Sockets, q \in Peers : Follower(k) /\ mirror'[k][q] # Unknown =>
           mirror'[k][q] \subseteq reported[q]
  <2>1. ASSUME NEW V, NEW k \in Sockets, NEW q \in Peers, Follower(k),
               SentToViewers(V, pending, batched)[k][q] # Unknown
        PROVE  SentToViewers(V, pending, batched)[k][q] \subseteq reported[q]
    <3> DEFINE K == {j \in InMode("viewer") : Owner[j] \in V}
    <3>1. SentToViewers(V, pending, batched) = SentTo(K, pending, sees, batched)
      BY DEF SentToViewers
    <3> HIDE DEF K
    <3> QED
      BY <1>1, <1>2, <1>3, <2>1, <3>1, SentReported
  <2> QED
    BY <1>4, <2>1
<1>7. AllReported'
  BY <1>1, <1>4, <1>6 DEF AllReported, Reports, Follower
<1> QED
  BY <1>5, <1>7

LEMMA FlushOverReported ==
  ASSUME ReportedInv, ~MayRejoin \/ FlushesWhole, departing = {}, Flushed,
         NEW mir \in Mirrors, FlushOver(mir),
         \A k \in Sockets, q \in Peers : Follower(k) /\ mir[k][q] # Unknown =>
           mir[k][q] \subseteq reported[q]
  PROVE  NothingOfOthers' /\ AllReported'
<1>1. CASE requested
  BY <1>1, FlushReported DEF FlushOver
<1>2. CASE ~requested
  <2>1. /\ UNCHANGED <<members, inv, former, reported, departing, mode, attached, pending>>
        /\ mirror' = mir /\ current' = FALSE
    BY <1>2 DEF FlushOver, EndFlush, batchVars, Flushed, storeVars, turnVars
  <2> QED
    BY <2>1 DEF ReportedInv, NothingOfOthers, AllReported, Reports, Follower
<1> QED
  BY <1>1, <1>2

LEMMA FlushingReported ==
  ASSUME ReportedInv, ~MayRejoin \/ FlushesWhole, FlushTimer \/ Slice
  PROVE  NothingOfOthers' /\ AllReported'
<1> USE DEF ReportedInv
<1>1. /\ departing = {} /\ Flushed /\ mirror \in Mirrors /\ updates \in Batches
      /\ \A k \in Sockets, q \in Peers : Follower(k) /\ mirror[k][q] # Unknown =>
           mirror[k][q] \subseteq reported[q]
  BY DEF FlushTimer, Slice, Idle, Flushed, MirrorInv, HubTyped, AllReported
<1>2. UNCHANGED <<members, inv, former, reported, departing, mode, attached>>
  BY <1>1 DEF Flushed, storeVars, turnVars
<1>3. CASE FlushTimer
  <2>1. CASE flushing
    <3>1. UNCHANGED <<pending, mirror, updates, current>>
      BY <1>3, <2>1 DEF FlushTimer
    <3> QED
      BY <1>2, <3>1 DEF NothingOfOthers, AllReported, Reports, Follower
  <2>2. CASE ~flushing
    BY <1>1, <1>3, <2>2, FlushReported DEF FlushTimer
  <2> QED
    BY <2>1, <2>2
<1>4. CASE Slice
  <2>1. CASE ~current
    BY <1>1, <1>4, <2>1, FlushOverReported DEF Slice
  <2>2. CASE current
    <3>1. PICK now :
            IF now = queue
            THEN FlushOver(SentToViewers(now, updates, mirror))
            ELSE /\ mirror' = SentToViewers(now, updates, mirror)
                 /\ UNCHANGED <<batchVars, flushing, requested, updates, current>>
      BY <1>4, <2>2 DEF Slice
    <3> DEFINE sent == SentToViewers(now, updates, mirror)
    <3>2. sent \in Mirrors
      BY <1>1, TurnKnown
    <3>3. \A q \in Peers : Reports(updates[q], q)
      BY <2>2 DEF AllReported
    <3>4. \A k \in Sockets, q \in Peers : Follower(k) /\ sent[k][q] # Unknown =>
            sent[k][q] \subseteq reported[q]
      BY <1>1, <3>3, SentReported DEF SentToViewers
    <3> HIDE DEF sent
    <3>5. CASE now = queue
      <4>1. FlushOver(sent)
        BY <3>1, <3>5 DEF sent
      <4> QED
        BY <1>1, <3>2, <3>4, <4>1, FlushOverReported
    <3>6. CASE now # queue
      <4>1. mirror' = sent /\ UNCHANGED <<pending, updates, current>>
        BY <3>1, <3>6 DEF sent, batchVars
      <4> QED
        BY <1>2, <3>4, <4>1 DEF NothingOfOthers, AllReported, Reports, Follower
    <3> QED
      BY <3>5, <3>6
  <2> QED
    BY <2>1, <2>2
<1> QED
  BY <1>3, <1>4

\* Every step keeps what clients list within what was reported.
LEMMA ReportedStep ==
  ASSUME ~MayRejoin \/ FlushesWhole, ReportedInv, [Next]_vars
  PROVE  ReportedInv'
<1>1. MirrorInv'
  BY MirrorStep DEF ReportedInv
<1> DEFINE Goal == NothingOfOthers' /\ AllReported' /\ reported' \in [Peers -> SUBSET Segments]
<1> SUFFICES Goal
  BY <1>1 DEF ReportedInv
<1>2. members \subseteq Peers /\ reported \in [Peers -> SUBSET Segments]
      /\ \A p \in Peers \ members : inv[p] = {}
  BY DEF ReportedInv, MirrorInv, ViewInv, NothingOfOthers
<1>3. ASSUME NEW p \in Peers, Join(p) PROVE Goal
  BY <1>3, JoinReported
<1>4. ASSUME NEW S \in SUBSET members, RemovePeers(S) PROVE Goal
  BY <1>2, <1>4, LeaveReported DEF RemovePeers
<1>5. ASSUME NEW p \in departing, PeerLeft(p) PROVE Goal
  BY <1>2, <1>5, LeaveReported DEF PeerLeft, storeVars
<1>6. ASSUME NEW w \in refill, Refill(w) PROVE Goal
  <2>1. /\ UNCHANGED <<members, inv, reported, former, departing, pending, updates>>
        /\ UNCHANGED <<current, mode, attached>>
    BY <1>6 DEF Refill, storeVars, batchVars, flushVars
  <2>2. PICK A, E : mirror' = Announce(w, A, E, members, mirror)
    BY <1>6 DEF Refill
  <2>3. \A k \in Sockets, q \in Peers : Follower(k)' =>
          mirror'[k][q] \in {Unknown, inv[q]} \/ (Follower(k) /\ mirror'[k][q] = mirror[k][q])
    BY <2>1, <2>2, AnnouncedEntries DEF Follower
  <2> QED
    BY <1>2, <2>1, <2>3, ToldReported
<1>7. ASSUME NEW k \in Sockets, NEW u \in Update, Report(k, u) PROVE Goal
  BY <1>7, ReportReported DEF Report
<1>8. ASSUME NEW p \in Peers, NEW u \in Update, ReportRest(p, u) PROVE Goal
  <2>1. [u EXCEPT !.replace = TRUE] \in Update /\ [u EXCEPT !.replace = TRUE].added = u.added
    BY DEF Update
  <2> QED
    BY <1>8, <2>1, ReportReported DEF ReportRest
<1>9. CASE FlushTimer \/ Slice
  BY <1>2, <1>9, FlushingReported DEF FlushTimer, Slice, storeVars
<1>10. ASSUME NEW k \in Sockets, NEW m \in Modes, Subscribe(k, m) PROVE Goal
  BY <1>2, <1>10, SubscribeReported DEF Subscribe, storeVars
<1>11. ASSUME NEW k \in Sockets, Close(k) PROVE Goal
  <2>1. /\ UNCHANGED <<members, inv, reported, former, departing, pending, updates>>
        /\ current' => current
        /\ mode' = [mode EXCEPT ![k] = "none"]
        /\ mirror' = [mirror EXCEPT ![k] = [p \in Peers |-> Unknown]]
        /\ attached' = [attached EXCEPT ![k] = FALSE]
    BY <1>11 DEF Close, storeVars, batchVars, turnVars, StillCurrent
  <2>2. mode'[k] = "none" /\ \A j \in Sockets : j # k =>
          mode'[j] = mode[j] /\ attached'[j] = attached[j] /\ mirror'[j] = mirror[j]
    BY <2>1 DEF ReportedInv, MirrorInv, HubTyped, Mirrors
  <2>3. \A j \in Sockets, q \in Peers : Follower(j)' =>
          Follower(j) /\ mirror'[j][q] = mirror[j][q]
    BY <2>2 DEF Follower
  <2> QED
    BY <1>2, <2>1, <2>3, ToldReported
<1>12. CASE RemoveBroadcast \/ Restart
  <2>1. /\ \A k \in Sockets : mode'[k] = "none"
        /\ \A q \in Peers : pending'[q] = NoUpdate
        /\ current' = FALSE /\ reported' = reported
        /\ \A q \in Peers : inv'[q] \subseteq inv[q]
        /\ \A q \in Peers \ members' : inv'[q] = {}
    BY <1>2, <1>12 DEF RemoveBroadcast, Restart, Disconnected, EndFlush, NoUpdates, storeVars
  <2> QED
    BY <1>2, <2>1 DEF ReportedInv, NothingOfOthers, AllReported, Reports, Follower
<1>13. CASE UNCHANGED vars
  BY <1>13 DEF vars, storeVars, batchVars, flushVars, turnVars, ReportedInv,
               NothingOfOthers, AllReported, Reports, Follower
<1> QED
  BY <1>3, <1>4, <1>5, <1>6, <1>7, <1>8, <1>9, <1>10, <1>11, <1>12, <1>13
  DEF Next, SocketNext, Turn

LEMMA ReportedInit == Init => ReportedInv
<1> SUFFICES ASSUME Init PROVE ReportedInv
  OBVIOUS
<1>1. MirrorInv
  BY MirrorInit
<1>2. NothingOfOthers /\ AllReported /\ reported \in [Peers -> SUBSET Segments]
  BY DEF Init, NothingOfOthers, NoUpdates, AllReported, Reports, Follower
<1> QED
  BY <1>1, <1>2 DEF ReportedInv

LEMMA ReportedNext == (~MayRejoin \/ FlushesWhole) /\ ReportedInv /\ [Next]_vars => ReportedInv'
BY ReportedStep

LEMMA ReportedSafe == ReportedInv => MembershipMirrored /\ NothingResurrected
BY MirrorsMembers DEF ReportedInv, AllReported, NothingResurrected, Follower, InMode, Viewing, Known

\* `peer_left` is never followed by a stale update, if flushes are whole or peers
\* do not come back: clients list for a peer only what it reported since it last
\* joined.  Without the hypothesis a slice of a flush does tell of the time before
\* (sendViewerBatches checks the view, not who is in it).
THEOREM NothingIsResurrected ==
  ASSUME ~MayRejoin \/ FlushesWhole
  PROVE  Spec => []NothingResurrected
<1>1. ReportedInv /\ [Next]_vars => ReportedInv'
  BY ReportedNext
<1>2. ReportedInv => NothingResurrected
  BY ReportedSafe
<1> QED
  BY <1>1, <1>2, ReportedInit, PTL DEF Spec
=============================================================================
