-------------------------- MODULE TrackerHubProofs --------------------------
(***************************************************************************)
(* What is proved of the tracker's neighbor views and of the membership of *)
(* its subscribers: the two Maps of the views agree, clients know exactly  *)
(* whom they are to see, and the views of viewers are full.                *)
(***************************************************************************)
EXTENDS TrackerHub, FiniteSetTheorems, TLAPS

\* Merging updates in a batch and applying the result is applying them one
\* after the other (queueInventory against the client's handlers), whatever
\* the client knows: the law behind PendingIsNet.
THEOREM MergeComposes ==
  ASSUME NEW S \in SUBSET Segments, NEW u \in Update, NEW v \in Update,
         NoUpdate \notin Update
  PROVE  Applied(S, Merge(u, v)) = Applied(Applied(S, u), v)
<1>1. S # Unknown /\ Applied(S, u) # Unknown
  BY HubAssumption DEF Update, Applied
<1>2. u # NoUpdate /\ v # NoUpdate
  OBVIOUS
<1>3. CASE v.replace
  BY <1>1, <1>2, <1>3 DEF Applied, Merge
<1>4. CASE ~v.replace
  <2>1. Merge(u, v) = [replace |-> u.replace,
                       added |-> (u.added \ v.removed) \cup v.added,
                       removed |-> IF u.replace THEN {}
                                   ELSE (u.removed \cup v.removed) \ v.added]
    BY <1>2, <1>4 DEF Merge
  <2>2. Merge(u, v) \in Update
    BY <2>1 DEF Update
  <2>3. Applied(Applied(S, u), v) = (Applied(S, u) \ v.removed) \cup v.added
    BY <1>1, <1>2, <1>4 DEF Applied
  <2>4. CASE u.replace
    <3>1. Applied(S, u) = u.added
      BY <1>1, <1>2, <2>4 DEF Applied
    <3>2. Merge(u, v).replace /\ Merge(u, v).added = (u.added \ v.removed) \cup v.added
      BY <2>1, <2>4
    <3>3. Applied(S, Merge(u, v)) = Merge(u, v).added
      BY <1>1, <2>2, <3>2 DEF Applied
    <3> QED
      BY <2>3, <3>1, <3>2, <3>3
  <2>5. CASE ~u.replace
    <3>1. Applied(S, u) = (S \ u.removed) \cup u.added
      BY <1>1, <1>2, <2>5 DEF Applied
    <3>2. Applied(S, Merge(u, v)) =
            (S \ Merge(u, v).removed) \cup Merge(u, v).added
      <4>1. ~Merge(u, v).replace /\ Merge(u, v) # NoUpdate
        BY <2>1, <2>2, <2>5
      <4> HIDE DEF Merge
      <4> QED
        BY <1>1, <4>1 DEF Applied
    <3>3. /\ Merge(u, v).removed = (u.removed \cup v.removed) \ v.added
          /\ Merge(u, v).added = (u.added \ v.removed) \cup v.added
      BY <2>1, <2>5
    <3> QED
      BY <2>3, <3>1, <3>2, <3>3
  <2> QED
    BY <2>4, <2>5
<1> QED
  BY <1>3, <1>4

-----------------------------------------------------------------------------
(* The views *)

\* Swapping the two ends of every link twice gives the links back.
LEMMA FlipMembers ==
  ASSUME NEW L \in SUBSET (Peers \X Peers), NEW x, NEW y
  PROVE  <<x, y>> \in Flip(L) <=> <<y, x>> \in L
BY DEF Flip

\* Sets of links with the same members are the same.
LEMMA SameLinks ==
  ASSUME NEW L \in SUBSET (Peers \X Peers), NEW M \in SUBSET (Peers \X Peers),
         \A x, y \in Peers : <<x, y>> \in L <=> <<x, y>> \in M
  PROVE  L = M
<1>1. \A e \in Peers \X Peers : e = <<e[1], e[2]>> /\ e[1] \in Peers /\ e[2] \in Peers
  OBVIOUS
<1>2. \A e \in Peers \X Peers : e \in L <=> e \in M
  BY <1>1
<1> QED
  BY <1>2

\* A view is a finite set of peers.
LEMMA ViewFinite ==
  ASSUME NEW p
  PROVE  IsFiniteSet(View(p)) /\ Cardinality(View(p)) \in Nat
<1>1. View(p) \in SUBSET Peers
  BY DEF View
<1> QED
  BY <1>1, ViewAssumption, FS_Subset, FS_CardinalityType

\* Putting one element in the place of another does not make a set larger.
LEMMA SwapMember ==
  ASSUME NEW S, IsFiniteSet(S), NEW d \in S, NEW x, x \notin S,
         NEW T, T \subseteq (S \ {d}) \cup {x}
  PROVE  Cardinality(T) <= Cardinality(S) /\ Cardinality(T) \in Nat
<1> DEFINE R == S \ {d}
<1>1. IsFiniteSet(R) /\ Cardinality(R) = Cardinality(S) - 1
  BY FS_RemoveElement, Z3
<1>2. x \notin R /\ T \subseteq R \cup {x}
  OBVIOUS
<1> HIDE DEF R
<1>3. IsFiniteSet(R \cup {x}) /\ Cardinality(R \cup {x}) = Cardinality(R) + 1
  BY <1>1, <1>2, FS_AddElement, Z3
<1>4. Cardinality(T) <= Cardinality(R \cup {x}) /\ IsFiniteSet(T)
  BY <1>2, <1>3, FS_Subset
<1>5. Cardinality(T) \in Nat /\ Cardinality(S) \in Nat
  BY <1>4, FS_CardinalityType
<1> QED
  BY <1>1, <1>3, <1>4, <1>5

\* What fill may add and evict: members other than p it does not see yet, at
\* most as many as its view has room for, and one neighbor of each of them
\* that is full and does not see p.
LEMMA FillChoice ==
  ASSUME ViewsInSync, NEW p \in Peers, NEW known \in SUBSET Peers,
         NEW A \in Additions(p, known), NEW E \in Evictions(p, A)
  PROVE  /\ A \subseteq known /\ p \notin A /\ A \cap View(p) = {}
         /\ Cardinality(View(p)) + Cardinality(A) <= ViewSize
         /\ E \subseteq sees
         /\ \A e \in E : e[1] \in A
         /\ \A c \in A : HasRoom(c) \/ <<c, p>> \in sees
                           \/ Cardinality({e \in E : e[1] = c}) = 1
         /\ \A c \in A : HasRoom(c) \/ <<c, p>> \in sees => {e \in E : e[1] = c} = {}
<1>1. A \subseteq Candidates(p, known) /\ Cardinality(A) <= ViewSize - Cardinality(View(p))
  BY DEF Additions
<1>2. A \subseteq known /\ p \notin A /\ A \cap View(p) = {}
  BY <1>1 DEF Candidates
<1>3. IsFiniteSet(A)
  BY <1>2, ViewAssumption, FS_Subset
<1>4. Cardinality(A) \in Nat
  BY <1>3, FS_CardinalityType
<1>5. Cardinality(View(p)) + Cardinality(A) <= ViewSize
  BY <1>1, <1>4, ViewFinite, ViewAssumption
<1>6. E \subseteq sees /\ \A e \in E : e[1] \in Crowded(p, A)
  BY DEF Evictions
<1>7. \A c \in Crowded(p, A) : Cardinality({e \in E : e[1] = c}) = 1
  BY DEF Evictions
<1>8. Crowded(p, A) = {c \in A : <<c, p>> \notin sees /\ ~HasRoom(c)}
  BY DEF Crowded, Reciprocal
<1> QED
  BY <1>2, <1>5, <1>6, <1>7, <1>8

\* Filling a view keeps all views in step and within their size, that of the
\* peer itself and those of the peers that link back to it.
LEMMA RelinkInSync ==
  ASSUME ViewsInSync, registered \subseteq Peers,
         NEW known \in SUBSET Peers, registered \subseteq known,
         NEW p \in known, NEW A \in Additions(p, known), NEW E \in Evictions(p, A),
         Relink(p, known, A, E)
  PROVE  ViewsInSync'
<1> DEFINE links == ({p} \X A) \cup (A \X {p})
<1>1. /\ registered' = known
      /\ sees' = (sees \ E) \cup links
      /\ seenBy' = (seenBy \ Flip(E)) \cup links
  BY DEF Relink
<1>2. /\ A \subseteq known /\ p \notin A /\ A \cap View(p) = {}
      /\ Cardinality(View(p)) + Cardinality(A) <= ViewSize
      /\ E \subseteq sees
      /\ \A e \in E : e[1] \in A
      /\ \A c \in A : HasRoom(c) \/ <<c, p>> \in sees
                        \/ Cardinality({e \in E : e[1] = c}) = 1
      /\ \A c \in A : HasRoom(c) \/ <<c, p>> \in sees => {e \in E : e[1] = c} = {}
  BY FillChoice
<1>3. /\ sees \subseteq registered \X registered
      /\ sees \subseteq Peers \X Peers
      /\ seenBy = Flip(sees)
      /\ \A q \in Peers : q \notin View(q) /\ Cardinality(View(q)) <= ViewSize
  BY DEF ViewsInSync
<1>4. sees' \subseteq registered' \X registered'
  BY <1>1, <1>2, <1>3
<1>5. seenBy' = Flip(sees')
  <2>1. seenBy' \subseteq Peers \X Peers /\ sees' \subseteq Peers \X Peers
    BY <1>1, <1>2, <1>3 DEF Flip
  <2>2. Flip(sees') \subseteq Peers \X Peers
    BY <2>1 DEF Flip
  <2>3. ASSUME NEW x \in Peers, NEW y \in Peers
        PROVE  <<x, y>> \in seenBy' <=> <<x, y>> \in Flip(sees')
    <3>1. <<x, y>> \in seenBy <=> <<y, x>> \in sees
      BY <1>3, FlipMembers
    <3>2. <<x, y>> \in Flip(E) <=> <<y, x>> \in E
      BY <1>2, <1>3, FlipMembers
    <3>3. <<x, y>> \in links <=> <<y, x>> \in links
      OBVIOUS
    <3>4. <<x, y>> \in Flip(sees') <=> <<y, x>> \in sees'
      BY <2>1, FlipMembers
    <3> QED
      BY <1>1, <3>1, <3>2, <3>3, <3>4
  <2> QED
    BY <2>1, <2>2, <2>3, SameLinks
<1>6. ASSUME NEW q \in Peers
      PROVE  q \notin View(q)' /\ Cardinality(View(q)') <= ViewSize
  <2>1. View(q)' = {r \in Peers : <<q, r>> \in (sees \ E) \cup links}
    BY <1>1 DEF View
  <2>2. IsFiniteSet(View(q)) /\ Cardinality(View(q)) \in Nat
    BY ViewFinite
  <2>3. CASE q = p
    <3>1. View(q)' = View(p) \cup A
      BY <1>2, <2>1, <2>3 DEF View
    <3>2. IsFiniteSet(A) /\ IsFiniteSet(View(p))
      BY <1>2, <2>2, <2>3, ViewAssumption, FS_Subset
    <3>3. Cardinality(View(p) \cup A) <= ViewSize
      <4>1. View(p) \cap A = {}
        BY <1>2
      <4>2. Cardinality(View(p) \cup A) = Cardinality(View(p)) + Cardinality(A) - Cardinality({})
        BY <3>2, <4>1, FS_Union
      <4>3. Cardinality({}) = 0
        BY FS_EmptySet
      <4>4. Cardinality(A) \in Nat
        BY <3>2, FS_CardinalityType
      <4> QED
        BY <1>2, <2>2, <2>3, <4>2, <4>3, <4>4, ViewAssumption
    <3>4. p \notin View(p) \cup A
      BY <1>2, <1>3
    <3> QED
      BY <2>3, <3>1, <3>3, <3>4
  <2>4. CASE q \in A
    <3>1. q # p /\ q \notin View(q)
      BY <1>2, <1>3, <2>4
    <3> DEFINE gone == {r \in Peers : <<q, r>> \in E}
    <3>2. View(q)' = (View(q) \ gone) \cup {p}
      BY <1>2, <2>1, <2>4, <3>1 DEF View
    <3>3. q \notin View(q)'
      BY <3>1, <3>2
    <3>4. CASE <<q, p>> \in sees
      <4>1. {e \in E : e[1] = q} = {}
        BY <1>2, <2>4, <3>4
      <4>2. gone = {}
        BY <4>1
      <4>3. View(q)' = View(q)
        BY <3>2, <3>4, <4>2 DEF View
      <4> QED
        BY <1>3, <3>3, <4>3
    <3>5. CASE <<q, p>> \notin sees /\ HasRoom(q)
      <4>1. {e \in E : e[1] = q} = {}
        BY <1>2, <2>4, <3>5
      <4>2. gone = {}
        BY <4>1
      <4>3. View(q)' = View(q) \cup {p} /\ p \notin View(q)
        BY <3>2, <3>5, <4>2 DEF View
      <4>4. Cardinality(View(q) \cup {p}) = Cardinality(View(q)) + 1
        BY <2>2, <4>3, FS_AddElement
      <4> QED
        BY <2>2, <3>3, <3>5, <4>3, <4>4, ViewAssumption DEF HasRoom
    <3>6. CASE <<q, p>> \notin sees /\ ~HasRoom(q)
      <4>1. Cardinality({e \in E : e[1] = q}) = 1
        BY <1>2, <2>4, <3>6
      <4>2. PICK e \in E : e[1] = q
        <5>1. Cardinality({}) = 0
          BY FS_EmptySet
        <5>2. {e \in E : e[1] = q} # {}
          BY <4>1, <5>1
        <5> QED
          BY <5>2
      <4>3. e \in sees /\ e[2] \in Peers /\ e = <<q, e[2]>>
        BY <1>2, <1>3, <4>2
      <4>4. e[2] \in View(q) /\ e[2] \in gone
        BY <4>2, <4>3 DEF View
      <4>5. View(q)' \subseteq (View(q) \ {e[2]}) \cup {p}
        BY <3>2, <4>4
      <4>6. p \notin View(q)
        BY <3>6 DEF View
      <4>7. Cardinality(View(q)') <= Cardinality(View(q)) /\ Cardinality(View(q)') \in Nat
        BY <2>2, <4>4, <4>5, <4>6, SwapMember
      <4> QED
        BY <1>3, <2>2, <3>3, <4>7, ViewAssumption
    <3> QED
      BY <3>4, <3>5, <3>6
  <2>5. CASE q # p /\ q \notin A
    <3>1. \A r \in Peers : <<q, r>> \notin E /\ <<q, r>> \notin links
      BY <1>2, <2>5
    <3>2. View(q)' = View(q)
      BY <2>1, <3>1 DEF View
    <3> QED
      BY <1>3, <3>2
  <2> QED
    BY <2>3, <2>4, <2>5
<1> QED
  BY <1>4, <1>5, <1>6 DEF ViewsInSync

\* A peer that leaves is in no view afterwards, and no view grows.
LEMMA LeaveInSync ==
  ASSUME ViewsInSync, registered \subseteq Peers, NEW p \in Peers, Leave(p)
  PROVE  ViewsInSync'
<1>1. /\ sees \subseteq registered \X registered
      /\ sees \subseteq Peers \X Peers
      /\ seenBy = Flip(sees)
      /\ \A q \in Peers : q \notin View(q) /\ Cardinality(View(q)) <= ViewSize
  BY DEF ViewsInSync
<1>2. seenBy \subseteq Peers \X Peers
  BY <1>1 DEF Flip
<1>3. ASSUME NEW x \in Peers, NEW y \in Peers
      PROVE  /\ <<x, y>> \in sees' <=> <<x, y>> \in sees /\ x # p /\ y # p
             /\ <<x, y>> \in seenBy' <=> <<y, x>> \in sees /\ x # p /\ y # p
  <2>1. <<x, y>> \in seenBy <=> <<y, x>> \in sees
    BY <1>1, FlipMembers
  <2>2. x \in Watchers(p) <=> <<x, p>> \in sees
    BY <1>1, FlipMembers DEF Watchers
  <2>3. x \in View(p) <=> <<p, x>> \in sees
    BY DEF View
  <2>4. <<x, y>> \in sees' <=> <<x, y>> \in sees /\ x # p /\ ~(y = p /\ x \in Watchers(p))
    BY DEF Leave
  <2>5. <<x, y>> \in seenBy' <=> <<x, y>> \in seenBy /\ x # p /\ ~(y = p /\ x \in View(p))
    BY DEF Leave
  <2> QED
    BY <2>1, <2>2, <2>3, <2>4, <2>5
<1>4. sees' \subseteq sees /\ seenBy' \subseteq seenBy /\ registered' = registered \ {p}
  BY DEF Leave
<1>5. sees' \subseteq registered' \X registered'
  <2> SUFFICES ASSUME NEW e \in sees'
               PROVE  e \in registered' \X registered'
    OBVIOUS
  <2>1. e \in sees /\ e = <<e[1], e[2]>> /\ e[1] \in registered /\ e[2] \in registered
    BY <1>1, <1>4
  <2>2. e[1] \in Peers /\ e[2] \in Peers
    BY <2>1
  <2>3. e[1] # p /\ e[2] # p
    BY <1>3, <2>1, <2>2
  <2> QED
    BY <1>4, <2>1, <2>3
<1>6. seenBy' = Flip(sees')
  <2>1. sees' \in SUBSET (Peers \X Peers) /\ seenBy' \in SUBSET (Peers \X Peers)
    BY <1>1, <1>2, <1>4
  <2>2. Flip(sees') \in SUBSET (Peers \X Peers)
    BY <2>1 DEF Flip
  <2>3. \A x, y \in Peers : <<x, y>> \in Flip(sees') <=> <<y, x>> \in sees'
    BY <2>1, FlipMembers
  <2>4. \A x, y \in Peers : <<x, y>> \in seenBy' <=> <<x, y>> \in Flip(sees')
    BY <1>3, <2>3
  <2> QED
    BY <2>1, <2>2, <2>4, SameLinks
<1>7. ASSUME NEW q \in Peers
      PROVE  q \notin View(q)' /\ Cardinality(View(q)') <= ViewSize
  <2>1. View(q)' \subseteq View(q)
    BY <1>4 DEF View
  <2>2. IsFiniteSet(View(q)) /\ Cardinality(View(q)) \in Nat
    BY ViewFinite
  <2>3. Cardinality(View(q)') <= Cardinality(View(q)) /\ IsFiniteSet(View(q)')
    BY <2>1, <2>2, FS_Subset
  <2>4. Cardinality(View(q)') \in Nat
    BY <2>3, FS_CardinalityType
  <2> QED
    BY <1>1, <2>1, <2>2, <2>3, <2>4, ViewAssumption
<1> QED
  BY <1>5, <1>6, <1>7 DEF ViewsInSync

\* Without links everything is in step.
LEMMA NoLinksInSync ==
  ASSUME sees' = {}, seenBy' = {}
  PROVE  ViewsInSync'
<1>1. \A p \in Peers : View(p)' = {}
  BY DEF View
<1>2. Cardinality({}) = 0
  BY FS_EmptySet
<1>3. Flip(sees') = {}
  BY DEF Flip
<1> QED
  BY <1>1, <1>2, <1>3, ViewAssumption DEF ViewsInSync

\* The invariant of the hub's membership: the views, and the peers whose view
\* is still to be topped up, which are members of the views until they are.
ViewInv ==
  /\ ViewsInSync
  /\ registered \subseteq Peers
  /\ members \subseteq Peers
  /\ departing \subseteq Peers
  /\ refill \subseteq registered

\* Seeding the views keeps every member, and adds the peer that asked.
LEMMA SeededMembers ==
  ASSUME registered \subseteq Peers, NEW present \in SUBSET Peers, NEW p \in Peers
  PROVE  /\ Seeded(p, present) \in SUBSET Peers
         /\ p \in Seeded(p, present)
         /\ registered \subseteq Seeded(p, present)
BY DEF Seeded

\* Joining: the store, then add.
LEMMA JoinViews ==
  ASSUME ViewInv, NEW p \in Peers, Join(p)
  PROVE  ViewInv'
<1> DEFINE known == Seeded(p, members')
<1>1. /\ members' = members \cup {p} /\ members' \in SUBSET Peers
      /\ refill' = refill /\ refill = {}
      /\ departing' = departing
  BY DEF ViewInv, Join, Idle, turnVars
<1>2. PICK A \in Additions(p, known) :
        \E E \in Evictions(p, A) : Relink(p, known, A, E)
  BY DEF Join
<1>2a. PICK E \in Evictions(p, A) : Relink(p, known, A, E)
  BY <1>2
<1>3. known \in SUBSET Peers /\ p \in known /\ registered \subseteq known
  BY <1>1, SeededMembers DEF ViewInv
<1>4. ViewsInSync'
  BY <1>2a, <1>3, RelinkInSync DEF ViewInv
<1>5. registered' = known
  BY <1>2a DEF Relink
<1> QED
  BY <1>1, <1>3, <1>4, <1>5 DEF ViewInv

\* Leaving: the watchers of p, which it is not among, stay registered.
LEMMA PeerLeftViews ==
  ASSUME ViewInv, NEW p \in departing, PeerLeft(p)
  PROVE  ViewInv'
<1>1. members' = members /\ departing' = departing \ {p} /\ p \in Peers
  BY DEF PeerLeft, storeVars, ViewInv
<1>2. CASE p \in registered
  <2>1. Leave(p) /\ refill' = Watchers(p)
    BY <1>2 DEF PeerLeft
  <2>2. ViewsInSync' /\ registered' = registered \ {p}
    BY <2>1, LeaveInSync DEF ViewInv, Leave
  <2>3. Watchers(p) \subseteq registered \ {p}
    <3> SUFFICES ASSUME NEW q \in Watchers(p)
                 PROVE  q \in registered /\ q # p
      OBVIOUS
    <3>1. q \in Peers /\ <<p, q>> \in seenBy
      BY DEF Watchers
    <3>2. <<q, p>> \in sees
      BY <3>1, FlipMembers DEF ViewInv, ViewsInSync
    <3>3. <<p, p>> \notin sees
      BY DEF ViewInv, ViewsInSync, View
    <3> QED
      BY <3>2, <3>3 DEF ViewInv, ViewsInSync
  <2> QED
    BY <1>1, <2>1, <2>2, <2>3 DEF ViewInv
<1>3. CASE p \notin registered
  <2>1. UNCHANGED viewVars /\ refill' = {}
    BY <1>3 DEF PeerLeft
  <2> QED
    BY <1>1, <2>1 DEF ViewInv, ViewsInSync, viewVars, View
<1> QED
  BY <1>2, <1>3

\* Topping up the view of a watcher.
LEMMA RefillViews ==
  ASSUME ViewInv, NEW w \in refill, Refill(w)
  PROVE  ViewInv'
<1>1. members' = members /\ refill' = refill \ {w} /\ departing' = departing
  BY DEF Refill, storeVars
<1>2. PICK A \in Additions(w, registered) :
        \E E \in Evictions(w, A) : Relink(w, registered, A, E)
  BY DEF Refill
<1>2a. PICK E \in Evictions(w, A) : Relink(w, registered, A, E)
  BY <1>2
<1>3. ViewsInSync'
  BY <1>2a, RelinkInSync DEF ViewInv
<1>4. registered' = registered
  BY <1>2a DEF Relink
<1> QED
  BY <1>1, <1>3, <1>4 DEF ViewInv

\* Subscribing: a viewer is added to the views, others leave them alone.
LEMMA SubscribeViews ==
  ASSUME ViewInv, NEW k \in Sockets, NEW m \in Modes, Subscribe(k, m)
  PROVE  ViewInv'
<1>1. members' = members /\ refill' = refill /\ refill = {} /\ departing' = departing
  BY DEF Subscribe, storeVars, turnVars, Idle
<1>2. CASE m # "viewer"
  BY <1>1, <1>2 DEF Subscribe, ViewInv, ViewsInSync, viewVars, View
<1>3. CASE m = "viewer"
  <2> DEFINE p     == Owner[k]
             known == Seeded(p, members)
  <2>1. p \in Peers
    BY HubAssumption
  <2>2. PICK A \in Additions(p, known) :
          \E E \in Evictions(p, A) : Relink(p, known, A, E)
    BY <1>3 DEF Subscribe
  <2>2a. PICK E \in Evictions(p, A) : Relink(p, known, A, E)
    BY <2>2
  <2>3. known \in SUBSET Peers /\ p \in known /\ registered \subseteq known
    BY <2>1, SeededMembers DEF ViewInv
  <2>4. ViewsInSync'
    BY <2>2a, <2>3, RelinkInSync DEF ViewInv
  <2>5. registered' = known
    BY <2>2a DEF Relink
  <2> QED
    BY <1>1, <2>3, <2>4, <2>5 DEF ViewInv
<1> QED
  BY <1>2, <1>3

\* An operation that leaves the views alone, and at most loses members.
LEMMA OtherViews ==
  ASSUME ViewInv, UNCHANGED viewVars, refill' = refill, members' \subseteq members,
         departing' \subseteq departing \cup members
  PROVE  ViewInv'
BY DEF ViewInv, ViewsInSync, viewVars, View

\* The broadcast is removed or the tracker restarts: the views start anew.
LEMMA DisconnectedViews ==
  ASSUME ViewInv, Disconnected, refill' = {}, members' \subseteq members,
         departing' = departing
  PROVE  ViewInv'
<1>1. sees' = {} /\ seenBy' = {} /\ registered' = {}
  BY DEF Disconnected, ForgetViews
<1> QED
  BY <1>1, NoLinksInSync DEF ViewInv

\* Nobody is linked at first.
LEMMA ViewInit == Init => ViewInv
<1> SUFFICES ASSUME Init
             PROVE  ViewInv
  OBVIOUS
<1>1. /\ registered = {} /\ sees = {} /\ seenBy = {} /\ members = {}
      /\ refill = {} /\ departing = {}
  BY DEF Init, ViewsInit
<1>2. \A p \in Peers : View(p) = {}
  BY <1>1 DEF View
<1>3. Cardinality({}) = 0 /\ Flip(sees) = {}
  BY <1>1, FS_EmptySet DEF Flip
<1> QED
  BY <1>1, <1>2, <1>3, ViewAssumption DEF ViewInv, ViewsInSync

\* Every step keeps the invariant of the views.
LEMMA ViewStep ==
  ASSUME ViewInv, [Next]_vars
  PROVE  ViewInv'
<1>1. ASSUME NEW p \in Peers, Join(p) PROVE ViewInv'
  BY <1>1, JoinViews
<1>2. ASSUME NEW S \in SUBSET members, RemovePeers(S) PROVE ViewInv'
  BY <1>2, OtherViews DEF RemovePeers
<1>3. CASE Turn
  BY <1>3, PeerLeftViews, RefillViews DEF Turn
<1>4. ASSUME NEW k \in Sockets, NEW u \in Update, Report(k, u) PROVE ViewInv'
  BY <1>4, OtherViews DEF Report, Stored, turnVars
<1>5. ASSUME NEW p \in Peers, NEW u \in Update, ReportRest(p, u) PROVE ViewInv'
  BY <1>5, OtherViews DEF ReportRest, Stored, turnVars
<1>6. CASE FlushTimer \/ Slice
  BY <1>6, OtherViews DEF FlushTimer, Slice, storeVars, turnVars
<1>7. ASSUME NEW k \in Sockets, NEW m \in Modes, Subscribe(k, m) PROVE ViewInv'
  BY <1>7, SubscribeViews
<1>8. ASSUME NEW k \in Sockets, Close(k) PROVE ViewInv'
  BY <1>8, OtherViews DEF Close, storeVars, turnVars
<1>9. CASE RemoveBroadcast
  BY <1>9, DisconnectedViews DEF RemoveBroadcast, Idle, turnVars
<1>10. CASE Restart
  BY <1>10, DisconnectedViews DEF Restart, Idle, storeVars, turnVars
<1>11. CASE UNCHANGED vars
  BY <1>11, OtherViews DEF vars, storeVars, turnVars
<1> QED
  BY <1>1, <1>2, <1>3, <1>4, <1>5, <1>6, <1>7, <1>8, <1>9, <1>10, <1>11 DEF Next, SocketNext

\* Whatever joins, departures, subscriptions, evictions and restarts come, the
\* two Maps of neighbor-views.ts describe the same links between members and
\* no view outgrows its size.
THEOREM ViewsStayInSync == Spec => []ViewsInSync
<1>1. ViewInv => ViewsInSync
  BY DEF ViewInv
<1> QED
  BY <1>1, ViewInit, ViewStep, PTL DEF Spec

-----------------------------------------------------------------------------
(* The clients *)

\* What clients may know, and batches of updates.
Mirrors == [Sockets -> [Peers -> {Unknown} \cup SUBSET Segments]]
Batches == [Peers -> {NoUpdate} \cup Update]

\* The types that the membership of the clients rests on.
HubTyped ==
  /\ inv \in [Peers -> SUBSET Segments]
  /\ mode \in [Sockets -> {"none", "immediate", "batched", "viewer"}]
  /\ mirror \in Mirrors
  /\ pending \in Batches /\ updates \in Batches
  /\ attached \in [Sockets -> BOOLEAN]

\* An inventory is not mistaken for a client's having none.
LEMMA Inventories ==
  ASSUME NEW S \in SUBSET Segments
  PROVE  S # Unknown
BY HubAssumption

\* An update neither makes a client know a peer nor makes it forget one.
LEMMA AppliedKnown ==
  ASSUME NEW S \in {Unknown} \cup SUBSET Segments, NEW u \in {NoUpdate} \cup Update
  PROVE  /\ Applied(S, u) \in {Unknown} \cup SUBSET Segments
         /\ Applied(S, u) = Unknown <=> S = Unknown
<1>1. CASE S = Unknown \/ u = NoUpdate
  BY <1>1 DEF Applied
<1>2. CASE S # Unknown /\ u # NoUpdate
  <2>1. u.added \in SUBSET Segments
    BY <1>2 DEF Update
  <2>2. Applied(S, u) \in SUBSET Segments
    BY <1>2, <2>1 DEF Applied
  <2> QED
    BY <1>2, <2>2, Inventories
<1> QED
  BY <1>1, <1>2

\* The types of what a batch becomes.
LEMMA MergeTyped ==
  ASSUME NEW u \in {NoUpdate} \cup Update, NEW v \in Update
  PROVE  Merge(u, v) \in Update
<1>1. v = [replace |-> v.replace, added |-> v.added, removed |-> v.removed]
      /\ v.replace \in BOOLEAN /\ v.added \in SUBSET Segments /\ v.removed \in SUBSET Segments
  BY DEF Update
<1>2. CASE v.replace
  BY <1>2 DEF Merge
<1>3. CASE ~v.replace /\ u = NoUpdate
  <2>1. Merge(u, v) = [v EXCEPT !.removed = @ \ v.added]
    BY <1>3 DEF Merge
  <2>2. [v EXCEPT !.removed = @ \ v.added]
          = [replace |-> v.replace, added |-> v.added, removed |-> v.removed \ v.added]
    BY <1>1
  <2> QED
    BY <1>1, <2>1, <2>2 DEF Update
<1>4. CASE ~v.replace /\ u # NoUpdate
  <2>1. u.replace \in BOOLEAN /\ u.added \in SUBSET Segments /\ u.removed \in SUBSET Segments
    BY <1>4 DEF Update
  <2> QED
    BY <1>1, <1>4, <2>1 DEF Merge, Update
<1> QED
  BY <1>2, <1>3, <1>4

\* Sending a batch leaves the membership of every client alone.
LEMMA SentToKnown ==
  ASSUME NEW K, NEW ups \in Batches, NEW sight, NEW mir \in Mirrors
  PROVE  /\ SentTo(K, ups, sight, mir) \in Mirrors
         /\ \A k \in Sockets, q \in Peers :
              SentTo(K, ups, sight, mir)[k][q] = Unknown <=> mir[k][q] = Unknown
<1> DEFINE new == SentTo(K, ups, sight, mir)
<1>1. ASSUME NEW k \in Sockets, NEW q \in Peers
      PROVE  /\ new[k][q] \in {Unknown} \cup SUBSET Segments
             /\ new[k][q] = Unknown <=> mir[k][q] = Unknown
  <2>1. mir[k][q] \in {Unknown} \cup SUBSET Segments /\ ups[q] \in {NoUpdate} \cup Update
    BY DEF Mirrors, Batches
  <2>2. new[k][q] = Applied(mir[k][q], ups[q]) \/ new[k][q] = mir[k][q]
    BY DEF SentTo
  <2> QED
    BY <2>1, <2>2, AppliedKnown
<1>2. new = [k \in Sockets |-> [q \in Peers |-> new[k][q]]]
  BY DEF SentTo
<1> HIDE DEF new
<1>3. new \in Mirrors
  BY <1>1, <1>2 DEF Mirrors
<1> QED
  BY <1>1, <1>3 DEF new

\* So does a turn of a flush.
LEMMA TurnKnown ==
  ASSUME NEW V, NEW ups \in Batches, NEW mir \in Mirrors
  PROVE  /\ SentToViewers(V, ups, mir) \in Mirrors
         /\ \A k \in Sockets, q \in Peers :
              SentToViewers(V, ups, mir)[k][q] = Unknown <=> mir[k][q] = Unknown
<1> DEFINE K == {k \in InMode("viewer") : Owner[k] \in V}
<1>1. SentToViewers(V, ups, mir) = SentTo(K, ups, sees, mir)
  BY DEF SentToViewers
<1> HIDE DEF K
<1> QED
  BY <1>1, SentToKnown

-----------------------------------------------------------------------------
(* Membership *)

\* A viewer with these entries knows the peers it is linked to, except perhaps
\* some of those that are leaving.
Linked(k, entries, links, leaving) ==
  \A q \in Peers :
    /\ entries[q] # Unknown => <<Owner[k], q>> \in links
    /\ <<Owner[k], q>> \in links /\ q \notin leaving => entries[q] # Unknown

\* Another client with these entries knows everybody but its own peer.
Lists(k, entries, S) ==
  \A q \in Peers : entries[q] # Unknown <=> q \in S /\ q # Owner[k]

\* Whom clients know of, also while peers are being removed.
Follows ==
  \A k \in Sockets :
    /\ mode[k] = "viewer" /\ attached[k] => Linked(k, mirror[k], sees, departing)
    /\ mode[k] \in {"immediate", "batched"} => Lists(k, mirror[k], members \cup departing)

\* Who is leaving is in the store no more, and the views know nobody else.
Roster ==
  /\ departing \cap members = {}
  /\ registered \subseteq members \cup departing

MirrorInv == ViewInv /\ HubTyped /\ Roster /\ Follows

\* A step that changes what clients know by updates only.
LEMMA SameMembership ==
  ASSUME Follows, UNCHANGED <<mode, attached, sees, departing, members>>,
         \A k \in Sockets, q \in Peers : mirror'[k][q] = Unknown <=> mirror[k][q] = Unknown
  PROVE  Follows'
BY DEF Follows, Linked, Lists

\* Filling a view and announcing it keeps viewers and views together.
LEMMA AnnounceLinked ==
  ASSUME ViewInv, HubTyped,
         NEW known \in SUBSET Peers, NEW p \in known, NEW present, NEW leaving,
         known \ leaving \subseteq present,
         NEW A \in Additions(p, known), NEW E \in Evictions(p, A),
         Relink(p, known, A, E),
         NEW mir, NEW k \in Sockets, mode[k] = "viewer",
         Linked(k, mir[k], sees, leaving)
  PROVE  Linked(k, Announce(p, A, E, present, mir)[k], sees', leaving)
<1> DEFINE c   == Owner[k]
           new == Announce(p, A, E, present, mir)
<1>1. sees' = (sees \ E) \cup ({p} \X A) \cup (A \X {p})
  BY DEF Relink
<1>2. /\ A \subseteq known /\ p \notin A /\ p \in Peers
      /\ E \subseteq sees
      /\ \A e \in E : e[1] \in A
  BY FillChoice DEF ViewInv
<1>3. ASSUME NEW x, <<x, p>> \in E PROVE FALSE
  BY <1>3 DEF Evictions, Crowded, Reciprocal
<1>4. ASSUME NEW q \in Peers
      PROVE  /\ new[k][q] # Unknown => <<c, q>> \in sees'
             /\ <<c, q>> \in sees' /\ q \notin leaving => new[k][q] # Unknown
  <2> DEFINE joins == /\ \/ c = p /\ q \in A
                         \/ c \in Reciprocal(p, A) /\ q = p
                      /\ q \in present
  <2>1. new[k][q] = CASE <<c, q>> \in E -> Unknown
                      [] joins -> inv[q]
                      [] OTHER -> mir[k][q]
    BY DEF Announce
  <2>2. <<c, q>> \in E => ~joins
    BY <1>2, <1>3
  <2>3. CASE <<c, q>> \in E
    <3>1. new[k][q] = Unknown
      BY <2>1, <2>2, <2>3
    <3>2. c \in A /\ c # p /\ q # p
      BY <1>2, <1>3, <2>3
    <3> QED
      BY <1>1, <2>3, <3>1, <3>2
  <2>4. CASE joins
    <3>1. new[k][q] = inv[q]
      BY <2>1, <2>2, <2>4
    <3>2. inv[q] # Unknown
      BY Inventories DEF HubTyped
    <3>3. <<c, q>> \in sees'
      BY <1>1, <2>4 DEF Reciprocal
    <3> QED
      BY <3>1, <3>2, <3>3
  <2>5. CASE <<c, q>> \notin E /\ ~joins
    <3>1. new[k][q] = mir[k][q]
      BY <2>1, <2>5
    <3>2. mir[k][q] # Unknown => <<c, q>> \in sees
      BY DEF Linked
    <3>3. <<c, q>> \in sees /\ q \notin leaving => mir[k][q] # Unknown
      BY DEF Linked
    <3>4. ASSUME <<c, q>> \in sees', q \notin leaving, <<c, q>> \notin sees
          PROVE  FALSE
      <4>1. (c = p /\ q \in A) \/ (c \in A /\ q = p)
        BY <1>1, <3>4
      <4>2. q \in present
        BY <1>2, <3>4, <4>1
      <4>3. c \in A /\ q = p => c \in Reciprocal(p, A)
        BY <3>4 DEF Reciprocal
      <4> QED
        BY <2>5, <4>1, <4>2, <4>3
    <3> QED
      BY <1>1, <2>5, <3>1, <3>2, <3>3, <3>4
  <2> QED
    BY <2>3, <2>4, <2>5
<1> QED
  BY <1>4 DEF Linked

\* What an announcement leaves of the types.
LEMMA AnnounceTyped ==
  ASSUME HubTyped, NEW p, NEW A, NEW E, NEW present, NEW mir \in Mirrors
  PROVE  /\ Announce(p, A, E, present, mir) \in Mirrors
         /\ \A k \in Sockets : mode[k] # "viewer" => Announce(p, A, E, present, mir)[k] = mir[k]
<1> DEFINE new == Announce(p, A, E, present, mir)
<1>1. ASSUME NEW k \in Sockets
      PROVE  new[k] \in [Peers -> {Unknown} \cup SUBSET Segments]
  <2>1. mir[k] \in [Peers -> {Unknown} \cup SUBSET Segments]
    BY DEF Mirrors
  <2>2. CASE mode[k] # "viewer"
    BY <2>1, <2>2 DEF Announce
  <2>3. CASE mode[k] = "viewer"
    <3> DEFINE joins(q) == /\ \/ Owner[k] = p /\ q \in A
                              \/ Owner[k] \in Reciprocal(p, A) /\ q = p
                           /\ q \in present
               entry(q) == CASE <<Owner[k], q>> \in E -> Unknown
                             [] joins(q) -> inv[q]
                             [] OTHER -> mir[k][q]
    <3>1. new[k] = [q \in Peers |-> entry(q)]
      BY <2>3 DEF Announce
    <3>2. ASSUME NEW q \in Peers PROVE entry(q) \in {Unknown} \cup SUBSET Segments
      <4>1. inv[q] \in SUBSET Segments /\ mir[k][q] \in {Unknown} \cup SUBSET Segments
        BY <2>1 DEF HubTyped
      <4>2. entry(q) = Unknown \/ entry(q) = inv[q] \/ entry(q) = mir[k][q]
        OBVIOUS
      <4> QED
        BY <4>1, <4>2
    <3> HIDE DEF entry
    <3> QED
      BY <3>1, <3>2
  <2> QED
    BY <2>2, <2>3
<1>2. new = [k \in Sockets |-> new[k]]
  BY DEF Announce
<1>3. \A k \in Sockets : mode[k] # "viewer" => new[k] = mir[k]
  BY DEF Announce
<1> HIDE DEF new
<1>4. new \in Mirrors
  BY <1>1, <1>2 DEF Mirrors
<1> QED
  BY <1>3, <1>4 DEF new

\* A peer joins: everybody but viewers is told, and then the viewers of the peers
\* it is linked with.
LEMMA JoinMirrors ==
  ASSUME MirrorInv, NEW p \in Peers, Join(p)
  PROVE  HubTyped' /\ Roster' /\ Follows'
<1> USE DEF MirrorInv
<1> DEFINE K     == InMode("immediate") \cup InMode("batched")
           told  == Tell(K, p, {}, mirror)
           known == Seeded(p, members')
<1>1. /\ members' = members \cup {p} /\ members' \in SUBSET Peers
      /\ departing = {} /\ departing' = {}
      /\ inv' = inv /\ mode' = mode /\ attached' = attached
      /\ pending' = pending /\ updates' = updates
  BY DEF Join, Idle, turnVars, batchVars, flushVars, ViewInv
<1>2. PICK A \in Additions(p, known) : \E E \in Evictions(p, A) :
        /\ Relink(p, known, A, E)
        /\ mirror' = Announce(p, A, E, members', told)
  BY DEF Join
<1>2a. PICK E \in Evictions(p, A) :
        /\ Relink(p, known, A, E)
        /\ mirror' = Announce(p, A, E, members', told)
  BY <1>2
<1>3. /\ told \in Mirrors
      /\ \A k \in Sockets, q \in Peers :
           told[k][q] = IF k \in K /\ Owner[k] # p /\ q = p THEN {} ELSE mirror[k][q]
      /\ \A k \in Sockets : k \notin K => told[k] = mirror[k]
  <2> HIDE DEF K
  <2>1. {} \in {Unknown} \cup SUBSET Segments /\ mirror \in Mirrors
    BY DEF HubTyped
  <2> QED
    BY <2>1 DEF Tell, Mirrors
<1> HIDE DEF told
<1>4. mirror' \in Mirrors /\ \A k \in Sockets : mode[k] # "viewer" => mirror'[k] = told[k]
  BY <1>2a, <1>3, AnnounceTyped
<1>5. known \in SUBSET Peers /\ p \in known /\ known \subseteq members'
  BY <1>1, SeededMembers DEF ViewInv, Roster, Seeded
<1>6. HubTyped'
  BY <1>1, <1>4 DEF HubTyped
<1>7. Roster'
  BY <1>1, <1>2a, <1>5 DEF Roster, Relink
<1>8. ASSUME NEW k \in Sockets, mode[k] = "viewer", attached[k]
      PROVE  Linked(k, mirror'[k], sees', {})
  <2>1. told[k] = mirror[k]
    BY <1>3, <1>8 DEF InMode
  <2>2. Linked(k, told[k], sees, {})
    BY <1>1, <1>8, <2>1 DEF Follows
  <2>3. known \ {} \subseteq members'
    BY <1>5
  <2> HIDE DEF known
  <2> QED
    BY <1>2a, <1>5, <1>8, <2>2, <2>3, AnnounceLinked
<1>9. ASSUME NEW k \in Sockets, mode[k] \in {"immediate", "batched"}
      PROVE  Lists(k, mirror'[k], members' \cup {})
  <2>1. mirror'[k] = told[k] /\ k \in K
    BY <1>4, <1>9 DEF InMode
  <2>2. Lists(k, mirror[k], members \cup {})
    BY <1>1, <1>9 DEF Follows
  <2>3. {} # Unknown
    BY Inventories
  <2> QED
    BY <1>1, <1>3, <2>1, <2>2, <2>3 DEF Lists
<1> QED
  BY <1>1, <1>6, <1>7, <1>8, <1>9 DEF Follows

\* Peers are removed from the store: those that know them may go on until
\* they are told.
LEMMA RemovePeersMirrors ==
  ASSUME MirrorInv, NEW S \in SUBSET members, RemovePeers(S)
  PROVE  HubTyped' /\ Roster' /\ Follows'
<1> USE DEF MirrorInv
<1>1. /\ members' = members \ S /\ departing' = S /\ departing = {}
      /\ UNCHANGED <<registered, sees, mode, mirror, attached, pending, updates>>
      /\ inv' = [p \in Peers |-> IF p \in S THEN {} ELSE inv[p]]
  BY DEF RemovePeers, Idle, viewVars, batchVars, flushVars
<1>2. HubTyped'
  BY <1>1 DEF HubTyped
<1>3. Roster'
  BY <1>1 DEF Roster
<1>4. members' \cup departing' = members \cup departing
  BY <1>1
<1> QED
  BY <1>1, <1>2, <1>3, <1>4 DEF Follows, Linked, Lists

\* The hub hears that a peer has left: who knew it is told, its viewers because
\* they watched it.
LEMMA PeerLeftMirrors ==
  ASSUME MirrorInv, NEW p \in departing, PeerLeft(p)
  PROVE  HubTyped' /\ Roster' /\ Follows'
<1> USE DEF MirrorInv
<1> DEFINE lost == IF p \in registered THEN Watchers(p) ELSE {}
           K    == InMode("immediate") \cup InMode("batched")
                     \cup {k \in InMode("viewer") : Owner[k] \in lost}
<1>1. /\ departing' = departing \ {p} /\ p \in Peers /\ members' = members
      /\ inv' = inv /\ mode' = mode /\ updates' = updates
      /\ pending' = [pending EXCEPT ![p] = NoUpdate]
      /\ attached' = [k \in Sockets |-> attached[k] /\ Owner[k] # p]
      /\ mirror' = Tell(K, p, Unknown, mirror)
  BY DEF PeerLeft, ViewInv, storeVars, flushVars, WithoutUpdatesOf
<1>2. /\ mirror' \in Mirrors
      /\ \A k \in Sockets, q \in Peers :
           mirror'[k][q] = IF k \in K /\ Owner[k] # p /\ q = p
                           THEN Unknown ELSE mirror[k][q]
  <2> HIDE DEF K
  <2>1. mirror \in Mirrors /\ Unknown \in {Unknown} \cup SUBSET Segments
    BY DEF HubTyped
  <2> QED
    BY <1>1, <2>1 DEF Tell, Mirrors
<1>3. HubTyped'
  BY <1>1, <1>2 DEF HubTyped, Batches
<1>4. /\ registered' = registered \ {p} /\ sees' \subseteq sees
      /\ \A x, y \in Peers : x # p /\ y # p /\ <<x, y>> \in sees => <<x, y>> \in sees'
      /\ \A x \in Peers : <<x, p>> \in sees => x \in lost
      /\ \A x \in Peers : <<x, p>> \notin sees'
  <2>1. sees \subseteq registered \X registered
    BY DEF ViewInv, ViewsInSync
  <2>2. CASE p \in registered
    <3>1. Leave(p) /\ lost = Watchers(p)
      BY <2>2 DEF PeerLeft
    <3>2. ViewsInSync' /\ registered' = registered \ {p} /\ sees' \subseteq sees
      BY <1>1, <3>1, LeaveInSync DEF ViewInv, Leave
    <3>3. \A x \in Peers : <<x, p>> \in sees => x \in Watchers(p)
      BY <1>1, FlipMembers DEF ViewInv, ViewsInSync, Watchers
    <3>4. \A x \in Peers : <<x, p>> \notin sees'
      BY <3>2 DEF ViewsInSync
    <3> QED
      BY <3>1, <3>2, <3>3, <3>4 DEF Leave
  <2>3. CASE p \notin registered
    <3>1. registered' = registered /\ sees' = sees
      BY <2>3 DEF PeerLeft, viewVars
    <3> QED
      BY <2>1, <2>3, <3>1
  <2> QED
    BY <2>2, <2>3
<1>5. Roster'
  BY <1>1, <1>4 DEF Roster
<1>6. p \notin members
  BY DEF Roster
<1>7. ASSUME NEW k \in Sockets, mode[k] = "viewer", attached[k], Owner[k] # p
      PROVE  Linked(k, mirror'[k], sees', departing')
  <2>1. Linked(k, mirror[k], sees, departing) /\ Owner[k] \in Peers
    BY <1>7, HubAssumption DEF Follows
  <2>2. ASSUME NEW q \in Peers, q # p
        PROVE  /\ mirror'[k][q] # Unknown => <<Owner[k], q>> \in sees'
               /\ <<Owner[k], q>> \in sees' /\ q \notin departing' => mirror'[k][q] # Unknown
    BY <1>1, <1>2, <1>4, <1>7, <2>1, <2>2 DEF Linked
  <2>3. mirror'[k][p] = Unknown
    <3>1. CASE <<Owner[k], p>> \in sees
      <4>1. Owner[k] \in lost /\ k \in K
        BY <1>4, <1>7, <2>1, <3>1 DEF InMode
      <4> QED
        BY <1>1, <1>2, <1>7, <4>1
    <3>2. CASE <<Owner[k], p>> \notin sees
      BY <1>1, <1>2, <2>1, <3>2 DEF Linked
    <3> QED
      BY <3>1, <3>2
  <2>4. <<Owner[k], p>> \notin sees'
    BY <1>4, <2>1
  <2> QED
    BY <2>2, <2>3, <2>4 DEF Linked
<1>8. ASSUME NEW k \in Sockets, mode[k] \in {"immediate", "batched"}
      PROVE  Lists(k, mirror'[k], members' \cup departing')
  <2>1. k \in K
    BY <1>8 DEF InMode
  <2>2. Lists(k, mirror[k], members \cup departing)
    BY <1>8 DEF Follows
  <2> HIDE DEF K
  <2> QED
    BY <1>1, <1>2, <1>6, <2>1, <2>2 DEF Lists
<1> QED
  BY <1>1, <1>3, <1>5, <1>7, <1>8 DEF Follows

\* One view is topped up, perhaps with peers that are leaving, too.
LEMMA RefillMirrors ==
  ASSUME MirrorInv, NEW w \in refill, Refill(w)
  PROVE  HubTyped' /\ Roster' /\ Follows'
<1> USE DEF MirrorInv
<1>1. /\ UNCHANGED <<members, inv, mode, attached, pending, updates, departing>>
      /\ w \in registered /\ registered \in SUBSET Peers
  BY DEF Refill, storeVars, batchVars, flushVars, ViewInv
<1>2. PICK A \in Additions(w, registered) : \E E \in Evictions(w, A) :
        /\ Relink(w, registered, A, E)
        /\ mirror' = Announce(w, A, E, members, mirror)
  BY DEF Refill
<1>2a. PICK E \in Evictions(w, A) :
        /\ Relink(w, registered, A, E)
        /\ mirror' = Announce(w, A, E, members, mirror)
  BY <1>2
<1>3. mirror \in Mirrors
  BY DEF HubTyped
<1>4. mirror' \in Mirrors /\ \A k \in Sockets : mode[k] # "viewer" => mirror'[k] = mirror[k]
  BY <1>2a, <1>3, AnnounceTyped
<1>5. HubTyped'
  BY <1>1, <1>4 DEF HubTyped
<1>6. Roster'
  BY <1>1, <1>2a DEF Roster, Relink
<1>7. ASSUME NEW k \in Sockets, mode[k] = "viewer", attached[k]
      PROVE  Linked(k, mirror'[k], sees', departing)
  <2>1. Linked(k, mirror[k], sees, departing)
    BY <1>7 DEF Follows
  <2>2. registered \ departing \subseteq members
    BY DEF Roster
  <2> QED
    BY <1>1, <1>2a, <1>7, <2>1, <2>2, AnnounceLinked
<1>8. \A k \in Sockets : mode[k] \in {"immediate", "batched"} => mirror'[k] = mirror[k]
  BY <1>4
<1> QED
  BY <1>1, <1>5, <1>6, <1>7, <1>8 DEF Follows

\* A subscriber is given a list; a viewer, that of its view, which is filled.
LEMMA SubscribeMirrors ==
  ASSUME MirrorInv, NEW k \in Sockets, NEW m \in Modes, Subscribe(k, m)
  PROVE  HubTyped' /\ Roster' /\ Follows'
<1> USE DEF MirrorInv
<1> DEFINE p == Owner[k]
<1>1. /\ departing = {} /\ departing' = {} /\ p \in members /\ p \in Peers
      /\ members \in SUBSET Peers /\ registered \subseteq members
      /\ UNCHANGED <<members, inv, pending, updates>>
      /\ mode' = [mode EXCEPT ![k] = m]
      /\ attached' = [attached EXCEPT ![k] = TRUE]
      /\ m \in {"immediate", "batched", "viewer"}
  BY HubAssumption DEF Subscribe, Idle, turnVars, storeVars, batchVars, ViewInv, Roster
<1>2. /\ mode' \in [Sockets -> {"none", "immediate", "batched", "viewer"}]
      /\ attached' \in [Sockets -> BOOLEAN]
      /\ mode'[k] = m
      /\ \A j \in Sockets : j # k => mode'[j] = mode[j] /\ attached'[j] = attached[j]
  BY <1>1 DEF HubTyped
<1>3. ASSUME NEW S
      PROVE  /\ Listed(k, S) \in [Peers -> {Unknown} \cup SUBSET Segments]
             /\ \A q \in Peers : Listed(k, S)[q] # Unknown <=> q \in S \ {p}
  <2>1. \A q \in Peers : inv[q] \in SUBSET Segments /\ inv[q] # Unknown
    BY Inventories DEF HubTyped
  <2> QED
    BY <2>1 DEF Listed
<1>4. CASE m # "viewer"
  <2>1. /\ mirror' = [mirror EXCEPT ![k] = Listed(k, members)]
        /\ UNCHANGED viewVars
    BY <1>4 DEF Subscribe
  <2>2. mirror' \in Mirrors /\ mirror'[k] = Listed(k, members)
        /\ \A j \in Sockets : j # k => mirror'[j] = mirror[j]
    BY <1>3, <2>1 DEF HubTyped, Mirrors
  <2>3. HubTyped'
    BY <1>1, <1>2, <2>2 DEF HubTyped
  <2>4. Roster'
    BY <1>1, <2>1 DEF Roster, viewVars
  <2>5. Lists(k, mirror'[k], members \cup {})
    BY <1>3, <2>2 DEF Lists
  <2> QED
    BY <1>1, <1>2, <1>4, <2>1, <2>2, <2>3, <2>4, <2>5 DEF Follows, viewVars
<1>5. CASE m = "viewer"
  <2> DEFINE known == Seeded(p, members)
  <2>1. PICK A \in Additions(p, known) : \E E \in Evictions(p, A) :
          /\ Relink(p, known, A, E)
          /\ mirror' = [Announce(p, A, E, members, mirror) EXCEPT
                          ![k] = Listed(k, (View(p) \cup A) \cap members)]
    BY <1>5 DEF Subscribe
  <2>1a. PICK E \in Evictions(p, A) :
          /\ Relink(p, known, A, E)
          /\ mirror' = [Announce(p, A, E, members, mirror) EXCEPT
                          ![k] = Listed(k, (View(p) \cup A) \cap members)]
    BY <2>1
  <2> DEFINE new == Announce(p, A, E, members, mirror)
  <2>2. known \in SUBSET Peers /\ p \in known /\ known \subseteq members
    BY <1>1, SeededMembers DEF Seeded
  <2>3. new \in Mirrors /\ \A j \in Sockets : mode[j] # "viewer" => new[j] = mirror[j]
    BY AnnounceTyped DEF HubTyped
  <2>4. ASSUME NEW j \in Sockets, mode[j] = "viewer", attached[j]
        PROVE  Linked(j, new[j], sees', {})
    <3>1. Linked(j, mirror[j], sees, {})
      BY <1>1, <2>4 DEF Follows
    <3>2. known \ {} \subseteq members
      BY <2>2
    <3> HIDE DEF known, new, p
    <3>3. known \in SUBSET Peers /\ p \in known
      BY <2>2
    <3> QED
      BY <2>1a, <2>4, <3>1, <3>2, <3>3, AnnounceLinked DEF new
  <2>5. A \subseteq known /\ p \notin A /\ \A e \in E : e[1] \in A
    BY <2>1a, <2>2, <1>1, FillChoice DEF ViewInv
  <2>6. sees' = (sees \ E) \cup ({p} \X A) \cup (A \X {p}) /\ registered' = known
    BY <2>1a DEF Relink
  <2> HIDE DEF new
  <2>7. mirror' \in Mirrors
        /\ mirror'[k] = Listed(k, (View(p) \cup A) \cap members)
        /\ \A j \in Sockets : j # k => mirror'[j] = new[j]
    BY <1>3, <2>1a, <2>3 DEF Mirrors, new
  <2>8. HubTyped'
    BY <1>1, <1>2, <2>7 DEF HubTyped
  <2>9. Roster'
    BY <1>1, <2>2, <2>6 DEF Roster
  <2>10. Linked(k, mirror'[k], sees', {})
    <3>1. \A q \in Peers : <<p, q>> \in sees => q \in members /\ q # p
      BY <1>1 DEF ViewInv, ViewsInSync, View
    <3>2. \A q \in Peers : <<p, q>> \in sees' <=> <<p, q>> \in sees \/ q \in A
      BY <2>5, <2>6
    <3>3. \A q \in Peers : mirror'[k][q] # Unknown <=>
            (<<p, q>> \in sees \/ q \in A) /\ q \in members /\ q # p
      BY <1>3, <2>7 DEF View
    <3> QED
      BY <2>2, <2>5, <3>1, <3>2, <3>3 DEF Linked
  <2>11. \A j \in Sockets : j # k /\ mode[j] \in {"immediate", "batched"} =>
           mirror'[j] = mirror[j] /\ Lists(j, mirror[j], members \cup {})
    BY <1>1, <2>3, <2>7 DEF Follows
  <2> QED
    BY <1>1, <1>2, <1>5, <2>4, <2>7, <2>8, <2>9, <2>10, <2>11 DEF Follows
<1> QED
  BY <1>4, <1>5

\* A report changes an inventory, and what immediate clients know of it.
LEMMA ReportMirrors ==
  ASSUME MirrorInv, NEW p \in Peers, NEW u \in Update, NEW v \in Update,
         Stored(p, u), Publish(p, v),
         UNCHANGED <<viewVars, flushVars, turnVars, mode, attached>>
  PROVE  HubTyped' /\ Roster' /\ Follows'
<1> USE DEF MirrorInv
<1>1. /\ UNCHANGED <<members, departing, mode, attached, sees, registered, updates>>
      /\ inv' = [inv EXCEPT ![p] = Applied(@, u)]
      /\ mirror' = [k \in Sockets |->
           IF mode[k] = "immediate" /\ Owner[k] # p
           THEN [mirror[k] EXCEPT ![p] = Applied(@, v)] ELSE mirror[k]]
      /\ pending' = pending \/ pending' = [pending EXCEPT ![p] = Merge(@, v)]
  BY DEF Stored, Publish, batchVars, viewVars, flushVars, turnVars
<1>2. inv' \in [Peers -> SUBSET Segments]
  <2>1. inv[p] \in SUBSET Segments /\ inv[p] # Unknown
    BY Inventories DEF HubTyped
  <2>2. Applied(inv[p], u) \in SUBSET Segments
    BY <2>1, AppliedKnown
  <2> QED
    BY <1>1, <2>2 DEF HubTyped
<1>3. ASSUME NEW k \in Sockets
      PROVE  /\ mirror'[k] \in [Peers -> {Unknown} \cup SUBSET Segments]
             /\ \A q \in Peers : mirror'[k][q] = Unknown <=> mirror[k][q] = Unknown
  <2>1. mirror[k] \in [Peers -> {Unknown} \cup SUBSET Segments]
    BY DEF HubTyped, Mirrors
  <2>2. Applied(mirror[k][p], v) \in {Unknown} \cup SUBSET Segments
        /\ (Applied(mirror[k][p], v) = Unknown <=> mirror[k][p] = Unknown)
    BY <2>1, AppliedKnown
  <2>3. mirror'[k] = mirror[k] \/ mirror'[k] = [mirror[k] EXCEPT ![p] = Applied(@, v)]
    BY <1>1
  <2> QED
    BY <2>1, <2>2, <2>3
<1>4. mirror' \in Mirrors
  BY <1>1, <1>3 DEF Mirrors
<1>5. pending' \in Batches
  <2>1. Merge(pending[p], v) \in Update
    BY MergeTyped DEF HubTyped, Batches
  <2> QED
    BY <1>1, <2>1 DEF HubTyped, Batches
<1>6. HubTyped'
  BY <1>1, <1>2, <1>4, <1>5 DEF HubTyped
<1>7. Roster'
  BY <1>1 DEF Roster
<1>8. Follows'
  BY <1>1, <1>3, SameMembership
<1> QED
  BY <1>6, <1>7, <1>8

\* A flush sends updates, and takes the batch.
LEMMA FlushKnown ==
  ASSUME HubTyped, NEW mir \in Mirrors, Flush(mir)
  PROVE  /\ mirror' \in Mirrors
         /\ \A k \in Sockets, q \in Peers : mirror'[k][q] = Unknown <=> mir[k][q] = Unknown
         /\ pending' = NoUpdates /\ updates' \in Batches
<1> DEFINE batched == SentToBatched(pending, mir)
<1>1. /\ pending \in Batches /\ NoUpdates \in Batches
  BY DEF HubTyped, Batches, NoUpdates
<1>2. batched \in Mirrors
      /\ \A k \in Sockets, q \in Peers : batched[k][q] = Unknown <=> mir[k][q] = Unknown
  BY <1>1, SentToKnown DEF SentToBatched
<1> HIDE DEF batched
<1>3. ASSUME NEW now
      PROVE  /\ SentToViewers(now, pending, batched) \in Mirrors
             /\ \A k \in Sockets, q \in Peers :
                  SentToViewers(now, pending, batched)[k][q] = Unknown <=> mir[k][q] = Unknown
  BY <1>1, <1>2, TurnKnown
<1>4. pending' = NoUpdates
  BY DEF Flush
<1>5. CASE pending = NoUpdates \/ Audience = {}
  BY <1>1, <1>4, <1>5 DEF Flush, EndFlush
<1>6. CASE ~(pending = NoUpdates \/ Audience = {})
  <2>1. PICK now : /\ mirror' = SentToViewers(now, pending, batched)
                   /\ IF now = ViewerIds THEN EndFlush
                      ELSE /\ flushing' = TRUE
                           /\ updates' = pending
                           /\ queue' = ViewerIds \ now
                           /\ current' = TRUE
    BY <1>6 DEF Flush, batched
  <2>2. updates' \in Batches
    BY <1>1, <2>1 DEF EndFlush
  <2> QED
    BY <1>3, <1>4, <2>1, <2>2
<1> QED
  BY <1>5, <1>6

\* The end of a flush, with or without the next one.
LEMMA FlushOverKnown ==
  ASSUME HubTyped, NEW mir \in Mirrors, FlushOver(mir)
  PROVE  /\ mirror' \in Mirrors
         /\ \A k \in Sockets, q \in Peers : mirror'[k][q] = Unknown <=> mir[k][q] = Unknown
         /\ pending' = NoUpdates \/ pending' = pending
         /\ updates' \in Batches
<1>1. NoUpdates \in Batches
  BY DEF Batches, NoUpdates
<1> QED
  BY <1>1, FlushKnown DEF FlushOver, EndFlush, batchVars

\* The timer, and every slice of a flush.
LEMMA FlushMirrors ==
  ASSUME MirrorInv, FlushTimer \/ Slice
  PROVE  /\ HubTyped' /\ Roster' /\ Follows'
         /\ pending' = NoUpdates \/ pending' = pending
<1> USE DEF MirrorInv
<1>1. /\ UNCHANGED <<members, departing, mode, attached, sees, registered, inv>>
  BY DEF FlushTimer, Slice, storeVars, viewVars, turnVars
<1>2. /\ mirror' \in Mirrors
      /\ \A k \in Sockets, q \in Peers : mirror'[k][q] = Unknown <=> mirror[k][q] = Unknown
      /\ pending' = NoUpdates \/ pending' = pending
      /\ updates' \in Batches
  <2>1. mirror \in Mirrors /\ updates \in Batches
    BY DEF HubTyped
  <2>2. CASE FlushTimer
    BY <2>1, <2>2, FlushKnown DEF FlushTimer
  <2>3. CASE Slice
    <3>1. ASSUME NEW now
          PROVE  /\ SentToViewers(now, updates, mirror) \in Mirrors
                 /\ \A k \in Sockets, q \in Peers :
                      SentToViewers(now, updates, mirror)[k][q] = Unknown
                        <=> mirror[k][q] = Unknown
      BY <2>1, TurnKnown
    <3>2. CASE ~current
      <4>1. FlushOver(mirror)
        BY <2>3, <3>2 DEF Slice
      <4> QED
        BY <2>1, <4>1, FlushOverKnown
    <3>3. CASE current
      <4>1. PICK now \in Turns(queue) :
              IF now = queue
              THEN FlushOver(SentToViewers(now, updates, mirror))
              ELSE /\ mirror' = SentToViewers(now, updates, mirror)
                   /\ UNCHANGED <<batchVars, updates>>
        BY <2>3, <3>3 DEF Slice
      <4>2. CASE now = queue
        <5> DEFINE sent == SentToViewers(now, updates, mirror)
        <5>1. FlushOver(sent) /\ sent \in Mirrors
          BY <3>1, <4>1, <4>2
        <5>2. \A k \in Sockets, q \in Peers : sent[k][q] = Unknown <=> mirror[k][q] = Unknown
          BY <3>1
        <5> HIDE DEF sent
        <5> QED
          BY <5>1, <5>2, FlushOverKnown
      <4>3. CASE now # queue
        BY <2>1, <3>1, <4>1, <4>3 DEF batchVars
      <4> QED
        BY <4>2, <4>3
    <3> QED
      BY <3>2, <3>3
  <2> QED
    BY <2>2, <2>3
<1>3. HubTyped'
  <2>1. NoUpdates \in Batches
    BY DEF Batches, NoUpdates
  <2> QED
    BY <1>1, <1>2, <2>1 DEF HubTyped
<1>4. Roster'
  BY <1>1 DEF Roster
<1>5. Follows'
  BY <1>1, <1>2, SameMembership
<1> QED
  BY <1>2, <1>3, <1>4, <1>5

\* A connection closes: its client is no client any more.
LEMMA CloseMirrors ==
  ASSUME MirrorInv, NEW k \in Sockets, Close(k)
  PROVE  HubTyped' /\ Roster' /\ Follows'
<1> USE DEF MirrorInv
<1>1. /\ UNCHANGED <<members, departing, sees, registered, inv, pending, updates>>
      /\ mode' = [mode EXCEPT ![k] = "none"]
      /\ mirror' = [mirror EXCEPT ![k] = [p \in Peers |-> Unknown]]
      /\ attached' = [attached EXCEPT ![k] = FALSE]
  BY DEF Close, storeVars, viewVars, batchVars, turnVars
<1>2. HubTyped'
  BY <1>1 DEF HubTyped, Mirrors
<1>3. mode'[k] = "none" /\ \A j \in Sockets : j # k =>
        mode'[j] = mode[j] /\ attached'[j] = attached[j] /\ mirror'[j] = mirror[j]
  BY <1>1 DEF HubTyped, Mirrors
<1>4. Follows'
  BY <1>1, <1>3 DEF Follows, Linked, Lists
<1> QED
  BY <1>1, <1>2, <1>4 DEF Roster

\* The broadcast goes, or the tracker restarts: nobody is subscribed.
LEMMA DisconnectedMirrors ==
  ASSUME MirrorInv, Disconnected, departing' = {}, members' \in SUBSET Peers,
         inv' \in [Peers -> SUBSET Segments], updates' \in Batches
  PROVE  HubTyped' /\ Roster' /\ Follows'
<1>1. /\ mode' = [k \in Sockets |-> "none"]
      /\ mirror' = [k \in Sockets |-> [p \in Peers |-> Unknown]]
      /\ attached' = [k \in Sockets |-> FALSE]
      /\ pending' = NoUpdates /\ registered' = {}
  BY DEF Disconnected, ForgetViews
<1>2. HubTyped'
  BY <1>1 DEF HubTyped, Mirrors, Batches, NoUpdates
<1>3. Roster' /\ Follows'
  BY <1>1 DEF Roster, Follows
<1> QED
  BY <1>2, <1>3

\* Every step keeps the invariant of the clients.
LEMMA MirrorStep ==
  ASSUME MirrorInv, [Next]_vars
  PROVE  MirrorInv'
<1>1. ViewInv'
  BY ViewStep DEF MirrorInv
<1> SUFFICES HubTyped' /\ Roster' /\ Follows'
  BY <1>1 DEF MirrorInv
<1>2. ASSUME NEW p \in Peers, Join(p) PROVE HubTyped' /\ Roster' /\ Follows'
  BY <1>2, JoinMirrors
<1>3. ASSUME NEW S \in SUBSET members, RemovePeers(S) PROVE HubTyped' /\ Roster' /\ Follows'
  BY <1>3, RemovePeersMirrors
<1>4. CASE Turn
  BY <1>4, PeerLeftMirrors, RefillMirrors DEF Turn
<1>5. ASSUME NEW k \in Sockets, NEW u \in Update, Report(k, u)
      PROVE  HubTyped' /\ Roster' /\ Follows'
  BY <1>5, HubAssumption, ReportMirrors DEF Report
<1>6. ASSUME NEW p \in Peers, NEW u \in Update, ReportRest(p, u)
      PROVE  HubTyped' /\ Roster' /\ Follows'
  <2>1. [u EXCEPT !.replace = TRUE] \in Update
    BY DEF Update
  <2> QED
    BY <1>6, <2>1, ReportMirrors DEF ReportRest
<1>7. CASE FlushTimer \/ Slice
  BY <1>7, FlushMirrors
<1>8. ASSUME NEW k \in Sockets, NEW m \in Modes, Subscribe(k, m)
      PROVE  HubTyped' /\ Roster' /\ Follows'
  BY <1>8, SubscribeMirrors
<1>9. ASSUME NEW k \in Sockets, Close(k) PROVE HubTyped' /\ Roster' /\ Follows'
  BY <1>9, CloseMirrors
<1>10. CASE RemoveBroadcast
  <2>1. /\ Disconnected /\ departing' = {} /\ members' = {} /\ updates' = updates
        /\ inv' = [p \in Peers |-> {}]
    BY <1>10 DEF RemoveBroadcast, Idle, turnVars
  <2>2. updates' \in Batches /\ inv' \in [Peers -> SUBSET Segments]
    BY <2>1 DEF HubTyped, MirrorInv
  <2> QED
    BY <2>1, <2>2, DisconnectedMirrors
<1>11. CASE Restart
  <2>1. /\ Disconnected /\ departing' = {} /\ members' = members /\ updates' = NoUpdates
        /\ inv' = inv
    BY <1>11 DEF Restart, Idle, turnVars, storeVars, EndFlush
  <2>2. /\ updates' \in Batches /\ inv' \in [Peers -> SUBSET Segments]
        /\ members' \in SUBSET Peers
    BY <2>1 DEF HubTyped, Batches, NoUpdates, ViewInv, MirrorInv
  <2> QED
    BY <2>1, <2>2, DisconnectedMirrors
<1>12. CASE UNCHANGED vars
  BY <1>12 DEF vars, viewVars, storeVars, turnVars, batchVars, flushVars,
               MirrorInv, HubTyped, Roster, Follows, Linked, Lists
<1> QED
  BY <1>1, <1>2, <1>3, <1>4, <1>5, <1>6, <1>7, <1>8, <1>9, <1>10, <1>11, <1>12
  DEF Next, SocketNext, MirrorInv

LEMMA MirrorInit == Init => MirrorInv
<1> SUFFICES ASSUME Init PROVE MirrorInv
  OBVIOUS
<1>1. ViewInv
  BY ViewInit
<1>2. HubTyped
  BY DEF Init, HubTyped, Mirrors, Batches, NoUpdates
<1>3. Roster /\ Follows
  BY DEF Init, ViewsInit, Roster, Follows
<1> QED
  BY <1>1, <1>2, <1>3 DEF MirrorInv

LEMMA MirrorsMembers == MirrorInv => MembershipMirrored
<1> SUFFICES ASSUME MirrorInv, departing = {} PROVE MembershipMirrored
  BY DEF MembershipMirrored, Idle
<1>1. ASSUME NEW k \in Viewing PROVE Known(k) = View(Owner[k])
  <2>1. Linked(k, mirror[k], sees, {}) /\ Owner[k] \in Peers
    BY <1>1, HubAssumption DEF MirrorInv, Follows, Viewing, InMode
  <2>2. View(Owner[k]) = {q \in Peers : <<Owner[k], q>> \in sees}
    BY <2>1 DEF View, MirrorInv, ViewInv, ViewsInSync
  <2> QED
    BY <2>1, <2>2 DEF Known, Linked
<1>2. ASSUME NEW k \in InMode("immediate") \cup InMode("batched")
      PROVE  Known(k) = members \ {Owner[k]}
  <2>1. Lists(k, mirror[k], members) /\ members \in SUBSET Peers
    BY <1>2 DEF MirrorInv, ViewInv, Follows, InMode
  <2> QED
    BY <2>1 DEF Known, Lists
<1> QED
  BY <1>1, <1>2 DEF MembershipMirrored

\* The members of the broadcast, or the neighbors in their view, are whom
\* clients know: TrackerWebSocketServer.peerJoined, peerLeft, announceFill and
\* subscribe leave none out, for any number of peers, sockets and segments.
THEOREM MembersAreMirrored == Spec => []MembershipMirrored
BY MirrorsMembers, MirrorInit, MirrorStep, PTL DEF Spec

-----------------------------------------------------------------------------
(* The types *)

\* The batch and the flush: what goes together in them, and the rest of the types.
Flushing ==
  /\ timer \in {"none", "armed", "due"}
  /\ flushing \in BOOLEAN /\ requested \in BOOLEAN /\ current \in BOOLEAN
  /\ queue \subseteq Peers
  /\ timer = "none" => pending = NoUpdates
  /\ ~flushing => ~requested /\ ~current /\ queue = {} /\ updates = NoUpdates
  /\ current => queue # {}
History == former \subseteq Peers /\ reported \in [Peers -> SUBSET Segments]

TypeInv == MirrorInv /\ Flushing /\ History

LEMMA FlushedTyped ==
  ASSUME NEW mir, Flush(mir)
  PROVE  Flushing'
<1> USE DEF Flushing, EndFlush
<1>1. pending' = NoUpdates /\ timer' = "none" /\ requested' = FALSE
  BY DEF Flush
<1>2. ViewerIds \subseteq Peers
  BY HubAssumption DEF ViewerIds, InMode
<1>3. CASE EndFlush
  BY <1>1, <1>3
<1>4. CASE ~EndFlush
  <2>1. PICK now \in Turns(ViewerIds) :
          /\ now # ViewerIds /\ flushing' = TRUE /\ current' = TRUE /\ queue' = ViewerIds \ now
    BY <1>4 DEF Flush
  <2>2. now \subseteq ViewerIds
    BY DEF Turns
  <2> QED
    BY <1>1, <1>2, <2>1, <2>2
<1> QED
  BY <1>3, <1>4

LEMMA FlushOverTyped ==
  ASSUME Flushing, NEW mir, FlushOver(mir)
  PROVE  Flushing'
<1>1. CASE requested
  BY <1>1, FlushedTyped DEF FlushOver
<1>2. CASE ~requested
  BY <1>2 DEF FlushOver, EndFlush, Flushing, batchVars
<1> QED
  BY <1>1, <1>2

\* What leaves the flush alone.
LEMMA FlushKept ==
  ASSUME Flushing, UNCHANGED <<flushing, requested, updates, queue>>, current' \in BOOLEAN, current' => current,
         \/ UNCHANGED batchVars
         \/ timer' \in {"armed", "due"}
         \/ timer' \in {"none", timer} /\ pending' = NoUpdates
  PROVE  Flushing'
BY DEF Flushing, batchVars

LEMMA TypeStep ==
  ASSUME TypeInv, [Next]_vars
  PROVE  TypeInv'
<1> USE DEF TypeInv
<1>1. MirrorInv'
  BY MirrorStep
<1> SUFFICES Flushing' /\ History'
  BY <1>1
<1> USE DEF flushVars, storeVars
<1>2. current \in BOOLEAN
  BY DEF Flushing
<1>3. ASSUME UNCHANGED <<former, reported>> PROVE History'
  BY <1>3 DEF History
<1>4. ASSUME NEW p \in Peers, Join(p) PROVE Flushing' /\ History'
  BY <1>2, <1>4, FlushKept DEF Join, History
<1>5. ASSUME NEW S \in SUBSET members, RemovePeers(S) PROVE Flushing' /\ History'
  <2>1. S \subseteq Peers
    BY <1>5 DEF MirrorInv, ViewInv
  <2> QED
    BY <1>2, <1>5, <2>1, FlushKept DEF RemovePeers, History
<1>6. ASSUME NEW p \in departing, PeerLeft(p) PROVE Flushing' /\ History'
  <2>1. pending = NoUpdates => pending' = NoUpdates
    BY <1>6 DEF PeerLeft, WithoutUpdatesOf, NoUpdates
  <2>2. UNCHANGED <<former, reported, timer, flushing, requested, updates, queue, current>>
    BY <1>6 DEF PeerLeft
  <2> QED
    BY <1>2, <1>3, <2>1, <2>2, FlushKept DEF Flushing
<1>7. ASSUME NEW w \in refill, Refill(w) PROVE Flushing' /\ History'
  BY <1>2, <1>3, <1>7, FlushKept DEF Refill
<1>8. ASSUME NEW p \in Peers, NEW u \in Update, NEW v, Stored(p, u), Publish(p, v), UNCHANGED flushVars
      PROVE  Flushing' /\ History'
  <2>1. UNCHANGED batchVars \/ timer' \in {"armed", "due"}
    BY <1>8 DEF Publish, Flushing
  <2>2. u.added \subseteq Segments
    BY DEF Update
  <2>3. History'
    BY <1>8, <2>2 DEF Stored, History
  <2> QED
    BY <1>2, <1>8, <2>1, <2>3, FlushKept
<1>9. ASSUME NEW k \in Sockets, NEW u \in Update, Report(k, u) PROVE Flushing' /\ History'
  BY <1>8, <1>9, HubAssumption DEF Report
<1>10. ASSUME NEW p \in Peers, NEW u \in Update, ReportRest(p, u) PROVE Flushing' /\ History'
  BY <1>8, <1>10 DEF ReportRest
<1>11. CASE FlushTimer
  <2>1. CASE flushing
    BY <1>2, <1>3, <1>11, <2>1 DEF FlushTimer, Flushing
  <2>2. CASE ~flushing
    BY <1>3, <1>11, <2>2, FlushedTyped DEF FlushTimer
  <2> QED
    BY <2>1, <2>2
<1>12. CASE Slice
  <2>1. UNCHANGED <<former, reported>>
    BY <1>12 DEF Slice
  <2>2. CASE \E mir : FlushOver(mir)
    BY <1>3, <2>1, <2>2, FlushOverTyped
  <2>3. CASE ~\E mir : FlushOver(mir)
    <3>1. PICK now \in Turns(queue) :
            /\ current /\ flushing /\ now # queue /\ queue' = queue \ now
            /\ UNCHANGED <<batchVars, flushing, requested, updates, current>>
      BY <1>12, <2>3 DEF Slice
    <3>2. now \subseteq queue
      BY DEF Turns
    <3>3. Flushing'
      BY <3>1, <3>2 DEF Flushing, batchVars
    <3> QED
      BY <1>3, <2>1, <3>3
  <2> QED
    BY <2>2, <2>3
<1>13. ASSUME NEW k \in Sockets, NEW m \in Modes, Subscribe(k, m) PROVE Flushing' /\ History'
  <2>1. current' = StillCurrent(k) /\ UNCHANGED <<former, reported, batchVars, flushing, requested, updates, queue>>
    BY <1>13 DEF Subscribe
  <2> QED
    BY <1>3, <2>1, FlushKept DEF StillCurrent
<1>14. ASSUME NEW k \in Sockets, Close(k) PROVE Flushing' /\ History'
  <2>1. current' = StillCurrent(k) /\ UNCHANGED <<former, reported, batchVars, flushing, requested, updates, queue>>
    BY <1>14 DEF Close
  <2> QED
    BY <1>3, <2>1, FlushKept DEF StillCurrent
<1>15. CASE RemoveBroadcast
  <2>1. /\ current' = FALSE /\ pending' = NoUpdates /\ timer' = "none"
        /\ UNCHANGED <<former, reported, flushing, requested, updates, queue>>
    BY <1>15 DEF RemoveBroadcast, Disconnected
  <2> QED
    BY <1>3, <2>1 DEF Flushing
<1>16. CASE Restart
  <2>1. /\ requested' = FALSE /\ EndFlush /\ pending' = NoUpdates /\ timer' = "none"
        /\ UNCHANGED <<former, reported>>
    BY <1>16 DEF Restart, Disconnected
  <2> QED
    BY <1>3, <2>1 DEF Flushing, EndFlush
<1>17. CASE UNCHANGED vars
  BY <1>2, <1>3, <1>17, FlushKept DEF vars
<1> QED
  BY <1>4, <1>5, <1>6, <1>7, <1>9, <1>10, <1>11, <1>12, <1>13, <1>14, <1>15, <1>16, <1>17
  DEF Next, SocketNext, Turn

LEMMA TypeKept == TypeInv /\ [Next]_vars => TypeInv'
BY TypeStep

LEMMA TypeInit == Init => TypeInv
<1>1. Init => Flushing /\ History
  BY DEF Init, Flushing, History
<1> QED
  BY <1>1, MirrorInit DEF TypeInv

LEMMA TypeInvTyped == TypeInv => TypeOK
<1> SUFFICES ASSUME TypeInv PROVE TypeOK
  OBVIOUS
<1>1. sees \subseteq Peers \X Peers /\ registered \subseteq Peers
  BY DEF TypeInv, MirrorInv, ViewInv, ViewsInSync
<1>2. seenBy \subseteq Peers \X Peers
  BY <1>1 DEF TypeInv, MirrorInv, ViewInv, ViewsInSync, Flip
<1> QED
  BY <1>1, <1>2 DEF TypeInv, MirrorInv, ViewInv, HubTyped, Mirrors, Batches, Flushing, History, TypeOK

\* The types of the hub, and what goes together in it: updates are pending only
\* while a timer runs for them, and a flush that is over has left nothing for the
\* next (publishInventory, flushInventory, sendViewerBatches of websocket.ts).
THEOREM HubTypeCorrect == Spec => []TypeOK
BY TypeInit, TypeStep, TypeInvTyped, PTL DEF Spec

-----------------------------------------------------------------------------
(* Full views *)

\* The view of x is full, or it sees everybody.
Full(x) == Cardinality(View(x)) = ViewSize \/ View(x) = registered \ {x}

\* Every viewer is among the members of the views, and its view is full unless
\* the loop over the watchers of the last departure has yet to come to it.
Served ==
  \A k \in Sockets : mode[k] = "viewer" /\ attached[k] =>
    /\ Owner[k] \in registered
    /\ Owner[k] \in refill \/ Full(Owner[k])

FullInv == MirrorInv /\ Served

\* fill(p) leaves the view of p full: it adds as many as are wanted, or all.
LEMMA FillFills ==
  ASSUME ViewInv, NEW known \in SUBSET Peers, registered \subseteq known, NEW p \in known,
         NEW A \in Additions(p, known), NEW E \in Evictions(p, A),
         Relink(p, known, A, E)
  PROVE  Full(p)'
<1>1. /\ A \subseteq known /\ p \notin A /\ A \cap View(p) = {} /\ p \in Peers
      /\ \A e \in E : e[1] \in A
  BY FillChoice DEF ViewInv
<1>2. /\ registered' = known
      /\ View(p)' = View(p) \cup A
  BY <1>1 DEF Relink, View
<1>3. IsFiniteSet(View(p)) /\ IsFiniteSet(A) /\ Cardinality(View(p)) \in Nat
      /\ Cardinality(A) \in Nat
  BY <1>1, ViewFinite, ViewAssumption, FS_Subset, FS_CardinalityType
<1>4. CASE Cardinality(A) = ViewSize - Cardinality(View(p))
  <2>1. Cardinality(View(p) \cup A) = Cardinality(View(p)) + Cardinality(A) - Cardinality({})
    BY <1>1, <1>3, FS_Union
  <2>2. Cardinality({}) = 0
    BY FS_EmptySet
  <2>3. Cardinality(View(p) \cup A) = ViewSize
    BY <1>3, <1>4, <2>1, <2>2, ViewAssumption
  <2> QED
    BY <1>2, <2>3 DEF Full
<1>5. CASE A = Candidates(p, known)
  <2>1. View(p) \subseteq known \ {p}
    BY DEF ViewInv, ViewsInSync, View
  <2>2. View(p)' = known \ {p}
    BY <1>2, <1>5, <2>1 DEF Candidates
  <2> QED
    BY <1>2, <2>2 DEF Full
<1> QED
  BY <1>4, <1>5 DEF Additions

\* It leaves every other view full, too: a full peer that links back drops one
\* neighbor for p, and if p is new, a peer that saw everybody is chosen, as
\* then they are too few for the view of p.
LEMMA FillKeepsFull ==
  ASSUME ViewInv, NEW p \in Peers, NEW known \in SUBSET Peers, known = registered \cup {p},
         NEW A \in Additions(p, known), NEW E \in Evictions(p, A),
         Relink(p, known, A, E),
         NEW x \in registered, x # p, Full(x)
  PROVE  Full(x)'
<1>1. /\ A \subseteq known /\ p \notin A /\ A \cap View(p) = {} /\ p \in Peers /\ x \in Peers
      /\ E \subseteq sees
      /\ \A e \in E : e[1] \in A
      /\ \A c \in A : HasRoom(c) \/ <<c, p>> \in sees
                        \/ Cardinality({e \in E : e[1] = c}) = 1
      /\ \A c \in A : HasRoom(c) \/ <<c, p>> \in sees => {e \in E : e[1] = c} = {}
  BY FillChoice DEF ViewInv
<1>2. /\ sees \subseteq registered \X registered
      /\ x \notin View(x) /\ Cardinality(View(x)) <= ViewSize
      /\ View(x) \subseteq registered /\ View(p) \subseteq registered
  BY <1>1 DEF ViewInv, ViewsInSync, View
<1> DEFINE gone == {r \in Peers : <<x, r>> \in E}
<1>3. /\ registered' = known
      /\ View(x)' = (View(x) \ gone) \cup (IF x \in A THEN {p} ELSE {})
  BY <1>1 DEF Relink, View
<1>4. IsFiniteSet(View(x)) /\ Cardinality(View(x)) \in Nat
  BY ViewFinite
<1>5. x \notin A \/ <<x, p>> \in sees \/ HasRoom(x) => gone = {}
  BY <1>1
<1>6. CASE Cardinality(View(x)) = ViewSize
  <2>1. CASE x \notin A \/ <<x, p>> \in sees
    <3>1. View(x)' = View(x)
      BY <1>1, <1>3, <1>5, <2>1 DEF View
    <3> QED
      BY <1>6, <3>1 DEF Full
  <2>2. CASE x \in A /\ <<x, p>> \notin sees
    <3>1. ~HasRoom(x)
      BY <1>6, ViewAssumption DEF HasRoom
    <3>2. Cardinality({e \in E : e[1] = x}) = 1
      BY <1>1, <2>2, <3>1
    <3>3. PICK y : {e \in E : e[1] = x} = {y}
      <4>1. {e \in E : e[1] = x} \subseteq Peers \X Peers
        BY <1>1, <1>2 DEF ViewInv
      <4>2. IsFiniteSet({e \in E : e[1] = x})
        BY <4>1, ViewAssumption, FS_Product, FS_Subset
      <4> QED
        BY <3>2, <4>2, FS_Singleton
    <3>4. y \in sees /\ y[1] = x /\ y = <<x, y[2]>> /\ y[2] \in Peers
      BY <1>1, <1>2, <3>3 DEF ViewInv
    <3>5. gone = {y[2]} /\ y[2] \in View(x)
      BY <3>3, <3>4 DEF View
    <3>6. View(x)' = (View(x) \ {y[2]}) \cup {p} /\ p \notin View(x)
      BY <1>3, <2>2, <3>5 DEF View
    <3> DEFINE R == View(x) \ {y[2]}
    <3>7. IsFiniteSet(R) /\ Cardinality(R) = ViewSize - 1
      BY <1>4, <1>6, <3>5, FS_RemoveElement
    <3>8. p \notin R
      BY <3>6
    <3> HIDE DEF R
    <3>9. Cardinality(R \cup {p}) = ViewSize - 1 + 1
      BY <3>7, <3>8, FS_AddElement
    <3> QED
      BY <3>6, <3>9, ViewAssumption DEF Full, R
  <2> QED
    BY <2>1, <2>2
<1>7. CASE View(x) = registered \ {x} /\ Cardinality(View(x)) # ViewSize
  <2>1. HasRoom(x)
    BY <1>2, <1>4, <1>7, ViewAssumption DEF HasRoom
  <2>2. CASE p \in registered
    <3>1. View(x)' = known \ {x}
      BY <1>3, <1>5, <1>7, <2>1, <2>2
    <3> QED
      BY <1>3, <3>1 DEF Full
  <2>3. CASE p \notin registered
    <3>1. View(p) = {} /\ Candidates(p, known) = registered
      BY <1>2, <2>3 DEF Candidates, ViewInv, ViewsInSync, View
    <3>2. registered = View(x) \cup {x}
      BY <1>7
    <3>3. IsFiniteSet(registered) /\ Cardinality(registered) = Cardinality(View(x)) + 1
      BY <1>2, <1>4, <3>2, FS_AddElement
    <3>4. Cardinality(registered) <= ViewSize
      BY <1>4, <2>1, <3>3, ViewAssumption DEF HasRoom
    <3>5. Cardinality({}) = 0
      BY FS_EmptySet
    <3>6. A \subseteq registered /\ (Cardinality(A) = ViewSize \/ A = registered)
      BY <3>1, <3>5, ViewAssumption DEF Additions
    <3>7. A = registered
      <4>1. IsFiniteSet(A) /\ Cardinality(A) <= Cardinality(registered)
            /\ (Cardinality(A) = Cardinality(registered) => A = registered)
        BY <3>3, <3>6, FS_Subset
      <4>2. Cardinality(A) \in Nat /\ Cardinality(registered) \in Nat
        BY <3>3, <4>1, FS_CardinalityType
      <4> QED
        BY <3>4, <3>6, <4>1, <4>2, ViewAssumption
    <3>8. View(x)' = known \ {x}
      BY <1>3, <1>5, <1>7, <2>1, <3>7
    <3> QED
      BY <1>3, <3>8 DEF Full
  <2> QED
    BY <2>2, <2>3
<1> QED
  BY <1>6, <1>7 DEF Full

\* What of the state viewers being served depends on.
LEMMA SameService ==
  ASSUME Served, UNCHANGED viewVars, refill' = refill,
         \A k \in Sockets : mode'[k] = "viewer" /\ attached'[k] =>
                              mode[k] = "viewer" /\ attached[k]
  PROVE  Served'
BY DEF Served, Full, View, viewVars

\* Nobody is served when nobody is registered.
LEMMA JoinServes ==
  ASSUME FullInv, NEW p \in Peers, Join(p)
  PROVE  Served'
<1> USE DEF FullInv, MirrorInv
<1> DEFINE known == Seeded(p, members')
<1>1. /\ members' = members \cup {p} /\ members' \in SUBSET Peers /\ p \notin members
      /\ departing = {} /\ refill = {} /\ refill' = {}
      /\ mode' = mode /\ attached' = attached
  BY DEF Join, Idle, turnVars, ViewInv
<1>2. PICK A \in Additions(p, known) : \E E \in Evictions(p, A) : Relink(p, known, A, E)
  BY DEF Join
<1>2a. PICK E \in Evictions(p, A) : Relink(p, known, A, E)
  BY <1>2
<1>3. known \in SUBSET Peers /\ registered \subseteq known
      /\ (registered # {} => known = registered \cup {p})
  BY <1>1, SeededMembers DEF ViewInv, Seeded
<1>4. p \notin registered /\ registered' = known
  BY <1>1, <1>2a DEF Roster, Relink
<1> HIDE DEF known
<1>5. ASSUME NEW k \in Sockets, mode[k] = "viewer", attached[k]
      PROVE  Owner[k] \in registered' /\ Full(Owner[k])'
  <2>1. Owner[k] \in registered /\ Full(Owner[k]) /\ Owner[k] # p
    BY <1>1, <1>4, <1>5 DEF Served
  <2> QED
    BY <1>2a, <1>3, <1>4, <2>1, FillKeepsFull
<1> QED
  BY <1>1, <1>5 DEF Served

\* The watchers of a peer that left are served next; others did not see it.
LEMMA PeerLeftServes ==
  ASSUME FullInv, NEW p \in departing, PeerLeft(p)
  PROVE  Served'
<1> USE DEF FullInv, MirrorInv
<1>1. /\ refill = {} /\ p \in Peers /\ mode' = mode
      /\ attached' = [k \in Sockets |-> attached[k] /\ Owner[k] # p]
  BY DEF PeerLeft, ViewInv
<1>2. CASE p \notin registered
  <2>1. UNCHANGED viewVars /\ refill' = refill
    BY <1>1, <1>2 DEF PeerLeft
  <2> QED
    BY <1>1, <2>1, SameService
<1>3. CASE p \in registered
  <2>1. Leave(p) /\ refill' = Watchers(p)
    BY <1>3 DEF PeerLeft
  <2>2. registered' = registered \ {p}
        /\ sees' = {e \in sees : e[1] # p /\ ~(e[2] = p /\ e[1] \in Watchers(p))}
    BY <2>1 DEF Leave
  <2>3. ASSUME NEW k \in Sockets, mode[k] = "viewer", attached[k], Owner[k] # p,
               Owner[k] \notin Watchers(p)
        PROVE  Owner[k] \in registered' /\ Full(Owner[k])'
    <3>1. Owner[k] \in registered /\ Full(Owner[k]) /\ Owner[k] \in Peers
      BY <1>1, <2>3, HubAssumption DEF Served
    <3>2. <<Owner[k], p>> \notin sees
      BY <1>1, <2>3, <3>1, FlipMembers DEF Watchers, ViewInv, ViewsInSync
    <3>3. View(Owner[k])' = View(Owner[k])
      BY <2>2, <2>3, <3>1, <3>2 DEF View
    <3>4. p \notin View(Owner[k])
      BY <3>2 DEF View
    <3>5. Full(Owner[k])'
      BY <1>3, <2>2, <2>3, <3>1, <3>3, <3>4 DEF Full
    <3> QED
      BY <2>2, <2>3, <3>1, <3>5
  <2>4. \A q \in Watchers(p) : q \in registered'
    BY <2>1, PeerLeftViews DEF ViewInv
  <2> QED
    BY <1>1, <2>1, <2>3, <2>4 DEF Served
<1> QED
  BY <1>2, <1>3

\* One watcher is served.
LEMMA RefillServes ==
  ASSUME FullInv, NEW w \in refill, Refill(w)
  PROVE  Served'
<1> USE DEF FullInv, MirrorInv
<1>1. /\ refill' = refill \ {w} /\ mode' = mode /\ attached' = attached
      /\ w \in registered /\ w \in Peers /\ registered \in SUBSET Peers
  BY DEF Refill, ViewInv
<1>2. PICK A \in Additions(w, registered) :
        \E E \in Evictions(w, A) : Relink(w, registered, A, E)
  BY DEF Refill
<1>2a. PICK E \in Evictions(w, A) : Relink(w, registered, A, E)
  BY <1>2
<1>3. registered = registered \cup {w} /\ registered' = registered
  BY <1>1, <1>2a DEF Relink
<1>4. Full(w)'
  BY <1>1, <1>2a, FillFills
<1>5. ASSUME NEW k \in Sockets, mode[k] = "viewer", attached[k], Owner[k] \notin refill'
      PROVE  Full(Owner[k])'
  <2>1. Owner[k] = w \/ (Owner[k] \in registered /\ Owner[k] # w /\ Full(Owner[k]))
    BY <1>1, <1>5 DEF Served
  <2> QED
    BY <1>1, <1>2a, <1>3, <1>4, <2>1, FillKeepsFull
<1> QED
  BY <1>1, <1>3, <1>5 DEF Served

\* A viewer subscribes and is served.
LEMMA SubscribeServes ==
  ASSUME FullInv, NEW k \in Sockets, NEW m \in Modes, Subscribe(k, m)
  PROVE  Served'
<1> USE DEF FullInv, MirrorInv
<1> DEFINE p == Owner[k]
<1>1. /\ refill = {} /\ refill' = {} /\ departing = {} /\ p \in members /\ p \in Peers
      /\ members \in SUBSET Peers
      /\ mode' = [mode EXCEPT ![k] = m]
      /\ attached' = [attached EXCEPT ![k] = TRUE]
  BY HubAssumption DEF Subscribe, Idle, turnVars, ViewInv
<1>2. /\ mode'[k] = m
      /\ \A j \in Sockets : j # k => mode'[j] = mode[j] /\ attached'[j] = attached[j]
  BY <1>1 DEF HubTyped
<1>3. CASE m # "viewer"
  <2>1. UNCHANGED viewVars
    BY <1>3 DEF Subscribe
  <2> QED
    BY <1>1, <1>2, <1>3, <2>1, SameService
<1>4. CASE m = "viewer"
  <2> DEFINE known == Seeded(p, members)
  <2>1. PICK A \in Additions(p, known) : \E E \in Evictions(p, A) : Relink(p, known, A, E)
    BY <1>4 DEF Subscribe
  <2>1a. PICK E \in Evictions(p, A) : Relink(p, known, A, E)
    BY <2>1
  <2>2. known \in SUBSET Peers /\ registered \subseteq known /\ p \in known
        /\ (registered # {} => known = registered \cup {p})
    BY <1>1, SeededMembers DEF ViewInv, Seeded
  <2>3. registered' = known
    BY <2>1a DEF Relink
  <2> HIDE DEF known, p
  <2>4. Full(p)'
    BY <2>1a, <2>2, FillFills
  <2>5. ASSUME NEW j \in Sockets, mode[j] = "viewer", attached[j]
        PROVE  Owner[j] \in registered' /\ Full(Owner[j])'
    <3>1. Owner[j] \in registered /\ Full(Owner[j])
      BY <1>1, <2>5 DEF Served
    <3>2. CASE Owner[j] = p
      BY <2>2, <2>3, <2>4, <3>2
    <3>3. CASE Owner[j] # p
      BY <1>1, <2>1a, <2>2, <2>3, <3>1, <3>3, FillKeepsFull
    <3> QED
      BY <3>2, <3>3
  <2> QED
    BY <1>1, <1>2, <2>2, <2>3, <2>4, <2>5 DEF Served, p
<1> QED
  BY <1>3, <1>4

\* Every step keeps viewers served.
LEMMA ServedStep ==
  ASSUME FullInv, [Next]_vars
  PROVE  FullInv'
<1>1. MirrorInv'
  BY MirrorStep DEF FullInv
<1>2. Served /\ mode \in [Sockets -> {"none", "immediate", "batched", "viewer"}]
  BY DEF FullInv, MirrorInv, HubTyped
<1> SUFFICES Served'
  BY <1>1 DEF FullInv
<1>3. ASSUME NEW p \in Peers, Join(p) PROVE Served'
  BY <1>3, JoinServes
<1>4. CASE Turn
  BY <1>4, PeerLeftServes, RefillServes DEF Turn
<1>5. ASSUME NEW S \in SUBSET members, RemovePeers(S) PROVE Served'
  BY <1>2, <1>5, SameService DEF RemovePeers
<1>6. ASSUME NEW k \in Sockets, NEW m \in Modes, Subscribe(k, m) PROVE Served'
  BY <1>6, SubscribeServes
<1>7. ASSUME NEW k \in Sockets, Close(k) PROVE Served'
  <2>1. /\ UNCHANGED viewVars /\ refill' = refill
        /\ mode' = [mode EXCEPT ![k] = "none"]
        /\ attached' = [attached EXCEPT ![k] = FALSE]
    BY <1>7 DEF Close, turnVars
  <2>2. \A j \in Sockets : mode'[j] = "viewer" /\ attached'[j] => mode[j] = "viewer" /\ attached[j]
    <3>1. attached \in [Sockets -> BOOLEAN]
      BY DEF FullInv, MirrorInv, HubTyped
    <3> QED
      BY <1>2, <2>1, <3>1
  <2> QED
    BY <1>2, <2>1, <2>2, SameService
<1>8. CASE RemoveBroadcast \/ Restart
  <2>1. mode' = [k \in Sockets |-> "none"]
    BY <1>8 DEF RemoveBroadcast, Restart, Disconnected
  <2> QED
    BY <2>1 DEF Served
<1>9. CASE UNCHANGED <<viewVars, turnVars, mode, attached>>
  BY <1>2, <1>9, SameService DEF turnVars
<1>10. ASSUME NEW k \in Sockets, NEW u \in Update, Report(k, u) PROVE Served'
  BY <1>9, <1>10 DEF Report
<1>11. ASSUME NEW p \in Peers, NEW u \in Update, ReportRest(p, u) PROVE Served'
  BY <1>9, <1>11 DEF ReportRest
<1>12. CASE FlushTimer \/ Slice
  BY <1>9, <1>12 DEF FlushTimer, Slice
<1>13. CASE UNCHANGED vars
  BY <1>9, <1>13 DEF vars
<1> QED
  BY <1>3, <1>4, <1>5, <1>6, <1>7, <1>8, <1>10, <1>11, <1>12, <1>13 DEF Next, SocketNext

\* However the audience churns, the view of every subscribed viewer is full or
\* holds everybody else, as soon as nobody is being removed (NeighborViews.add,
\* fill and leave, and the loop of peerLeft over the watchers).
THEOREM ViewsStayFull == Spec => []ViewsFull
<1>1. Init => FullInv
  BY MirrorInit DEF Init, FullInv, Served
<1>2. FullInv => ViewsFull
  <2> SUFFICES ASSUME FullInv, refill = {}, NEW k \in Viewing
               PROVE  Full(Owner[k])
    BY DEF ViewsFull, Idle, Full
  <2> QED
    BY DEF FullInv, Served, Viewing, InMode
<1> QED
  BY <1>1, <1>2, ServedStep, PTL DEF Spec
=============================================================================
