------------------------- MODULE SqliteStoreProofs -------------------------
(***************************************************************************)
(* The SQLite store implements TrackerStore, for any broadcasts, peers,    *)
(* segments and limits, whatever statements fail and whenever the tracker  *)
(* crashes.                                                                *)
(***************************************************************************)
EXTENDS SqliteStore, FiniteSetTheorems, WellFoundedInduction, TLAPS

-----------------------------------------------------------------------------
(* Sequences.                                                               *)

\* Induction.
LEMMA Counted ==
  ASSUME NEW N \in Nat, NEW S, 0 \in S, \A n \in S : n \in Nat /\ n < N => n + 1 \in S
  PROVE  0..N \subseteq S
<1> SUFFICES ASSUME NEW m \in 0..N, m \notin S PROVE FALSE
  OBVIOUS
<1> DEFINE Missed == {n \in Nat : n \notin S /\ n <= N}
<1>1. m \in Missed /\ Missed \subseteq Nat
  OBVIOUS
<1>2. PICK x \in Missed : \A y \in Missed : ~(<<y, x>> \in OpToRel(<, Nat))
  BY <1>1, WFMin, NatLessThanWellFounded, Zenon
<1>2a. x \in Nat /\ x \notin S /\ x <= N
  BY <1>2
<1>2b. x # 0
  BY <1>2a
<1>3. x - 1 \in Nat /\ x - 1 < N /\ (x - 1) + 1 = x
  BY <1>2a, <1>2b
<1>4. x - 1 \notin S
  BY <1>2a, <1>3
<1>5. x - 1 \in Missed
  BY <1>3, <1>4
<1>6. <<x - 1, x>> \in Nat \X Nat /\ ~(<<x - 1, x>> \in OpToRel(<, Nat))
  BY <1>1, <1>2, <1>5
<1> QED
  BY <1>3, <1>6 DEF OpToRel

\* Those(s, T) are the elements of s in T, and no more often than in s.
Sifted(s, T, n, kept) ==
  /\ kept \in Seq(T)
  /\ Range(kept) = {s[i] : i \in 1..n} \cap T
  /\ IsInjective(s) => IsInjective(kept)

LEMMA ThoseKept ==
  ASSUME NEW X, NEW s \in Seq(X), NEW T
  PROVE  Sifted(s, T, Len(s), Those(s, T))
<1> DEFINE Next1(g, n) == IF n = 0 THEN <<>>
                          ELSE IF s[n] \in T THEN Append(g[n - 1], s[n]) ELSE g[n - 1]
           Good(g, m) == \A n \in 0..m : g[n] = Next1(g, n) /\ Sifted(s, T, n, g[n])
           N == {m \in 0..Len(s) : \E g : DOMAIN g = 0..m /\ Good(g, m)}
<1>0. Len(s) \in Nat /\ DOMAIN s = 1..Len(s)
  OBVIOUS
<1>1. 0 \in N
  <2>1. Sifted(s, T, 0, <<>>)
    BY DEF Sifted, Range, IsInjective
  <2> DEFINE g == [n \in 0..0 |-> <<>>]
  <2>2. DOMAIN g = 0..0 /\ Good(g, 0)
    BY <2>1
  <2> HIDE DEF g
  <2> QED
    BY <1>0, <2>2
<1>2. ASSUME NEW m \in N, m \in Nat, m < Len(s) PROVE m + 1 \in N
  <2>1. PICK g : DOMAIN g = 0..m /\ Good(g, m)
    BY <1>2
  <2> DEFINE x == s[m + 1]
             h == [n \in 0..(m + 1) |-> IF n <= m THEN g[n]
                                        ELSE IF x \in T THEN Append(g[m], x) ELSE g[m]]
  <2>2. Sifted(s, T, m, g[m]) /\ m + 1 \in 1..Len(s) /\ x \in X
    BY <1>2, <2>1
  <2>3. {s[i] : i \in 1..(m + 1)} = {s[i] : i \in 1..m} \cup {x}
    BY <1>2
  <2>4. Sifted(s, T, m + 1, h[m + 1])
    <3>1. CASE x \in T
      <4> DEFINE k == g[m]
      <4>1. k \in Seq(T) /\ h[m + 1] = Append(k, x)
        BY <1>2, <2>2, <3>1 DEF Sifted
      <4> DEFINE e == Append(k, x)
      <4>2. /\ e \in Seq(T) /\ DOMAIN e = 1..(Len(k) + 1) /\ DOMAIN k = 1..Len(k) /\ Len(k) \in Nat
            /\ \A i \in 1..Len(k) : e[i] = k[i]
            /\ e[Len(k) + 1] = x
        BY <3>1, <4>1
      <4> HIDE DEF e, k
      <4>3. Range(e) = Range(k) \cup {x}
        <5>1. \A i \in 1..(Len(k) + 1) : i \in 1..Len(k) \/ i = Len(k) + 1
          BY <4>2
        <5>2. Range(e) \subseteq Range(k) \cup {x}
          BY <4>2, <5>1 DEF Range
        <5>3. Range(k) \cup {x} \subseteq Range(e)
          BY <4>2 DEF Range
        <5> QED
          BY <5>2, <5>3
      <4>4. ASSUME IsInjective(s) PROVE IsInjective(e)
        <5>1. \A i \in 1..m : s[i] # x
          BY <1>0, <1>2, <4>4 DEF IsInjective
        <5>2. x \notin Range(k) /\ IsInjective(k)
          BY <2>2, <4>4, <5>1 DEF Sifted, k
        <5> SUFFICES ASSUME NEW i \in DOMAIN e, NEW j \in DOMAIN e, e[i] = e[j] PROVE i = j
          BY Zenon DEF IsInjective
        <5>3. \A a \in DOMAIN e : (a \in DOMAIN k /\ e[a] = k[a]) \/ (a = Len(k) + 1 /\ e[a] = x)
          BY <4>2
        <5>4. \A a \in DOMAIN k : k[a] # x
          BY <5>2 DEF Range
        <5>5. CASE i \in DOMAIN k /\ j \in DOMAIN k
          BY <4>2, <5>2, <5>5 DEF IsInjective
        <5> QED
          BY <5>3, <5>4, <5>5
      <4>5. Range(e) = {s[i] : i \in 1..(m + 1)} \cap T
        BY <2>2, <2>3, <3>1, <4>3 DEF Sifted, k
      <4> QED
        BY <4>1, <4>2, <4>4, <4>5 DEF Sifted, e
    <3>2. CASE x \notin T
      <4>1. h[m + 1] = g[m]
        BY <1>2, <3>2
      <4>2. {s[i] : i \in 1..(m + 1)} \cap T = {s[i] : i \in 1..m} \cap T
        BY <2>3, <3>2
      <4> QED
        BY <2>2, <4>1, <4>2 DEF Sifted
    <3> QED
      BY <3>1, <3>2
  <2>5. \A n \in 0..m : h[n] = g[n]
    BY <1>2
  <2>6. h[m + 1] = Next1(h, m + 1)
    BY <1>2, <2>5
  <2>7. \A n \in 0..m : Next1(h, n) = Next1(g, n)
    BY <1>2, <2>5
  <2>8. ASSUME NEW n \in 0..(m + 1) PROVE h[n] = Next1(h, n) /\ Sifted(s, T, n, h[n])
    <3>1. CASE n = m + 1
      BY <2>4, <2>6, <3>1
    <3>2. CASE n \in 0..m
      <4>1. g[n] = Next1(g, n) /\ Sifted(s, T, n, g[n])
        BY <2>1, <3>2
      <4> HIDE DEF h, Next1
      <4> QED
        BY <2>5, <2>7, <3>2, <4>1
    <3> QED
      BY <1>2, <3>1, <3>2
  <2>9. DOMAIN h = 0..(m + 1)
    OBVIOUS
  <2>10. m + 1 \in 0..Len(s) /\ Good(h, m + 1)
    <3> HIDE DEF h, Next1
    <3> QED
      BY <1>0, <1>2, <2>8
  <2> HIDE DEF h, Good
  <2> QED
    BY <2>9, <2>10
<1>3. Len(s) \in N
  <2> HIDE DEF N
  <2> QED
    BY <1>0, <1>1, <1>2, Counted
<1>4. PICK g : DOMAIN g = 0..Len(s) /\ Good(g, Len(s))
  BY <1>3
<1> DEFINE P(h) == h = [n \in 0..Len(s) |-> IF n = 0 THEN <<>>
                         ELSE IF s[n] \in T THEN Append(h[n - 1], s[n]) ELSE h[n - 1]]
           those == CHOOSE h : P(h)
           G == [n \in 0..Len(s) |-> g[n]]
<1>5. P(G)
  BY <1>0, <1>4
<1>6. P(those)
  <2> HIDE DEF P, G
  <2> QED
    BY <1>5, Zenon
<1>7. Those(s, T) = those[Len(s)]
  BY Zenon DEF Those
<1>8. \A n \in 0..Len(s) : those[n] = Next1(those, n)
  <2> HIDE DEF those
  <2> QED
    BY <1>6
<1>9. those[Len(s)] = g[Len(s)]
  <2> DEFINE K == {k \in 0..Len(s) : those[k] = g[k]}
  <2>1. \A n \in 0..Len(s) : g[n] = Next1(g, n)
    BY <1>4
  <2> HIDE DEF those
  <2>2. 0 \in K
    BY <1>0, <1>8, <2>1
  <2>3. ASSUME NEW n \in K, n \in Nat, n < Len(s) PROVE n + 1 \in K
    <3>1. those[n] = g[n] /\ n + 1 \in 0..Len(s) /\ n + 1 # 0 /\ (n + 1) - 1 = n
      BY <1>0, <2>3
    <3>2. those[n + 1] = Next1(those, n + 1) /\ g[n + 1] = Next1(g, n + 1)
      BY <1>8, <2>1, <3>1
    <3> QED
      BY <3>1, <3>2
  <2>4. 0..Len(s) \subseteq K
    <3> HIDE DEF K
    <3> QED
      BY <1>0, <2>2, <2>3, Counted
  <2> QED
    BY <1>0, <2>4
<1>10. Sifted(s, T, Len(s), g[Len(s)])
  BY <1>0, <1>4
<1> HIDE DEF those
<1> QED
  BY <1>7, <1>9, <1>10

-----------------------------------------------------------------------------
(* Scripts.                                                                 *)

IsScript(s) == \E X : s \in Seq(X)

\* The tables that the statements of a script lead through.
Runs(run, t, s) ==
  run[1] = t /\ \A i \in 1..Len(s) : run[i + 1] = Effect(run[i], s[i])

LEMMA RunExists == ASSUME NEW t, NEW s, IsScript(s) PROVE \E run : Runs(run, t, s)
<1> DEFINE Good(run, m) == run[1] = t /\ \A i \in 1..m : run[i + 1] = Effect(run[i], s[i])
           N == {m \in 0..Len(s) : \E run : Good(run, m)}
<1>0. Len(s) \in Nat
  BY DEF IsScript
<1>1. 0 \in N
  <2> DEFINE run == [i \in {1} |-> t]
  <2>1. Good(run, 0)
    OBVIOUS
  <2> HIDE DEF run
  <2> QED
    BY <1>0, <2>1
<1>2. ASSUME NEW m \in N, m \in Nat, m < Len(s) PROVE m + 1 \in N
  <2>1. PICK run : Good(run, m)
    BY <1>2
  <2> DEFINE u == Effect(run[m + 1], s[m + 1])
             more == [i \in 1..(m + 2) |-> IF i <= m + 1 THEN run[i] ELSE u]
  <2>2. \A i \in 1..(m + 1) : more[i] = run[i]
    BY <1>2
  <2>3. more[m + 2] = u
    BY <1>2
  <2>4. more[1] = t
    BY <1>2, <2>1, <2>2
  <2>5. ASSUME NEW i \in 1..(m + 1) PROVE more[i + 1] = Effect(more[i], s[i])
    <3>1. CASE i = m + 1
      <4>1. i + 1 = m + 2 /\ more[i] = run[m + 1]
        BY <1>2, <2>2, <3>1
      <4> QED
        BY <2>3, <3>1, <4>1
    <3>2. CASE i # m + 1
      <4>1. i \in 1..m /\ i + 1 \in 1..(m + 1)
        BY <1>2, <3>2
      <4>2. more[i + 1] = run[i + 1] /\ more[i] = run[i]
        BY <2>2, <4>1
      <4> QED
        BY <2>1, <4>1, <4>2
    <3> QED
      BY <3>1, <3>2
  <2> HIDE DEF more
  <2>6. Good(more, m + 1)
    BY <2>4, <2>5
  <2> HIDE DEF Good
  <2> QED
    BY <1>0, <1>2, <2>6
<1>3. Len(s) \in N
  <2> HIDE DEF N
  <2> QED
    BY <1>0, <1>1, <1>2, Counted
<1> QED
  BY <1>3 DEF Runs

\* What the first statement leaves of it.
LEMMA RunGoesOn ==
  ASSUME NEW t, NEW s, IsScript(s), s # <<>>, NEW run, Runs(run, t, s)
  PROVE  /\ IsScript(Tail(s)) /\ Len(Tail(s)) \in Nat
         /\ \E rest : /\ Runs(rest, Effect(t, Head(s)), Tail(s))
                      /\ rest[Len(Tail(s)) + 1] = run[Len(s) + 1]
         /\ Tail(s) = <<>> => run[Len(s) + 1] = Effect(t, Head(s))
<1> DEFINE r == Tail(s)
           rest == [i \in 1..Len(s) |-> run[i + 1]]
<1>1. /\ IsScript(r) /\ Len(s) \in Nat \ {0} /\ Len(r) = Len(s) - 1
      /\ \A i \in 1..Len(r) : r[i] = s[i + 1]
      /\ Head(s) = s[1]
  BY DEF IsScript
<1> HIDE DEF r
<1>2. run[2] = Effect(t, s[1])
  BY <1>1 DEF Runs
<1>3. rest[1] = Effect(t, s[1])
  BY <1>1, <1>2
<1>4. ASSUME NEW i \in 1..Len(r) PROVE rest[i + 1] = Effect(rest[i], r[i])
  <2>1. i \in 1..Len(s) /\ i + 1 \in 1..Len(s) /\ (i + 1) + 1 = i + 2
    BY <1>1
  <2>2. rest[i + 1] = run[(i + 1) + 1] /\ rest[i] = run[i + 1]
    BY <2>1
  <2> HIDE DEF rest
  <2> QED
    BY <1>1, <2>1, <2>2 DEF Runs
<1>5. rest[Len(r) + 1] = run[Len(s) + 1]
  BY <1>1
<1>6. r = <<>> => run[Len(s) + 1] = Effect(t, s[1])
  <2> SUFFICES ASSUME r = <<>> PROVE run[Len(s) + 1] = Effect(t, s[1])
    OBVIOUS
  <2>1. Len(r) = 0
    OBVIOUS
  <2>2. Len(s) + 1 = 2
    BY <1>1, <2>1
  <2> QED
    BY <1>2, <2>2
<1> HIDE DEF rest
<1>7. Runs(rest, Effect(t, s[1]), r)
  BY <1>3, <1>4 DEF Runs
<1> QED
  BY <1>1, <1>5, <1>6, <1>7 DEF r

\* The statements, one by one.
LEMMA Effects ==
  ASSUME NEW t, NEW k, NEW a
  PROVE  LET b == k[1]
             After(do) == Effect(t, Stmt(do, k, a))
         IN  /\ After("insertBroadcast") = [t EXCEPT !.broadcasts = t.broadcasts \cup {b}]
             /\ After("deleteBroadcastSegments") =
                  [t EXCEPT !.segments = Less(t.segments, {b} \X Peer \X Segment)]
             /\ After("deleteBroadcastPeerStats") =
                  [t EXCEPT !.stats = [x \in {y \in DOMAIN t.stats : y[1] # b} |-> t.stats[x]]]
             /\ After("deleteBroadcastRetiredStats") =
                  [t EXCEPT !.retired = [x \in {y \in DOMAIN t.retired : y # b} |-> t.retired[x]]]
             /\ After("deleteBroadcastPeers") =
                  [t EXCEPT !.peers = [x \in {y \in DOMAIN t.peers : y[1] # b} |-> t.peers[x]]]
             /\ After("deleteBroadcast") = [t EXCEPT !.broadcasts = t.broadcasts \ {b}]
             /\ After("upsertPeer") =
                  [t EXCEPT !.peers = Store!Put(t.peers, k,
                     [quality |-> IF k \in DOMAIN t.peers THEN t.peers[k].quality
                                  ELSE Store!NewPeer.quality, seen |-> TRUE])]
             /\ After("insertEmptyPeerStats") =
                  [t EXCEPT !.stats = IF k \in DOMAIN t.stats THEN t.stats ELSE Store!Put(t.stats, k, 0)]
             /\ After("accumulateRetiredStats") =
                  IF k \in DOMAIN t.stats
                  THEN [t EXCEPT !.retired = Store!Put(t.retired, b, RetiredOf(t, b) + t.stats[k])]
                  ELSE t
             /\ After("deletePeerStats") = [t EXCEPT !.stats = Store!Drop(t.stats, {k})]
             /\ After("deletePeerSegments") =
                  [t EXCEPT !.segments = Less(t.segments, {b} \X {k[2]} \X Segment)]
             /\ After("deletePeer") = [t EXCEPT !.peers = Store!Drop(t.peers, {k})]
             /\ After("deletePeerSegment") =
                  [t EXCEPT !.segments = Less(t.segments, {<<b, k[2], a>>})]
             /\ After("insertPeerSegment") =
                  [t EXCEPT !.segments = Append(t.segments, <<b, k[2], a>>)]
             /\ After("replacePeerStats") = [t EXCEPT !.stats = Store!Put(t.stats, k, a)]
             /\ After("updatePeerLastSeen") = [t EXCEPT !.peers[k].seen = TRUE]
             /\ After("updatePeerHealth") =
                  [t EXCEPT !.peers[k] = [quality |-> a, seen |-> TRUE]]
             /\ After("updatePeerTrust") = [t EXCEPT !.peers[k].quality = a]
BY DEF Effect, Stmt, Without

-----------------------------------------------------------------------------
(* The tables between calls: what the foreign keys say, and that no segment *)
(* has two rows.                                                            *)

Rows == Broadcast \X Peer \X Segment

Sound(t) ==
  /\ t = [broadcasts |-> t.broadcasts, peers |-> t.peers, segments |-> t.segments,
          stats |-> t.stats, retired |-> t.retired]
  /\ t.broadcasts \subseteq Broadcast
  /\ DOMAIN t.peers \subseteq t.broadcasts \X Peer /\ IsFiniteSet(DOMAIN t.peers)
  /\ t.peers = [k \in DOMAIN t.peers |-> t.peers[k]]
  /\ \A k \in DOMAIN t.peers : t.peers[k] = [quality |-> t.peers[k].quality, seen |-> t.peers[k].seen]
  /\ DOMAIN t.stats \subseteq DOMAIN t.peers
  /\ t.stats \in [DOMAIN t.stats -> Nat]
  /\ DOMAIN t.retired \subseteq t.broadcasts
  /\ t.retired \in [DOMAIN t.retired -> Nat]
  /\ t.segments \in Seq(Rows) /\ IsInjective(t.segments)
  /\ \A r \in Range(t.segments) : <<r[1], r[2]>> \in DOMAIN t.peers

Held(t, b, p) == {s \in Segment : <<b, p, s>> \in Range(t.segments)}

Row(t, b, p) ==
  [segments |-> Held(t, b, p), traffic |-> TrafficOf(t, <<b, p>>),
   quality |-> t.peers[<<b, p>>].quality, seen |-> t.peers[<<b, p>>].seen]

LEMMA SoundEmpty == Sound(NoRows)
<1>1. IsFiniteSet({}) /\ DOMAIN Empty = {} /\ Empty = [k \in DOMAIN Empty |-> Empty[k]]
  BY FS_EmptySet DEF Empty
<1>2. <<>> \in Seq(Rows) /\ IsInjective(<<>>) /\ Range(<<>>) = {}
  BY DEF IsInjective, Range
<1>3. Empty \in [DOMAIN Empty -> Nat]
  BY <1>1
<1> HIDE DEF Empty
<1> QED
  BY <1>1, <1>2, <1>3 DEF Sound, NoRows

\* Less and Those of the rows.
LEMMA LessKept ==
  ASSUME NEW X, NEW s \in Seq(X), NEW T
  PROVE  /\ Less(s, T) \in Seq(X) /\ Range(Less(s, T)) = Range(s) \ T
         /\ IsInjective(s) => IsInjective(Less(s, T))
<1> DEFINE U == Range(s) \ T
<1>1. Sifted(s, U, Len(s), Those(s, U))
  BY ThoseKept
<1>2. DOMAIN s = 1..Len(s) /\ Range(s) = {s[i] : i \in 1..Len(s)} /\ U \subseteq X /\ Range(s) \cap U = U
  BY DEF Range
<1>3. Those(s, U) \in Seq(U)
  BY <1>1 DEF Sifted
<1>4. Those(s, U) \in Seq(X)
  <2> HIDE DEF U
  <2> QED
    BY <1>2, <1>3
<1> QED
  BY <1>1, <1>2, <1>4 DEF Sifted, Less

LEMMA SegmentsHeld ==
  ASSUME NEW t, Sound(t), NEW b \in Broadcast, NEW p \in Peer
  PROVE  /\ SegmentsOf(t, b, p) \in Seq(Segment)
         /\ Range(SegmentsOf(t, b, p)) = Held(t, b, p)
         /\ IsInjective(SegmentsOf(t, b, p))
<1> DEFINE Own == {b} \X {p} \X Segment
           rows == Those(t.segments, Own)
           segs == [i \in DOMAIN rows |-> rows[i][3]]
<1>1. Sifted(t.segments, Own, Len(t.segments), rows)
  BY ThoseKept DEF Sound
<1>2. DOMAIN t.segments = 1..Len(t.segments)
  BY DEF Sound
<1>3. rows \in Seq(Own) /\ Range(rows) = Range(t.segments) \cap Own /\ IsInjective(rows)
  BY <1>1, <1>2 DEF Sifted, Sound, Range
<1> HIDE DEF rows
<1>4. DOMAIN rows = 1..Len(rows) /\ Len(rows) \in Nat /\ \A i \in DOMAIN rows : rows[i] \in Own
  BY <1>3
<1>5. \A i \in DOMAIN rows : rows[i] = <<b, p, rows[i][3]>> /\ rows[i][3] \in Segment
  BY <1>4
<1>6. segs \in [1..Len(rows) -> Segment]
  BY <1>4, <1>5
<1>7. segs \in Seq(Segment)
  BY <1>4, <1>6
<1>8. Range(segs) = Held(t, b, p)
  <2>1. ASSUME NEW s \in Range(segs) PROVE s \in Held(t, b, p)
    <3>1. PICK i \in DOMAIN rows : s = rows[i][3]
      BY <2>1 DEF Range
    <3>2. rows[i] \in Range(t.segments)
      BY <1>3 DEF Range
    <3> QED
      BY <1>5, <3>1, <3>2 DEF Held
  <2>2. ASSUME NEW s \in Held(t, b, p) PROVE s \in Range(segs)
    <3>1. <<b, p, s>> \in Range(rows)
      BY <1>3 DEF Held
    <3>2. PICK i \in DOMAIN rows : rows[i] = <<b, p, s>>
      BY <3>1 DEF Range
    <3>3. segs[i] = s /\ i \in DOMAIN segs
      BY <3>2
    <3> QED
      BY <3>3 DEF Range
  <2> QED
    BY <2>1, <2>2
<1>9. IsInjective(segs)
  <2> SUFFICES ASSUME NEW i \in DOMAIN rows, NEW j \in DOMAIN rows, rows[i][3] = rows[j][3] PROVE i = j
    BY DEF IsInjective
  <2>1. rows[i] = rows[j]
    BY <1>5
  <2> QED
    BY <1>3, <2>1 DEF IsInjective
<1> QED
  BY <1>7, <1>8, <1>9 DEF SegmentsOf, rows

LEMMA ViewOf ==
  ASSUME NEW t, Sound(t)
  PROVE  View(t) = [b \in t.broadcasts |->
                      [peers |-> [p \in PeersOf(t, b) |-> Row(t, b, p)], retired |-> RetiredOf(t, b)]]
<1>1. ASSUME NEW b \in t.broadcasts, NEW p \in PeersOf(t, b)
      PROVE  Range(SegmentsOf(t, b, p)) = Held(t, b, p)
  BY <1>1, SegmentsHeld DEF Sound, PeersOf
<1> QED
  BY <1>1 DEF View, Row

-----------------------------------------------------------------------------
(* What a call amounts to.                                                  *)

Listed(t, b) == [peers |-> [p \in PeersOf(t, b) |-> Row(t, b, p)], retired |-> RetiredOf(t, b)]

\* Calls that concern one broadcast.
LEMMA OneChanges ==
  ASSUME NEW t, Sound(t), NEW u, Sound(u), u.broadcasts = t.broadcasts, NEW b \in t.broadcasts,
         \A c \in t.broadcasts : c # b => Listed(u, c) = Listed(t, c)
  PROVE  View(u) = [View(t) EXCEPT ![b] = Listed(u, b)]
<1>1. View(t) = [c \in t.broadcasts |-> Listed(t, c)] /\ View(u) = [c \in u.broadcasts |-> Listed(u, c)]
  BY ViewOf DEF Listed
<1> QED
  BY <1>1

\* Calls that concern one peer.
OnlyRow(t, u, b, p) ==
  /\ Sound(u) /\ u.broadcasts = t.broadcasts /\ DOMAIN u.peers = DOMAIN t.peers
  /\ u.retired = t.retired
  /\ \A c \in t.broadcasts : \A r \in PeersOf(t, c) :
       <<c, r>> # <<b, p>> => Row(u, c, r) = Row(t, c, r)

LEMMA OnlyRowGoesOn ==
  ASSUME NEW t, NEW u, NEW v, NEW b, NEW p, OnlyRow(t, u, b, p), OnlyRow(u, v, b, p)
  PROVE  OnlyRow(t, v, b, p)
<1>1. \A c : PeersOf(u, c) = PeersOf(t, c)
  BY DEF OnlyRow, PeersOf
<1> QED
  BY <1>1 DEF OnlyRow

LEMMA OneRowChanges ==
  ASSUME NEW t, Sound(t), NEW u, NEW b, NEW p, <<b, p>> \in DOMAIN t.peers, OnlyRow(t, u, b, p)
  PROVE  /\ b \in t.broadcasts /\ p \in PeersOf(t, b) /\ p \in Peer /\ b \in Broadcast
         /\ b \in DOMAIN View(t) /\ p \in DOMAIN View(t)[b].peers
         /\ View(t)[b].peers[p] = Row(t, b, p)
         /\ View(u) = [View(t) EXCEPT ![b].peers[p] = Row(u, b, p)]
<1>0. /\ Sound(u) /\ u.broadcasts = t.broadcasts /\ DOMAIN u.peers = DOMAIN t.peers
      /\ u.retired = t.retired
      /\ \A c \in t.broadcasts : \A r \in PeersOf(t, c) :
           <<c, r>> # <<b, p>> => Row(u, c, r) = Row(t, c, r)
  BY DEF OnlyRow
<1>1. b \in t.broadcasts /\ p \in Peer /\ b \in Broadcast
  BY DEF Sound
<1>2. p \in PeersOf(t, b)
  BY <1>1 DEF PeersOf
<1>3. \A c \in t.broadcasts : PeersOf(u, c) = PeersOf(t, c) /\ RetiredOf(u, c) = RetiredOf(t, c)
  BY <1>0 DEF PeersOf, RetiredOf
<1>4. \A c \in t.broadcasts : c # b => Listed(u, c) = Listed(t, c)
  <2> SUFFICES ASSUME NEW c \in t.broadcasts, c # b PROVE Listed(u, c) = Listed(t, c)
    OBVIOUS
  <2>1. \A r \in PeersOf(t, c) : Row(u, c, r) = Row(t, c, r)
    BY <1>0
  <2> QED
    BY <1>3, <2>1 DEF Listed
<1>5. View(u) = [View(t) EXCEPT ![b] = Listed(u, b)]
  BY <1>0, <1>1, <1>4, OneChanges
<1>6. b \in DOMAIN View(t) /\ View(t)[b] = Listed(t, b)
  BY <1>1, ViewOf DEF Listed
<1>7. View(t)[b].peers[p] = Row(t, b, p) /\ p \in DOMAIN View(t)[b].peers
  BY <1>2, <1>6 DEF Listed
<1>8. Listed(u, b) = [Listed(t, b) EXCEPT !.peers[p] = Row(u, b, p)]
  <2>1. \A r \in PeersOf(t, b) : r # p => Row(u, b, r) = Row(t, b, r)
    BY <1>0, <1>1
  <2>2. [r \in PeersOf(u, b) |-> Row(u, b, r)] = [[r \in PeersOf(t, b) |-> Row(t, b, r)] EXCEPT ![p] = Row(u, b, p)]
    BY <1>1, <1>2, <1>3, <2>1
  <2> QED
    <3> DEFINE old == [r \in PeersOf(t, b) |-> Row(t, b, r)]
               new == [r \in PeersOf(u, b) |-> Row(u, b, r)]
    <3>1. Listed(t, b) = [peers |-> old, retired |-> RetiredOf(t, b)] /\ Listed(u, b) = [peers |-> new, retired |-> RetiredOf(t, b)]
      BY <1>1, <1>3 DEF Listed
    <3>2. new = [old EXCEPT ![p] = Row(u, b, p)]
      BY <2>2
    <3> HIDE DEF old, new
    <3> QED
      BY <3>1, <3>2
<1>9. View(u) = [View(t) EXCEPT ![b].peers[p] = Row(u, b, p)]
  BY <1>5, <1>6, <1>8
<1> QED
  BY <1>1, <1>2, <1>6, <1>7, <1>9

\* The same tables as a record, to be updated field by field.
LEMMA Fields ==
  ASSUME NEW t, Sound(t), NEW x
  PROVE  /\ [t EXCEPT !.broadcasts = x] = [broadcasts |-> x, peers |-> t.peers, segments |-> t.segments,
                                           stats |-> t.stats, retired |-> t.retired]
         /\ [t EXCEPT !.peers = x] = [broadcasts |-> t.broadcasts, peers |-> x, segments |-> t.segments,
                                      stats |-> t.stats, retired |-> t.retired]
         /\ [t EXCEPT !.segments = x] = [broadcasts |-> t.broadcasts, peers |-> t.peers, segments |-> x,
                                         stats |-> t.stats, retired |-> t.retired]
         /\ [t EXCEPT !.stats = x] = [broadcasts |-> t.broadcasts, peers |-> t.peers, segments |-> t.segments,
                                      stats |-> x, retired |-> t.retired]
         /\ [t EXCEPT !.retired = x] = [broadcasts |-> t.broadcasts, peers |-> t.peers, segments |-> t.segments,
                                        stats |-> t.stats, retired |-> x]
<1>1. t = [broadcasts |-> t.broadcasts, peers |-> t.peers, segments |-> t.segments,
           stats |-> t.stats, retired |-> t.retired]
  BY DEF Sound
<1> QED
  BY <1>1

\* A row of the table of peers is rewritten.
LEMMA PeerChanges ==
  ASSUME NEW t, Sound(t), NEW b, NEW p, <<b, p>> \in DOMAIN t.peers, NEW q, NEW seen,
         NEW u
  PROVE  u = [t EXCEPT !.peers[<<b, p>>] = [quality |-> q, seen |-> seen]] =>
         /\ OnlyRow(t, u, b, p)
         /\ Row(u, b, p) = [segments |-> Held(t, b, p), traffic |-> TrafficOf(t, <<b, p>>),
                            quality |-> q, seen |-> seen]
<1> DEFINE k == <<b, p>>
           row == [quality |-> q, seen |-> seen]
<1>0. HAVE u = [t EXCEPT !.peers[k] = row]
<1>1. u = [broadcasts |-> t.broadcasts, peers |-> [t.peers EXCEPT ![k] = row], segments |-> t.segments,
           stats |-> t.stats, retired |-> t.retired]
  <2>1. t = [broadcasts |-> t.broadcasts, peers |-> t.peers, segments |-> t.segments,
             stats |-> t.stats, retired |-> t.retired]
    BY DEF Sound
  <2> QED
    BY <1>0, <2>1
<1>2. /\ DOMAIN u.peers = DOMAIN t.peers /\ u.peers[k] = row
      /\ \A x \in DOMAIN t.peers : x # k => u.peers[x] = t.peers[x]
      /\ u.peers = [x \in DOMAIN u.peers |-> u.peers[x]]
  BY <1>1
<1>3. Sound(u)
  BY <1>1, <1>2 DEF Sound
<1>4. \A c, r : Held(u, c, r) = Held(t, c, r) /\ TrafficOf(u, <<c, r>>) = TrafficOf(t, <<c, r>>)
  BY <1>1 DEF TrafficOf, Held
<1>5. ASSUME NEW c \in t.broadcasts, NEW r \in PeersOf(t, c), <<c, r>> # k PROVE Row(u, c, r) = Row(t, c, r)
  BY <1>2, <1>4, <1>5 DEF PeersOf, Row
<1>6. Row(u, b, p) = [segments |-> Held(t, b, p), traffic |-> TrafficOf(t, <<b, p>>), quality |-> q, seen |-> seen]
  <2>1. u.peers[<<b, p>>].quality = q /\ u.peers[<<b, p>>].seen = seen
    BY <1>2
  <2>2. Held(u, b, p) = Held(t, b, p) /\ TrafficOf(u, <<b, p>>) = TrafficOf(t, <<b, p>>)
    BY <1>4
  <2> QED
    BY <2>1, <2>2 DEF Row
<1>7. u.broadcasts = t.broadcasts /\ u.retired = t.retired
  BY <1>1
<1>8. OnlyRow(t, u, b, p)
  BY <1>2, <1>3, <1>5, <1>7 DEF OnlyRow
<1> QED
  BY <1>6, <1>8

\* A row of the table of traffic is written.
LEMMA StatsChange ==
  ASSUME NEW t, Sound(t), NEW b, NEW p, <<b, p>> \in DOMAIN t.peers, NEW n \in Nat,
         NEW u
  PROVE  u = [t EXCEPT !.stats = Store!Put(t.stats, <<b, p>>, n)] =>
         /\ OnlyRow(t, u, b, p) /\ u.peers = t.peers
         /\ Row(u, b, p) = [segments |-> Held(t, b, p), traffic |-> n,
                            quality |-> t.peers[<<b, p>>].quality, seen |-> t.peers[<<b, p>>].seen]
<1> DEFINE k == <<b, p>>
           put == Store!Put(t.stats, k, n)
<1>0. HAVE u = [t EXCEPT !.stats = put]
<1>1. u = [broadcasts |-> t.broadcasts, peers |-> t.peers, segments |-> t.segments,
           stats |-> put, retired |-> t.retired]
  <2> HIDE DEF put
  <2> QED
    BY <1>0, Fields
<1>2. /\ DOMAIN put = DOMAIN t.stats \cup {k} /\ put[k] = n
      /\ \A x \in DOMAIN t.stats : x # k => put[x] = t.stats[x]
      /\ put \in [DOMAIN put -> Nat]
  BY DEF Store!Put, Sound
<1> HIDE DEF put
<1>3. Sound(u)
  <2>1. DOMAIN put \subseteq DOMAIN t.peers
    BY <1>2 DEF Sound
  <2> QED
    BY <1>1, <1>2, <2>1 DEF Sound
<1>4. /\ \A c, r : Held(u, c, r) = Held(t, c, r)
      /\ \A x : x # k => TrafficOf(u, x) = TrafficOf(t, x)
      /\ TrafficOf(u, k) = n
  <2>1. u.stats = put /\ u.segments = t.segments
    BY <1>1
  <2> HIDE DEF k
  <2> QED
    BY <1>2, <2>1 DEF TrafficOf, Held
<1>5. \A c \in t.broadcasts : \A r \in PeersOf(t, c) : <<c, r>> # k => Row(u, c, r) = Row(t, c, r)
  BY <1>1, <1>4 DEF Row
<1>6. Row(u, b, p) = [segments |-> Held(t, b, p), traffic |-> n,
                      quality |-> t.peers[<<b, p>>].quality, seen |-> t.peers[<<b, p>>].seen]
  BY <1>1, <1>4 DEF Row
<1>7. u.broadcasts = t.broadcasts /\ u.retired = t.retired /\ u.peers = t.peers
  BY <1>1
<1>8. OnlyRow(t, u, b, p)
  BY <1>3, <1>5, <1>7 DEF OnlyRow
<1> QED
  BY <1>6, <1>7, <1>8

-----------------------------------------------------------------------------
(* The operations of TrackerStore, from what its callers saw to what they   *)
(* see.                                                                     *)

Known(d, b, p) == b \in Broadcast /\ p \in Peer /\ b \in DOMAIN d /\ p \in DOMAIN d[b].peers
Yes == TRUE    \* as a value
Seen(row) == [row EXCEPT !.seen = Yes]
Holding(row, s) == Seen([row EXCEPT !.segments = s])
Counting(row, n) == Seen([row EXCEPT !.traffic = n])
Rating(row, q) == Seen([row EXCEPT !.quality = q])
Rewrites(d, e, b, p, row) == Known(d, b, p) /\ e = [d EXCEPT ![b].peers[p] = row]

Registers(d, e) ==
  \E b \in Broadcast : b \notin DOMAIN d /\ e = Store!Put(d, b, Store!NewBroadcast)
Unregisters(d, e) ==
  \E b \in Broadcast : b \in DOMAIN d /\ e = Store!Drop(d, {b})
Returns(d, e) ==
  \E b, p : Rewrites(d, e, b, p, Seen(d[b].peers[p]))
Admitting(listed, p) == [listed EXCEPT !.peers = Store!Put(listed.peers, p, Store!NewPeer)]
Joins(d, e) ==
  \E b \in Broadcast, p \in Peer :
    /\ b \in DOMAIN d /\ p \notin DOMAIN d[b].peers /\ Cardinality(DOMAIN d[b].peers) < MaxPeers
    /\ e = [d EXCEPT ![b] = Admitting(d[b], p)]
Leaves(d, e) ==
  \E b, p : Known(d, b, p) /\ e = [d EXCEPT ![b] = Store!Retired(d[b], {p})]
Inventories(d, e) ==
  \E b, p : \E kept \in SUBSET Segment :
    /\ Store!InventoryFits(kept) /\ d[b].peers[p].segments \subseteq Segment
    /\ Rewrites(d, e, b, p, Holding(d[b].peers[p], kept))
Beats(d, e) ==
  \E b, p : \E q \in Quality :
    Rewrites(d, e, b, p, Rating(d[b].peers[p], q))
Counts(d, e) ==
  \E b, p : \E n \in Traffic :
    Rewrites(d, e, b, p, Counting(d[b].peers[p], n))
Penalizes(d, e) ==
  \E b, p : \E q \in Quality :
    q < d[b].peers[p].quality /\ Rewrites(d, e, b, p, [d[b].peers[p] EXCEPT !.quality = q])
Sweeps(d, e) ==
  e = [b \in DOMAIN d |-> Store!Retired(d[b], Store!Stale(d[b]))]

Outcome(d, e) ==
  \/ e = d
  \/ Registers(d, e) \/ Unregisters(d, e) \/ Returns(d, e) \/ Joins(d, e) \/ Leaves(d, e)
  \/ Inventories(d, e) \/ Beats(d, e) \/ Counts(d, e) \/ Penalizes(d, e) \/ Sweeps(d, e)

\* A set has one cardinality, under whatever name.
LEMMA SameCardinality == \A S : A!Cardinality(S) = Cardinality(S) /\ Store!Cardinality(S) = Cardinality(S)
BY Zenon DEF A!Cardinality, Store!Cardinality, Cardinality

\* The limits of an inventory are the same everywhere, and allow an empty one.
LEMMA SameInventory == \A S : A!InventoryFits(S) = Store!InventoryFits(S)
BY SameCardinality, Zenon DEF A!InventoryFits, Store!InventoryFits


\* The callers see the outcome of an operation; the tables on disk may follow.
LEMMA OutcomeIsStep ==
  ASSUME Outcome(View(before), View(before')), View(disk') \in {View(disk), View(before')}
  PROVE  [A!StoreNext]_(A!storeVars)
<1> DEFINE d == View(before)
           e == View(before)'
           f == View(disk)
           g == View(disk)'
<1>0. Outcome(d, e) /\ g \in {f, e}
  OBVIOUS
<1>00. \A x, S : A!Retired(x, S) = Store!Retired(x, S)
  <2>1. \A x, S : A!Carried(x, S) = Store!Carried(x, S)
    BY SameCardinality, Zenon DEF A!Carried, Store!Carried
  <2>2. \A x, S : A!Drop(x, S) = Store!Drop(x, S)
    BY Zenon DEF A!Drop, Store!Drop
  <2> QED
    BY <2>1, <2>2 DEF A!Retired, Store!Retired
<1>1. CASE e = d
  <2>1. CASE g = f
    BY <1>1, <2>1 DEF A!storeVars
  <2>2. CASE g = e
    BY <1>1, <2>2 DEF A!StoreNext, A!Persist
  <2> QED
    BY <1>0, <2>1, <2>2
<1>2. CASE Registers(d, e)
  <2>1. PICK b \in Broadcast : b \notin DOMAIN d /\ e = Store!Put(d, b, Store!NewBroadcast)
    BY <1>2 DEF Registers
  <2>2. A!RegisterBroadcast(b)
    BY <1>0, <2>1 DEF A!RegisterBroadcast, A!Becomes, A!Put, A!NewBroadcast, Store!Put, Store!NewBroadcast
  <2> QED
    BY <2>2 DEF A!StoreNext
<1>3. CASE Unregisters(d, e)
  <2>1. PICK b \in Broadcast : b \in DOMAIN d /\ e = Store!Drop(d, {b})
    BY <1>3 DEF Unregisters
  <2>2. A!UnregisterBroadcast(b)
    BY <1>0, <2>1 DEF A!UnregisterBroadcast, A!Becomes, A!Drop, Store!Drop
  <2> QED
    BY <2>2 DEF A!StoreNext
<1>4. CASE Returns(d, e)
  <2>1. PICK b, p : Rewrites(d, e, b, p, Seen(d[b].peers[p]))
    BY <1>4 DEF Returns
  <2>2. A!JoinPeer(b, p) /\ b \in Broadcast /\ p \in Peer
    BY <1>0, <2>1 DEF A!JoinPeer, A!Becomes, A!Member, A!Rewritten, Holding, Counting, Rating, Seen, Yes, Rewrites, Known
  <2> QED
    BY <2>2 DEF A!StoreNext
<1>5. CASE Joins(d, e)
  <2>1. PICK b \in Broadcast, p \in Peer :
          /\ b \in DOMAIN d /\ p \notin DOMAIN d[b].peers /\ Cardinality(DOMAIN d[b].peers) < MaxPeers
          /\ e = [d EXCEPT ![b] = Admitting(d[b], p)]
    BY <1>5 DEF Joins
  <2>2. A!Put(d[b].peers, p, A!NewPeer) = Store!Put(d[b].peers, p, Store!NewPeer)
    BY DEF A!Put, A!NewPeer, Store!Put, Store!NewPeer, A!Max, Store!Max
  <2>3. A!JoinPeer(b, p)
    <3> DEFINE put == A!Put(d[b].peers, p, A!NewPeer)
    <3>1. e = [d EXCEPT ![b].peers = put]
      BY <2>1, <2>2 DEF Admitting
    <3>2. A!Becomes([d EXCEPT ![b].peers = put])
      BY <1>0, <3>1 DEF A!Becomes
    <3>3. A!Becomes([d EXCEPT ![b].peers = A!Put(@, p, A!NewPeer)])
      BY <3>2
    <3> HIDE DEF put
    <3> QED
      BY <2>1, <3>3, SameCardinality DEF A!JoinPeer, A!Member
  <2> QED
    BY <2>3 DEF A!StoreNext
<1>6. CASE Leaves(d, e)
  <2>1. PICK b, p : Known(d, b, p) /\ e = [d EXCEPT ![b] = Store!Retired(d[b], {p})]
    BY <1>6 DEF Leaves
  <2>2. A!LeavePeer(b, p) /\ b \in Broadcast /\ p \in Peer
    BY <1>00, <1>0, <2>1 DEF A!LeavePeer, A!Becomes, A!Member, Known
  <2> QED
    BY <2>2 DEF A!StoreNext
<1>7. CASE Inventories(d, e)
  <2>1. PICK b, p : \E kept \in SUBSET Segment :
          /\ Store!InventoryFits(kept) /\ d[b].peers[p].segments \subseteq Segment
          /\ Rewrites(d, e, b, p, Holding(d[b].peers[p], kept))
    BY <1>7 DEF Inventories
  <2>2. PICK kept \in SUBSET Segment :
          /\ Store!InventoryFits(kept) /\ d[b].peers[p].segments \subseteq Segment
          /\ Rewrites(d, e, b, p, Holding(d[b].peers[p], kept))
    BY <2>1
  <2>3. kept \in A!Limited(kept)
    BY <2>2, SameInventory DEF A!Limited
  <2>3b. A!Member(b, p) /\ A!Becomes(A!Rewritten(b, p, [d[b].peers[p] EXCEPT !.segments = kept]))
    BY <1>0, <2>2 DEF A!Becomes, A!Member, A!Rewritten, Holding, Counting, Rating, Seen, Yes, Rewrites, Known
  <2>4. A!ReportSegments(b, p) /\ b \in Broadcast /\ p \in Peer
    <3>2. b \in Broadcast /\ p \in Peer
      BY <1>0, <2>2 DEF Rewrites, Known
    <3> QED
      BY <2>2, <2>3, <2>3b, <3>2, Zenon DEF A!ReportSegments
  <2> QED
    BY <2>4 DEF A!StoreNext
<1>8. CASE Beats(d, e)
  <2>1. PICK b, p : \E q \in Quality :
          Rewrites(d, e, b, p, Rating(d[b].peers[p], q))
    BY <1>8 DEF Beats
  <2>2. A!Heartbeat(b, p) /\ b \in Broadcast /\ p \in Peer
    BY <1>0, <2>1 DEF A!Heartbeat, A!Becomes, A!Member, A!Rewritten, Holding, Counting, Rating, Seen, Yes, Rewrites, Known
  <2> QED
    BY <2>2 DEF A!StoreNext
<1>9. CASE Counts(d, e)
  <2>1. PICK b, p : \E n \in Traffic :
          Rewrites(d, e, b, p, Counting(d[b].peers[p], n))
    BY <1>9 DEF Counts
  <2>2. A!ReportStats(b, p) /\ b \in Broadcast /\ p \in Peer
    BY <1>0, <2>1 DEF A!ReportStats, A!Becomes, A!Member, A!Rewritten, Holding, Counting, Rating, Seen, Yes, Rewrites, Known
  <2> QED
    BY <2>2 DEF A!StoreNext
<1>10. CASE Penalizes(d, e)
  <2>1. PICK b, p : \E q \in Quality :
          q < d[b].peers[p].quality /\ Rewrites(d, e, b, p, [d[b].peers[p] EXCEPT !.quality = q])
    BY <1>10 DEF Penalizes
  <2>2. A!Penalize(b, p) /\ b \in Broadcast /\ p \in Peer
    BY <1>0, <2>1 DEF A!Penalize, A!Becomes, A!Member, Rewrites, Known
  <2> QED
    BY <2>2 DEF A!StoreNext
<1>11. CASE Sweeps(d, e)
  <2>1. A!RemoveStalePeers
    <3>1. \A x : A!Stale(x) = Store!Stale(x)
      BY DEF A!Stale, Store!Stale
    <3>2. e = [b \in DOMAIN d |-> A!Retired(d[b], A!Stale(d[b]))]
      BY <1>00, <1>11, <3>1 DEF Sweeps
    <3> QED
      BY <1>0, <3>2 DEF A!RemoveStalePeers, A!Becomes
  <2> QED
    BY <2>1 DEF A!StoreNext
<1> QED
  BY <1>0, <1>1, <1>2, <1>3, <1>4, <1>5, <1>6, <1>7, <1>8, <1>9, <1>10, <1>11 DEF Outcome

-----------------------------------------------------------------------------
(* What each call amounts to, when it runs to its end.                      *)

Accomplishes(t, s) ==
  /\ IsScript(s)
  /\ \E run : /\ Runs(run, t, s) /\ Sound(run[Len(s) + 1])
              /\ Outcome(View(t), View(run[Len(s) + 1]))

LEMMA OneStatement ==
  ASSUME NEW t, NEW x, Sound(Effect(t, x)), Outcome(View(t), View(Effect(t, x)))
  PROVE  Accomplishes(t, <<x>>)
<1>1. <<x>> \in Seq({x}) /\ Len(<<x>>) = 1
  OBVIOUS
<1>2. IsScript(<<x>>)
  BY <1>1 DEF IsScript
<1>3. PICK run : Runs(run, t, <<x>>)
  BY <1>2, RunExists
<1>4. run[2] = Effect(t, x)
  BY <1>1, <1>3 DEF Runs
<1> QED
  BY <1>1, <1>2, <1>3, <1>4 DEF Accomplishes

LEMMA TwoStatements ==
  ASSUME NEW t, NEW x, NEW y, Sound(Effect(Effect(t, x), y)),
         Outcome(View(t), View(Effect(Effect(t, x), y)))
  PROVE  Accomplishes(t, <<x, y>>)
<1>1. <<x, y>> \in Seq({x, y}) /\ Len(<<x, y>>) = 2 /\ 1..2 = {1, 2}
  OBVIOUS
<1>2. IsScript(<<x, y>>)
  BY <1>1 DEF IsScript
<1>3. PICK run : Runs(run, t, <<x, y>>)
  BY <1>2, RunExists
<1>4. run[1] = t /\ run[2] = Effect(run[1], x) /\ run[3] = Effect(run[2], y)
  BY <1>1, <1>3 DEF Runs
<1> QED
  BY <1>1, <1>2, <1>3, <1>4 DEF Accomplishes

\* A peer in the tables is a peer of the view.
LEMMA Viewed ==
  ASSUME NEW t, Sound(t), NEW b, NEW p, <<b, p>> \in DOMAIN t.peers
  PROVE  /\ b \in t.broadcasts /\ b \in Broadcast /\ p \in Peer /\ p \in PeersOf(t, b)
         /\ Known(View(t), b, p) /\ View(t)[b].peers[p] = Row(t, b, p)
         /\ View(t)[b] = Listed(t, b)
<1>1. b \in t.broadcasts /\ p \in Peer /\ b \in Broadcast
  BY DEF Sound
<1>2. p \in PeersOf(t, b)
  BY <1>1 DEF PeersOf
<1>3. b \in DOMAIN View(t) /\ View(t)[b] = Listed(t, b)
  BY <1>1, ViewOf DEF Listed
<1>4. View(t)[b].peers[p] = Row(t, b, p) /\ p \in DOMAIN View(t)[b].peers
  BY <1>2, <1>3 DEF Listed
<1> QED
  BY <1>1, <1>2, <1>3, <1>4 DEF Known

\* The rows of the view, to be updated field by field.
LEMMA SeenRow ==
  ASSUME NEW s, NEW n, NEW q, NEW e
  PROVE  Seen([segments |-> s, traffic |-> n, quality |-> q, seen |-> e]) =
           [segments |-> s, traffic |-> n, quality |-> q, seen |-> Yes]
BY DEF Seen

LEMMA RowFields ==
  ASSUME NEW t, NEW b, NEW p, NEW x
  PROVE  /\ Holding(Row(t, b, p), x) =
              [segments |-> x, traffic |-> TrafficOf(t, <<b, p>>),
               quality |-> t.peers[<<b, p>>].quality, seen |-> Yes]
         /\ Counting(Row(t, b, p), x) =
              [segments |-> Held(t, b, p), traffic |-> x,
               quality |-> t.peers[<<b, p>>].quality, seen |-> Yes]
         /\ Rating(Row(t, b, p), x) =
              [segments |-> Held(t, b, p), traffic |-> TrafficOf(t, <<b, p>>),
               quality |-> x, seen |-> Yes]
<1> DEFINE row == Row(t, b, p)
           s == Held(t, b, p)
           n == TrafficOf(t, <<b, p>>)
           q == t.peers[<<b, p>>].quality
           e == t.peers[<<b, p>>].seen
<1>1. row = [segments |-> s, traffic |-> n, quality |-> q, seen |-> e]
  BY DEF Row
<1> HIDE DEF row, s, n, q, e
<1>2. [row EXCEPT !.segments = x] = [segments |-> x, traffic |-> n, quality |-> q, seen |-> e]
  BY <1>1
<1>3. [row EXCEPT !.traffic = x] = [segments |-> s, traffic |-> x, quality |-> q, seen |-> e]
  BY <1>1
<1>4. [row EXCEPT !.quality = x] = [segments |-> s, traffic |-> n, quality |-> x, seen |-> e]
  BY <1>1
<1> QED
  BY <1>2, <1>3, <1>4, SeenRow DEF Holding, Counting, Rating, row, s, n, q, e

\* A call that rewrites the row of a peer.
LEMMA RowRewritten ==
  ASSUME NEW t, Sound(t), NEW b, NEW p, <<b, p>> \in DOMAIN t.peers, NEW u, OnlyRow(t, u, b, p)
  PROVE  /\ Sound(u) /\ View(t)[b].peers[p] = Row(t, b, p)
         /\ Rewrites(View(t), View(u), b, p, Row(u, b, p))
<1>1. View(u) = [View(t) EXCEPT ![b].peers[p] = Row(u, b, p)]
  BY OneRowChanges
<1> QED
  BY <1>1, Viewed DEF Rewrites, OnlyRow

LEMMA HeartbeatDone ==
  ASSUME NEW t, Sound(t), NEW b, NEW p, <<b, p>> \in DOMAIN t.peers, NEW q \in Quality
  PROVE  Accomplishes(t, <<Stmt("updatePeerHealth", <<b, p>>, q)>>)
<1> DEFINE u == Effect(t, Stmt("updatePeerHealth", <<b, p>>, q))
<1>1. u = [t EXCEPT !.peers[<<b, p>>] = [quality |-> q, seen |-> Yes]]
  BY Effects DEF Yes
<1> HIDE DEF u
<1>2. /\ OnlyRow(t, u, b, p)
      /\ Row(u, b, p) = [segments |-> Held(t, b, p), traffic |-> TrafficOf(t, <<b, p>>),
                         quality |-> q, seen |-> Yes]
  BY <1>1, PeerChanges
<1>3. Row(u, b, p) = Rating(Row(t, b, p), q)
  BY <1>2, RowFields
<1>4. /\ Sound(u) /\ View(t)[b].peers[p] = Row(t, b, p)
      /\ Rewrites(View(t), View(u), b, p, Row(u, b, p))
  BY <1>2, RowRewritten
<1>5. Beats(View(t), View(u))
  BY <1>3, <1>4 DEF Beats
<1> QED
  BY <1>4, <1>5, OneStatement DEF Outcome, u

LEMMA PenaltyDone ==
  ASSUME NEW t, Sound(t), NEW b, NEW p, <<b, p>> \in DOMAIN t.peers,
         NEW q \in Quality, q < t.peers[<<b, p>>].quality
  PROVE  Accomplishes(t, <<Stmt("updatePeerTrust", <<b, p>>, q)>>)
<1> DEFINE u == Effect(t, Stmt("updatePeerTrust", <<b, p>>, q))
           seen == t.peers[<<b, p>>].seen
<1>1. u = [t EXCEPT !.peers[<<b, p>>] = [quality |-> q, seen |-> seen]]
  <2>1. t.peers[<<b, p>>] = [quality |-> t.peers[<<b, p>>].quality, seen |-> seen]
    BY DEF Sound
  <2>2. [t.peers[<<b, p>>] EXCEPT !.quality = q] = [quality |-> q, seen |-> seen]
    BY <2>1
  <2>3. u = [t EXCEPT !.peers[<<b, p>>] = [t.peers[<<b, p>>] EXCEPT !.quality = q]]
    BY Effects
  <2> QED
    BY <2>2, <2>3
<1>2. /\ OnlyRow(t, u, b, p)
      /\ Row(u, b, p) = [segments |-> Held(t, b, p), traffic |-> TrafficOf(t, <<b, p>>),
                         quality |-> q, seen |-> seen]
  BY <1>1, PeerChanges
<1> HIDE DEF u
<1>3. Row(u, b, p) = [Row(t, b, p) EXCEPT !.quality = q]
  BY <1>2 DEF Row
<1>4. /\ Sound(u) /\ View(t)[b].peers[p] = Row(t, b, p)
      /\ Rewrites(View(t), View(u), b, p, Row(u, b, p))
  BY <1>2, RowRewritten
<1>5. Penalizes(View(t), View(u))
  <2>1. q < View(t)[b].peers[p].quality
    BY <1>4 DEF Row
  <2>2. Rewrites(View(t), View(u), b, p, [View(t)[b].peers[p] EXCEPT !.quality = q])
    BY <1>3, <1>4
  <2> QED
    BY <2>1, <2>2, Zenon DEF Penalizes
<1> QED
  BY <1>4, <1>5, OneStatement DEF Outcome, u

\* updatePeerLastSeen is a rewritten row, too.
LEMMA LastSeen ==
  ASSUME NEW t, Sound(t), NEW b, NEW p, <<b, p>> \in DOMAIN t.peers
  PROVE  LET u == Effect(t, Stmt("updatePeerLastSeen", <<b, p>>, 0))
         IN  OnlyRow(t, u, b, p) /\ Row(u, b, p) = Seen(Row(t, b, p))
<1> DEFINE u == Effect(t, Stmt("updatePeerLastSeen", <<b, p>>, 0))
           q == t.peers[<<b, p>>].quality
<1>1. u = [t EXCEPT !.peers[<<b, p>>] = [quality |-> q, seen |-> Yes]]
  <2>1. t.peers[<<b, p>>] = [quality |-> q, seen |-> t.peers[<<b, p>>].seen]
    BY DEF Sound
  <2>2. [t.peers[<<b, p>>] EXCEPT !.seen = Yes] = [quality |-> q, seen |-> Yes]
    BY <2>1
  <2>3. u = [t EXCEPT !.peers[<<b, p>>] = [t.peers[<<b, p>>] EXCEPT !.seen = Yes]]
    BY Effects DEF Yes
  <2> HIDE DEF u
  <2> QED
    BY <2>2, <2>3
<1> HIDE DEF u
<1>2. /\ OnlyRow(t, u, b, p)
      /\ Row(u, b, p) = [segments |-> Held(t, b, p), traffic |-> TrafficOf(t, <<b, p>>),
                         quality |-> q, seen |-> Yes]
  BY <1>1, PeerChanges
<1>3. Row(u, b, p) = Seen(Row(t, b, p))
  BY <1>2 DEF Row, Seen
<1> QED
  BY <1>2, <1>3 DEF u

LEMMA StatsDone ==
  ASSUME NEW t, Sound(t), NEW b, NEW p, <<b, p>> \in DOMAIN t.peers, NEW n \in Traffic, n \in Nat
  PROVE  Accomplishes(t, <<Stmt("replacePeerStats", <<b, p>>, n),
                           Stmt("updatePeerLastSeen", <<b, p>>, 0)>>)
<1> DEFINE u == Effect(t, Stmt("replacePeerStats", <<b, p>>, n))
           v == Effect(u, Stmt("updatePeerLastSeen", <<b, p>>, 0))
<1>1. u = [t EXCEPT !.stats = Store!Put(t.stats, <<b, p>>, n)]
  BY Effects
<1> HIDE DEF u
<1>2. /\ OnlyRow(t, u, b, p)
      /\ Row(u, b, p) = [segments |-> Held(t, b, p), traffic |-> n,
                         quality |-> t.peers[<<b, p>>].quality, seen |-> t.peers[<<b, p>>].seen]
  BY <1>1, StatsChange
<1>3. Sound(u) /\ <<b, p>> \in DOMAIN u.peers
  BY <1>2 DEF OnlyRow
<1>4. OnlyRow(u, v, b, p) /\ Row(v, b, p) = Seen(Row(u, b, p))
  BY <1>3, LastSeen
<1> HIDE DEF v
<1>5. Row(v, b, p) = Counting(Row(t, b, p), n)
  BY <1>2, <1>4, SeenRow, RowFields
<1>6. OnlyRow(t, v, b, p)
  BY <1>2, <1>4, OnlyRowGoesOn
<1>7. /\ Sound(v) /\ View(t)[b].peers[p] = Row(t, b, p)
      /\ Rewrites(View(t), View(v), b, p, Row(v, b, p))
  BY <1>6, RowRewritten
<1>8. Counts(View(t), View(v))
  BY <1>5, <1>7 DEF Counts
<1> QED
  BY <1>7, <1>8, TwoStatements DEF Outcome, v, u

LEMMA RegisterDone ==
  ASSUME NEW t, Sound(t), NEW b \in Broadcast, b \notin t.broadcasts
  PROVE  Accomplishes(t, <<Stmt("insertBroadcast", <<b>>, 0)>>)
<1> DEFINE u == Effect(t, Stmt("insertBroadcast", <<b>>, 0))
           more == t.broadcasts \cup {b}
<1>1. u = [broadcasts |-> more, peers |-> t.peers, segments |-> t.segments,
           stats |-> t.stats, retired |-> t.retired]
  <2>0. <<b>>[1] = b
    OBVIOUS
  <2>1. u = [t EXCEPT !.broadcasts = t.broadcasts \cup {<<b>>[1]}]
    BY DEF Effect, Stmt
  <2>2. u = [t EXCEPT !.broadcasts = more]
    BY <2>0, <2>1
  <2> HIDE DEF u, more
  <2> QED
    BY <2>2, Fields
<1> HIDE DEF u
<1>2. Sound(u)
  <2>1. DOMAIN t.peers \subseteq more \X Peer
    BY DEF Sound
  <2> QED
    BY <1>1, <2>1 DEF Sound
<1>3. \A c, r : Row(u, c, r) = Row(t, c, r)
  BY <1>1 DEF Row, Held, TrafficOf
<1>4. \A c : PeersOf(u, c) = PeersOf(t, c) /\ RetiredOf(u, c) = RetiredOf(t, c)
  BY <1>1 DEF PeersOf, RetiredOf
<1>5. \A c : Listed(u, c) = Listed(t, c)
  BY <1>3, <1>4 DEF Listed
<1>6. Listed(u, b) = Store!NewBroadcast
  <2>1. PeersOf(t, b) = {} /\ RetiredOf(t, b) = 0
    BY DEF Sound, PeersOf, RetiredOf
  <2>2. Listed(t, b) = [peers |-> [p \in {} |-> {}], retired |-> 0]
    BY <2>1 DEF Listed
  <2> QED
    BY <1>5, <2>2 DEF Store!NewBroadcast
<1>7. /\ View(t) = [c \in t.broadcasts |-> Listed(t, c)]
      /\ View(u) = [c \in more |-> Listed(u, c)]
  <2>1. u.broadcasts = more
    BY <1>1
  <2> HIDE DEF more
  <2> QED
    BY <1>2, <2>1, ViewOf DEF Listed
<1>8. View(u) = Store!Put(View(t), b, Store!NewBroadcast)
  BY <1>5, <1>6, <1>7 DEF Store!Put
<1>9. Registers(View(t), View(u))
  BY <1>7, <1>8 DEF Registers
<1> QED
  BY <1>2, <1>9, OneStatement DEF Outcome, u

\* insertEmptyPeerStats leaves what is there.
LEMMA EmptyStats ==
  ASSUME NEW t, Sound(t), NEW b, NEW p, <<b, p>> \in DOMAIN t.peers
  PROVE  LET u == Effect(t, Stmt("insertEmptyPeerStats", <<b, p>>, 0))
         IN  OnlyRow(t, u, b, p) /\ Row(u, b, p) = Row(t, b, p)
<1> DEFINE u == Effect(t, Stmt("insertEmptyPeerStats", <<b, p>>, 0))
<1>1. CASE <<b, p>> \in DOMAIN t.stats
  <2>1. u = [t EXCEPT !.stats = t.stats]
    BY <1>1, Effects
  <2>2. u = t
    <3> HIDE DEF u
    <3> QED
      BY <2>1, Fields DEF Sound
  <2> QED
    BY <2>2 DEF OnlyRow
<1>2. CASE <<b, p>> \notin DOMAIN t.stats
  <2>1. u = [t EXCEPT !.stats = Store!Put(t.stats, <<b, p>>, 0)]
    BY <1>2, Effects
  <2> HIDE DEF u
  <2>2. /\ OnlyRow(t, u, b, p)
        /\ Row(u, b, p) = [segments |-> Held(t, b, p), traffic |-> 0,
                           quality |-> t.peers[<<b, p>>].quality, seen |-> t.peers[<<b, p>>].seen]
    BY <2>1, StatsChange
  <2>3. TrafficOf(t, <<b, p>>) = 0
    BY <1>2 DEF TrafficOf
  <2> QED
    BY <2>2, <2>3 DEF Row, u
<1> QED
  BY <1>1, <1>2

Joining(b, p) == <<Stmt("upsertPeer", <<b, p>>, 0), Stmt("insertEmptyPeerStats", <<b, p>>, 0)>>

LEMMA ReturnDone ==
  ASSUME NEW t, Sound(t), NEW b, NEW p, <<b, p>> \in DOMAIN t.peers
  PROVE  Accomplishes(t, Joining(b, p))
<1> DEFINE k == <<b, p>>
           q == t.peers[k].quality
           u == Effect(t, Stmt("upsertPeer", k, 0))
           v == Effect(u, Stmt("insertEmptyPeerStats", k, 0))
<1>1. u = [t EXCEPT !.peers[k] = [quality |-> q, seen |-> Yes]]
  <2> DEFINE put == Store!Put(t.peers, k, [quality |-> q, seen |-> Yes])
  <2>1. u = [t EXCEPT !.peers = Store!Put(t.peers, k,
               [quality |-> IF k \in DOMAIN t.peers THEN q ELSE Store!NewPeer.quality, seen |-> Yes])]
    BY Effects DEF Yes
  <2> HIDE DEF u, k
  <2>2. u = [t EXCEPT !.peers = put]
    BY <2>1 DEF k
  <2>3. put = [t.peers EXCEPT ![k] = [quality |-> q, seen |-> Yes]]
    BY DEF Store!Put, k
  <2> QED
    BY <2>2, <2>3
<1> HIDE DEF u, q
<1>2. /\ OnlyRow(t, u, b, p)
      /\ Row(u, b, p) = [segments |-> Held(t, b, p), traffic |-> TrafficOf(t, <<b, p>>),
                         quality |-> q, seen |-> Yes]
  BY <1>1, PeerChanges
<1>3. Sound(u) /\ <<b, p>> \in DOMAIN u.peers
  BY <1>2 DEF OnlyRow
<1>4. OnlyRow(u, v, b, p) /\ Row(v, b, p) = Row(u, b, p)
  BY <1>3, EmptyStats
<1> HIDE DEF v
<1>5. Row(v, b, p) = Seen(Row(t, b, p))
  BY <1>2, <1>4, SeenRow DEF Row, q
<1>6. OnlyRow(t, v, b, p)
  BY <1>2, <1>4, OnlyRowGoesOn
<1>7. /\ Sound(v) /\ View(t)[b].peers[p] = Row(t, b, p)
      /\ Rewrites(View(t), View(v), b, p, Row(v, b, p))
  BY <1>6, RowRewritten
<1>8. Returns(View(t), View(v))
  BY <1>5, <1>7 DEF Returns
<1> QED
  BY <1>7, <1>8, TwoStatements DEF Outcome, v, u, Joining

LEMMA JoinDone ==
  ASSUME NEW t, Sound(t), NEW b \in t.broadcasts, NEW p \in Peer, <<b, p>> \notin DOMAIN t.peers,
         Cardinality(PeersOf(t, b)) < MaxPeers
  PROVE  Accomplishes(t, Joining(b, p))
<1> DEFINE k == <<b, p>>
           q == Store!NewPeer.quality
           row == [quality |-> q, seen |-> Yes]
           peers == Store!Put(t.peers, k, row)
           stats == Store!Put(t.stats, k, 0)
           u == Effect(t, Stmt("upsertPeer", k, 0))
           v == Effect(u, Stmt("insertEmptyPeerStats", k, 0))
<1>1. u = [broadcasts |-> t.broadcasts, peers |-> peers, segments |-> t.segments,
           stats |-> t.stats, retired |-> t.retired]
  <2>1. u = [t EXCEPT !.peers = Store!Put(t.peers, k,
               [quality |-> IF k \in DOMAIN t.peers THEN t.peers[k].quality ELSE q, seen |-> Yes])]
    BY DEF Effect, Stmt, Yes
  <2> HIDE DEF u, q, k
  <2>2. u = [t EXCEPT !.peers = peers]
    BY <2>1 DEF k
  <2> HIDE DEF peers
  <2> QED
    BY <2>2, Fields
<1>2. v = [broadcasts |-> t.broadcasts, peers |-> peers, segments |-> t.segments,
           stats |-> stats, retired |-> t.retired]
  <2>1. v = [u EXCEPT !.stats = IF k \in DOMAIN u.stats THEN u.stats ELSE Store!Put(u.stats, k, 0)]
    <3> HIDE DEF u
    <3> QED
      BY DEF Effect, Stmt
  <2> HIDE DEF u, v, peers, stats
  <2>2. u.stats = t.stats /\ k \notin DOMAIN t.stats
    BY <1>1 DEF Sound
  <2>3. v = [u EXCEPT !.stats = stats]
    BY <2>1, <2>2 DEF stats
  <2> QED
    BY <1>1, <2>3
<1> HIDE DEF u, v, q
<1>3. /\ DOMAIN peers = DOMAIN t.peers \cup {k} /\ peers[k] = row
      /\ \A x \in DOMAIN t.peers : peers[x] = t.peers[x]
      /\ peers = [x \in DOMAIN peers |-> peers[x]]
  BY DEF Store!Put
<1>4. /\ DOMAIN stats = DOMAIN t.stats \cup {k} /\ stats[k] = 0
      /\ \A x \in DOMAIN t.stats : x # k => stats[x] = t.stats[x]
      /\ stats \in [DOMAIN stats -> Nat]
  BY DEF Store!Put, Sound
<1> HIDE DEF peers, stats
<1>5. Sound(v)
  <2>1. IsFiniteSet(DOMAIN peers)
    <3>1. IsFiniteSet(DOMAIN t.peers)
      BY DEF Sound
    <3> HIDE DEF k
    <3> QED
      BY <1>3, <3>1, FS_AddElement
  <2>2. DOMAIN peers \subseteq t.broadcasts \X Peer
    BY <1>3 DEF Sound
  <2>3. DOMAIN stats \subseteq DOMAIN peers
    BY <1>3, <1>4 DEF Sound
  <2>4. \A x \in DOMAIN peers : peers[x] = [quality |-> peers[x].quality, seen |-> peers[x].seen]
    BY <1>3 DEF Sound
  <2>5. \A r \in Range(t.segments) : <<r[1], r[2]>> \in DOMAIN peers
    BY <1>3 DEF Sound
  <2> QED
    BY <1>2, <1>3, <1>4, <2>1, <2>2, <2>3, <2>4, <2>5 DEF Sound
<1>6. /\ \A c \in t.broadcasts : c # b => PeersOf(v, c) = PeersOf(t, c)
      /\ PeersOf(v, b) = PeersOf(t, b) \cup {p} /\ p \notin PeersOf(t, b)
      /\ \A c : RetiredOf(v, c) = RetiredOf(t, c)
      /\ \A c, r : Held(v, c, r) = Held(t, c, r)
  BY <1>2, <1>3 DEF PeersOf, RetiredOf, Held
<1>7. \A c \in t.broadcasts : \A r \in PeersOf(t, c) : Row(v, c, r) = Row(t, c, r)
  <2> SUFFICES ASSUME NEW c \in t.broadcasts, NEW r \in PeersOf(t, c) PROVE Row(v, c, r) = Row(t, c, r)
    OBVIOUS
  <2>1. <<c, r>> \in DOMAIN t.peers /\ <<c, r>> # k
    BY DEF PeersOf
  <2>2. TrafficOf(v, <<c, r>>) = TrafficOf(t, <<c, r>>) /\ v.peers[<<c, r>>] = t.peers[<<c, r>>]
    BY <1>2, <1>3, <1>4, <2>1 DEF TrafficOf
  <2> QED
    BY <1>6, <2>2 DEF Row
<1>8. Row(v, b, p) = Store!NewPeer
  <2>1. Held(v, b, p) = {}
    <3> SUFFICES ASSUME NEW s, <<b, p, s>> \in Range(t.segments) PROVE FALSE
      BY <1>6 DEF Held
    <3> QED
      BY DEF Sound
  <2>2. TrafficOf(v, k) = 0 /\ v.peers[k] = row
    BY <1>2, <1>3, <1>4 DEF TrafficOf
  <2>3. Row(v, b, p) = [segments |-> {}, traffic |-> 0, quality |-> q, seen |-> Yes]
    BY <2>1, <2>2 DEF Row
  <2>4. Store!NewPeer = [segments |-> {}, traffic |-> 0, quality |-> q, seen |-> Yes]
    BY DEF Store!NewPeer, q, Yes
  <2> QED
    BY <2>3, <2>4
<1>9. \A c \in t.broadcasts : c # b => Listed(v, c) = Listed(t, c)
  BY <1>6, <1>7 DEF Listed
<1>10. View(v) = [View(t) EXCEPT ![b] = Listed(v, b)]
  BY <1>2, <1>5, <1>9, OneChanges
<1>11. View(t)[b] = Listed(t, b) /\ b \in DOMAIN View(t) /\ b \in Broadcast
  <2>1. View(t) = [c \in t.broadcasts |-> Listed(t, c)] /\ t.broadcasts \subseteq Broadcast
    BY ViewOf DEF Listed, Sound
  <2> QED
    BY <2>1
<1>12. Listed(v, b) = Admitting(Listed(t, b), p)
  <2>1. [r \in PeersOf(v, b) |-> Row(v, b, r)] = Store!Put([r \in PeersOf(t, b) |-> Row(t, b, r)], p, Store!NewPeer)
    BY <1>6, <1>7, <1>8 DEF Store!Put
  <2> DEFINE old == [r \in PeersOf(t, b) |-> Row(t, b, r)]
             new == [r \in PeersOf(v, b) |-> Row(v, b, r)]
  <2>2. Listed(t, b) = [peers |-> old, retired |-> RetiredOf(t, b)] /\ Listed(v, b) = [peers |-> new, retired |-> RetiredOf(t, b)]
    BY <1>6 DEF Listed
  <2>3. new = Store!Put(old, p, Store!NewPeer)
    BY <2>1
  <2> HIDE DEF old, new
  <2> QED
    BY <2>2, <2>3 DEF Admitting
<1>13. DOMAIN View(t)[b].peers = PeersOf(t, b)
  BY <1>11 DEF Listed
<1>14. Joins(View(t), View(v))
  <2>1. View(v) = [View(t) EXCEPT ![b] = Admitting(View(t)[b], p)]
    BY <1>10, <1>11, <1>12
  <2>2. p \notin DOMAIN View(t)[b].peers /\ Cardinality(DOMAIN View(t)[b].peers) < MaxPeers
    BY <1>6, <1>13
  <2> QED
    BY <1>11, <2>1, <2>2 DEF Joins
<1> QED
  BY <1>5, <1>14, TwoStatements DEF Outcome, v, u, Joining

-----------------------------------------------------------------------------
(* Peers that leave.                                                        *)

LEMMA CarriedOne ==
  ASSUME NEW listed, NEW p, NEW n \in Nat, listed.peers[p].traffic = n
  PROVE  Store!Carried(listed, {p}) = n
<1> DEFINE Units(q) == {q} \X (1..listed.peers[q].traffic)
<1>1. UNION {Units(q) : q \in {p}} = {p} \X (1..n)
  <2>1. Units(p) = {p} \X (1..n)
    OBVIOUS
  <2> HIDE DEF Units
  <2>2. {Units(q) : q \in {p}} = {Units(p)}
    OBVIOUS
  <2>3. UNION {Units(p)} = Units(p)
    OBVIOUS
  <2> QED
    BY <2>1, <2>2, <2>3
<1>2. IsFiniteSet(1..n) /\ Cardinality(1..n) = n
  <2>1. IsFiniteSet(1..n) /\ Cardinality(1..n) = IF 1 > n THEN 0 ELSE n - 1 + 1
    BY FS_Interval
  <2> QED
    BY <2>1
<1>3. IsFiniteSet({p}) /\ Cardinality({p}) = 1
  BY FS_Singleton
<1>4. Cardinality({p} \X (1..n)) = 1 * n
  BY <1>2, <1>3, FS_Product
<1>5. 1 * n = n
  OBVIOUS
<1> QED
  BY <1>1, <1>4, <1>5, SameCardinality DEF Store!Carried

\* retirePeer, as one step of the tables.
Left(t, w, b, p) ==
  /\ Sound(w) /\ w.broadcasts = t.broadcasts
  /\ DOMAIN w.peers = DOMAIN t.peers \ {<<b, p>>}
  /\ \A x \in DOMAIN w.peers : w.peers[x] = t.peers[x]
  /\ \A c \in t.broadcasts : c # b => Listed(w, c) = Listed(t, c)
  /\ Listed(w, b) = Store!Retired(Listed(t, b), {p})

LEMMA AccumulateRetiredStats ==
  ASSUME NEW t, NEW k
  PROVE  Effect(t, Stmt("accumulateRetiredStats", k, 0)) =
           IF k \in DOMAIN t.stats
           THEN [t EXCEPT !.retired = Store!Put(t.retired, k[1], RetiredOf(t, k[1]) + t.stats[k])]
           ELSE t
BY DEF Effect, Stmt

LEMMA DeletePeerStats ==
  ASSUME NEW t, NEW k
  PROVE  Effect(t, Stmt("deletePeerStats", k, 0)) = [t EXCEPT !.stats = Store!Drop(t.stats, {k})]
BY DEF Effect, Stmt

LEMMA DeletePeerSegments ==
  ASSUME NEW t, NEW k
  PROVE  Effect(t, Stmt("deletePeerSegments", k, 0)) =
           [t EXCEPT !.segments = Less(t.segments, {k[1]} \X {k[2]} \X Segment)]
BY DEF Effect, Stmt

LEMMA DeletePeer ==
  ASSUME NEW t, NEW k
  PROVE  Effect(t, Stmt("deletePeer", k, 0)) = [t EXCEPT !.peers = Store!Drop(t.peers, {k})]
BY DEF Effect, Stmt

LEMMA PeerLeft ==
  ASSUME NEW t, Sound(t), NEW b, NEW p, <<b, p>> \in DOMAIN t.peers, NEW k, k = <<b, p>>,
         NEW u1, NEW u2, NEW u3, NEW w,
         u1 = Effect(t, Stmt("accumulateRetiredStats", k, 0)),
         u2 = Effect(u1, Stmt("deletePeerStats", k, 0)),
         u3 = Effect(u2, Stmt("deletePeerSegments", k, 0)),
         w = Effect(u3, Stmt("deletePeer", k, 0))
  PROVE  Left(t, w, b, p)
<1> DEFINE n == RetiredOf(t, b) + TrafficOf(t, k)
           retired == IF k \in DOMAIN t.stats THEN Store!Put(t.retired, b, RetiredOf(t, b) + t.stats[k])
                      ELSE t.retired
           stats == Store!Drop(t.stats, {k})
           segments == Less(t.segments, {b} \X {p} \X Segment)
           peers == Store!Drop(t.peers, {k})
<1>0. k[1] = b /\ k[2] = p
  OBVIOUS
<1>1. w = [broadcasts |-> t.broadcasts, peers |-> peers, segments |-> segments,
           stats |-> stats, retired |-> retired]
  <2>1. u1 = IF k \in DOMAIN t.stats
             THEN [t EXCEPT !.retired = Store!Put(t.retired, k[1], RetiredOf(t, k[1]) + t.stats[k])]
             ELSE t
    BY AccumulateRetiredStats
  <2>2. u2 = [u1 EXCEPT !.stats = Store!Drop(u1.stats, {k})]
    BY DeletePeerStats
  <2>3. u3 = [u2 EXCEPT !.segments = Less(u2.segments, {k[1]} \X {k[2]} \X Segment)]
    BY DeletePeerSegments
  <2>4. w = [u3 EXCEPT !.peers = Store!Drop(u3.peers, {k})]
    BY DeletePeer
  <2> HIDE DEF segments, stats, peers
  <2>6. u1 = [broadcasts |-> t.broadcasts, peers |-> t.peers, segments |-> t.segments,
              stats |-> t.stats, retired |-> retired]
    <3>1. CASE k \in DOMAIN t.stats
      <4>1. u1 = [t EXCEPT !.retired = retired]
        BY <1>0, <2>1, <3>1
      <4> HIDE DEF retired
      <4> QED
        BY <4>1, Fields
    <3>2. CASE k \notin DOMAIN t.stats
      <4>1. u1 = t /\ retired = t.retired
        BY <2>1, <3>2
      <4> HIDE DEF retired
      <4> QED
        BY <4>1 DEF Sound
    <3> QED
      BY <3>1, <3>2
  <2> HIDE DEF retired
  <2>7. u2 = [broadcasts |-> t.broadcasts, peers |-> t.peers, segments |-> t.segments,
              stats |-> stats, retired |-> retired]
    <3>1. u2 = [u1 EXCEPT !.stats = stats]
      BY <2>2, <2>6 DEF stats
    <3> QED
      BY <2>6, <3>1
  <2>8. u3 = [broadcasts |-> t.broadcasts, peers |-> t.peers, segments |-> segments,
              stats |-> stats, retired |-> retired]
    <3>1. u3 = [u2 EXCEPT !.segments = segments]
      BY <1>0, <2>3, <2>7 DEF segments
    <3> QED
      BY <2>7, <3>1
  <2>9. w = [u3 EXCEPT !.peers = peers]
    BY <2>4, <2>8 DEF peers
  <2> QED
    BY <2>8, <2>9
<1>2. /\ DOMAIN peers = DOMAIN t.peers \ {k}
      /\ \A x \in DOMAIN peers : peers[x] = t.peers[x]
      /\ peers = [x \in DOMAIN peers |-> peers[x]]
  BY DEF Store!Drop
<1>3. /\ DOMAIN stats = DOMAIN t.stats \ {k}
      /\ \A x \in DOMAIN stats : stats[x] = t.stats[x]
      /\ stats \in [DOMAIN stats -> Nat]
  BY DEF Store!Drop, Sound
<1>4. /\ segments \in Seq(Rows) /\ IsInjective(segments)
      /\ Range(segments) = Range(t.segments) \ ({b} \X {p} \X Segment)
  BY LessKept DEF Sound
<1>5. b \in t.broadcasts /\ b \in Broadcast /\ p \in Peer /\ p \in PeersOf(t, b)
  BY Viewed
<1>6. TrafficOf(t, k) \in Nat /\ RetiredOf(t, b) \in Nat /\ n \in Nat
  BY DEF TrafficOf, RetiredOf, Sound
<1>7. /\ retired \in [DOMAIN retired -> Nat] /\ DOMAIN retired \subseteq t.broadcasts
      /\ (IF b \in DOMAIN retired THEN retired[b] ELSE 0) = n
      /\ \A c : c # b => /\ c \in DOMAIN retired <=> c \in DOMAIN t.retired
                         /\ c \in DOMAIN retired => retired[c] = t.retired[c]
  <2>1. CASE k \in DOMAIN t.stats
    <3>1. n = RetiredOf(t, b) + t.stats[k] /\ retired = Store!Put(t.retired, b, n)
      BY <2>1 DEF TrafficOf
    <3> HIDE DEF n, retired
    <3>2. /\ DOMAIN retired = DOMAIN t.retired \cup {b} /\ retired[b] = n
          /\ \A c \in DOMAIN retired : c # b => retired[c] = t.retired[c]
          /\ retired = [c \in DOMAIN retired |-> retired[c]]
      BY <3>1 DEF Store!Put
    <3>3. /\ DOMAIN t.retired \subseteq t.broadcasts
          /\ \A c \in DOMAIN t.retired : t.retired[c] \in Nat
      BY DEF Sound
    <3>4. \A c \in DOMAIN retired : retired[c] \in Nat
      BY <1>6, <3>2, <3>3
    <3> QED
      BY <1>5, <3>2, <3>3, <3>4
  <2>2. CASE k \notin DOMAIN t.stats
    <3>1. n = RetiredOf(t, b) /\ retired = t.retired
      BY <1>6, <2>2 DEF TrafficOf
    <3> HIDE DEF n, retired
    <3> QED
      BY <3>1 DEF Sound, RetiredOf
  <2> QED
    BY <2>1, <2>2
<1> HIDE DEF n, retired, stats, segments, peers
<1>8. Sound(w)
  <2>1. IsFiniteSet(DOMAIN peers)
    BY <1>2, FS_Subset DEF Sound
  <2>2. DOMAIN peers \subseteq t.broadcasts \X Peer
    BY <1>2 DEF Sound
  <2>3. DOMAIN stats \subseteq DOMAIN peers
    BY <1>2, <1>3 DEF Sound
  <2>4. \A x \in DOMAIN peers : peers[x] = [quality |-> peers[x].quality, seen |-> peers[x].seen]
    BY <1>2 DEF Sound
  <2>5. ASSUME NEW r \in Range(segments) PROVE <<r[1], r[2]>> \in DOMAIN peers
    <3>1. r \in Range(t.segments) /\ r \notin {b} \X {p} \X Segment /\ r \in Rows
      BY <1>4, <2>5 DEF Range
    <3>2. <<r[1], r[2]>> \in DOMAIN t.peers
      BY <3>1 DEF Sound
    <3>3. <<r[1], r[2]>> # k
      BY <3>1 DEF Rows
    <3> QED
      BY <1>2, <3>2, <3>3
  <2>6. /\ w.broadcasts = t.broadcasts /\ w.peers = peers /\ w.segments = segments
        /\ w.stats = stats /\ w.retired = retired
    BY <1>1
  <2>7. t.broadcasts \subseteq Broadcast
    BY DEF Sound
  <2>8. w = [broadcasts |-> w.broadcasts, peers |-> w.peers, segments |-> w.segments,
             stats |-> w.stats, retired |-> w.retired]
    BY <1>1
  <2>9. /\ w.broadcasts \subseteq Broadcast
        /\ DOMAIN w.peers \subseteq w.broadcasts \X Peer /\ IsFiniteSet(DOMAIN w.peers)
    BY <2>1, <2>2, <2>6, <2>7
  <2>12. /\ w.peers = [x \in DOMAIN w.peers |-> w.peers[x]]
         /\ \A x \in DOMAIN w.peers : w.peers[x] = [quality |-> w.peers[x].quality, seen |-> w.peers[x].seen]
    <3>1. w.peers = peers
      BY <2>6
    <3>2. w.peers = [x \in DOMAIN w.peers |-> w.peers[x]]
      BY <1>2, <3>1
    <3>3. ASSUME NEW x \in DOMAIN w.peers
          PROVE  w.peers[x] = [quality |-> w.peers[x].quality, seen |-> w.peers[x].seen]
      <4>1. x \in DOMAIN peers /\ w.peers[x] = peers[x]
        BY <3>1
      <4> QED
        BY <2>4, <4>1
    <3> QED
      BY <3>2, <3>3
  <2>10. /\ DOMAIN w.stats \subseteq DOMAIN w.peers /\ w.stats \in [DOMAIN w.stats -> Nat]
         /\ DOMAIN w.retired \subseteq w.broadcasts /\ w.retired \in [DOMAIN w.retired -> Nat]
    BY <1>3, <1>7, <2>3, <2>6
  <2>11. /\ w.segments \in Seq(Rows) /\ IsInjective(w.segments)
         /\ \A r \in Range(w.segments) : <<r[1], r[2]>> \in DOMAIN w.peers
    BY <1>4, <2>5, <2>6
  <2> QED
    BY <2>8, <2>9, <2>10, <2>11, <2>12, Zenon DEF Sound
<1>9. /\ \A c \in t.broadcasts : c # b => PeersOf(w, c) = PeersOf(t, c) /\ RetiredOf(w, c) = RetiredOf(t, c)
      /\ PeersOf(w, b) = PeersOf(t, b) \ {p}
      /\ RetiredOf(w, b) = n
  BY <1>1, <1>2, <1>7 DEF PeersOf, RetiredOf
<1>10. \A c \in t.broadcasts : \A r \in PeersOf(w, c) : Row(w, c, r) = Row(t, c, r)
  <2> SUFFICES ASSUME NEW c \in t.broadcasts, NEW r \in PeersOf(w, c) PROVE Row(w, c, r) = Row(t, c, r)
    OBVIOUS
  <2>1. <<c, r>> \in DOMAIN peers /\ <<c, r>> # k
    BY <1>1, <1>2 DEF PeersOf
  <2>2. TrafficOf(w, <<c, r>>) = TrafficOf(t, <<c, r>>)
    BY <1>1, <1>3, <2>1 DEF TrafficOf
  <2>3. w.peers[<<c, r>>] = t.peers[<<c, r>>]
    BY <1>1, <1>2, <2>1
  <2>4. \A s \in Segment : <<c, r, s>> \in Range(w.segments) <=> <<c, r, s>> \in Range(t.segments)
    BY <1>1, <1>4, <2>1
  <2>5. Held(w, c, r) = Held(t, c, r)
    BY <2>4 DEF Held
  <2> QED
    BY <2>2, <2>3, <2>5 DEF Row
<1>11. \A c \in t.broadcasts : c # b => Listed(w, c) = Listed(t, c)
  BY <1>9, <1>10 DEF Listed
<1>12. Listed(w, b) = Store!Retired(Listed(t, b), {p})
  <2> DEFINE old == [r \in PeersOf(t, b) |-> Row(t, b, r)]
             new == [r \in PeersOf(w, b) |-> Row(w, b, r)]
             listed == Listed(t, b)
  <2>1. new = Store!Drop(old, {p})
    BY <1>5, <1>9, <1>10 DEF Store!Drop
  <2>2. listed = [peers |-> old, retired |-> RetiredOf(t, b)] /\ Listed(w, b) = [peers |-> new, retired |-> n]
    BY <1>9 DEF Listed
  <2>3. old[p].traffic = TrafficOf(t, k)
    BY <1>5 DEF Row
  <2> HIDE DEF old, new, listed
  <2>4. listed.peers = old /\ listed.retired = RetiredOf(t, b)
    BY <2>2
  <2>5. Store!Carried(listed, {p}) = TrafficOf(t, k)
    BY <1>6, <2>3, <2>4, CarriedOne
  <2>6. Store!Retired(listed, {p}) = [peers |-> new, retired |-> n]
    BY <2>1, <2>4, <2>5 DEF Store!Retired, n
  <2> QED
    BY <2>2, <2>6 DEF listed
<1>13. w.broadcasts = t.broadcasts /\ w.peers = peers
  BY <1>1
<1> QED
  BY <1>2, <1>8, <1>11, <1>12, <1>13 DEF Left

\* The view after a peer left.
LEMMA LeftViewed ==
  ASSUME NEW t, Sound(t), NEW b, NEW p, <<b, p>> \in DOMAIN t.peers, NEW w, Left(t, w, b, p)
  PROVE  /\ Sound(w)
         /\ View(w) = [View(t) EXCEPT ![b] = Store!Retired(View(t)[b], {p})]
<1>1. b \in t.broadcasts /\ View(t)[b] = Listed(t, b)
  BY Viewed
<1>2. View(w) = [View(t) EXCEPT ![b] = Listed(w, b)]
  BY <1>1, OneChanges DEF Left
<1> QED
  BY <1>1, <1>2 DEF Left

LEMMA LeaveDone ==
  ASSUME NEW t, Sound(t), NEW b, NEW p, <<b, p>> \in DOMAIN t.peers
  PROVE  Accomplishes(t, Retire(<<b, p>>))
<1> DEFINE k == <<b, p>>
           s == Retire(k)
<1>1. /\ s[1] = Stmt("accumulateRetiredStats", k, 0) /\ s[2] = Stmt("deletePeerStats", k, 0)
      /\ s[3] = Stmt("deletePeerSegments", k, 0) /\ s[4] = Stmt("deletePeer", k, 0)
      /\ Len(s) = 4 /\ IsScript(s)
  <2> DEFINE S == {Stmt("accumulateRetiredStats", k, 0), Stmt("deletePeerStats", k, 0),
                   Stmt("deletePeerSegments", k, 0), Stmt("deletePeer", k, 0)}
  <2>1. s \in Seq(S)
    BY DEF Retire
  <2>2. IsScript(s)
    BY <2>1 DEF IsScript
  <2> QED
    BY <2>2 DEF Retire
<1> HIDE DEF s
<1>2. PICK run : Runs(run, t, s)
  BY <1>1, RunExists
<1>3. /\ run[1] = t /\ run[2] = Effect(run[1], s[1]) /\ run[3] = Effect(run[2], s[2])
      /\ run[4] = Effect(run[3], s[3]) /\ run[5] = Effect(run[4], s[4])
  <2>1. \A i \in 1..4 : run[i + 1] = Effect(run[i], s[i])
    BY <1>1, <1>2 DEF Runs
  <2> QED
    BY <1>2, <2>1 DEF Runs
<1>4. /\ run[2] = Effect(t, Stmt("accumulateRetiredStats", k, 0))
      /\ run[3] = Effect(run[2], Stmt("deletePeerStats", k, 0))
      /\ run[4] = Effect(run[3], Stmt("deletePeerSegments", k, 0))
      /\ run[5] = Effect(run[4], Stmt("deletePeer", k, 0))
  BY <1>1, <1>3
<1>5. Left(t, run[5], b, p)
  BY <1>4, PeerLeft
<1>6. Sound(run[5]) /\ View(run[5]) = [View(t) EXCEPT ![b] = Store!Retired(View(t)[b], {p})]
  BY <1>5, LeftViewed
<1>7. Leaves(View(t), View(run[5]))
  BY <1>6, Viewed DEF Leaves
<1>8. Len(s) + 1 = 5
  BY <1>1
<1> QED
  BY <1>1, <1>2, <1>6, <1>7, <1>8 DEF Accomplishes, Outcome, s

LEMMA DeleteBroadcastSegments ==
  ASSUME NEW t, NEW k
  PROVE  Effect(t, Stmt("deleteBroadcastSegments", k, 0)) =
           [t EXCEPT !.segments = Less(t.segments, {k[1]} \X Peer \X Segment)]
BY DEF Effect, Stmt

\* The rows of the other broadcasts.
Apart(f, b) == [x \in {y \in DOMAIN f : y[1] # b} |-> f[x]]
Others(f, b) == [x \in {y \in DOMAIN f : y # b} |-> f[x]]

LEMMA DeleteBroadcastPeerStats ==
  ASSUME NEW t, NEW k
  PROVE  Effect(t, Stmt("deleteBroadcastPeerStats", k, 0)) =
           [t EXCEPT !.stats = Apart(t.stats, k[1])]
BY DEF Effect, Stmt, Without, Apart

LEMMA DeleteBroadcastRetiredStats ==
  ASSUME NEW t, NEW k
  PROVE  Effect(t, Stmt("deleteBroadcastRetiredStats", k, 0)) =
           [t EXCEPT !.retired = Others(t.retired, k[1])]
BY DEF Effect, Stmt, Without, Others

LEMMA DeleteBroadcastPeers ==
  ASSUME NEW t, NEW k
  PROVE  Effect(t, Stmt("deleteBroadcastPeers", k, 0)) =
           [t EXCEPT !.peers = Apart(t.peers, k[1])]
BY DEF Effect, Stmt, Without, Apart

LEMMA DeleteBroadcast ==
  ASSUME NEW t, NEW k
  PROVE  Effect(t, Stmt("deleteBroadcast", k, 0)) = [t EXCEPT !.broadcasts = t.broadcasts \ {k[1]}]
BY DEF Effect, Stmt

Unregistering(b) ==
  [i \in 1..5 |-> Stmt(<<"deleteBroadcastSegments", "deleteBroadcastPeerStats",
    "deleteBroadcastRetiredStats", "deleteBroadcastPeers", "deleteBroadcast">>[i], <<b>>, 0)]

LEMMA BroadcastGone ==
  ASSUME NEW t, Sound(t), NEW b \in t.broadcasts, NEW k, k[1] = b, NEW u1, NEW u2, NEW u3, NEW u4, NEW w,
         u1 = Effect(t, Stmt("deleteBroadcastSegments", k, 0)),
         u2 = Effect(u1, Stmt("deleteBroadcastPeerStats", k, 0)),
         u3 = Effect(u2, Stmt("deleteBroadcastRetiredStats", k, 0)),
         u4 = Effect(u3, Stmt("deleteBroadcastPeers", k, 0)),
         w = Effect(u4, Stmt("deleteBroadcast", k, 0))
  PROVE  Sound(w) /\ Unregisters(View(t), View(w))
<1> DEFINE broadcasts == t.broadcasts \ {b}
           segments == Less(t.segments, {b} \X Peer \X Segment)
           stats == Apart(t.stats, b)
           retired == Others(t.retired, b)
           peers == Apart(t.peers, b)
<1>1. w = [broadcasts |-> broadcasts, peers |-> peers, segments |-> segments,
           stats |-> stats, retired |-> retired]
  <2>1. u1 = [t EXCEPT !.segments = segments]
    BY DeleteBroadcastSegments
  <2> HIDE DEF segments
  <2>2. u1 = [broadcasts |-> t.broadcasts, peers |-> t.peers, segments |-> segments,
              stats |-> t.stats, retired |-> t.retired]
    BY <2>1, Fields
  <2>3. u2 = [u1 EXCEPT !.stats = stats]
    <3>1. u2 = [u1 EXCEPT !.stats = Apart(u1.stats, b)]
      BY DeleteBroadcastPeerStats
    <3> QED
      BY <2>2, <3>1
  <2> HIDE DEF stats
  <2>4. u2 = [broadcasts |-> t.broadcasts, peers |-> t.peers, segments |-> segments,
              stats |-> stats, retired |-> t.retired]
    BY <2>2, <2>3
  <2>5. u3 = [u2 EXCEPT !.retired = retired]
    <3>1. u3 = [u2 EXCEPT !.retired = Others(u2.retired, b)]
      BY DeleteBroadcastRetiredStats
    <3> QED
      BY <2>4, <3>1
  <2> HIDE DEF retired
  <2>6. u3 = [broadcasts |-> t.broadcasts, peers |-> t.peers, segments |-> segments,
              stats |-> stats, retired |-> retired]
    BY <2>4, <2>5
  <2>7. u4 = [u3 EXCEPT !.peers = peers]
    <3>1. u4 = [u3 EXCEPT !.peers = Apart(u3.peers, b)]
      BY DeleteBroadcastPeers
    <3> QED
      BY <2>6, <3>1
  <2> HIDE DEF peers
  <2>8. u4 = [broadcasts |-> t.broadcasts, peers |-> peers, segments |-> segments,
              stats |-> stats, retired |-> retired]
    BY <2>6, <2>7
  <2>9. w = [u4 EXCEPT !.broadcasts = broadcasts]
    BY <2>8, DeleteBroadcast
  <2> QED
    BY <2>8, <2>9
<1>2. /\ DOMAIN peers = {x \in DOMAIN t.peers : x[1] # b}
      /\ \A x \in DOMAIN peers : peers[x] = t.peers[x]
      /\ peers = [x \in DOMAIN peers |-> peers[x]]
  BY DEF Apart
<1>3. /\ DOMAIN stats = {x \in DOMAIN t.stats : x[1] # b}
      /\ \A x \in DOMAIN stats : stats[x] = t.stats[x]
      /\ stats \in [DOMAIN stats -> Nat]
  BY DEF Sound, Apart
<1>4. /\ segments \in Seq(Rows) /\ IsInjective(segments)
      /\ Range(segments) = Range(t.segments) \ ({b} \X Peer \X Segment)
  BY LessKept DEF Sound
<1>5. /\ DOMAIN retired = {x \in DOMAIN t.retired : x # b}
      /\ \A x \in DOMAIN retired : retired[x] = t.retired[x]
      /\ retired \in [DOMAIN retired -> Nat]
  BY DEF Sound, Others
<1> HIDE DEF retired, stats, segments, peers
<1>6. /\ w.broadcasts = broadcasts /\ w.peers = peers /\ w.segments = segments
      /\ w.stats = stats /\ w.retired = retired
  BY <1>1
<1>7. Sound(w)
  <2>1. IsFiniteSet(DOMAIN peers)
    BY <1>2, FS_Subset DEF Sound
  <2>2. DOMAIN peers \subseteq broadcasts \X Peer
    BY <1>2 DEF Sound
  <2>3. DOMAIN stats \subseteq DOMAIN peers
    BY <1>2, <1>3 DEF Sound
  <2>4. \A x \in DOMAIN peers : peers[x] = [quality |-> peers[x].quality, seen |-> peers[x].seen]
    BY <1>2 DEF Sound
  <2>5. ASSUME NEW r \in Range(segments) PROVE <<r[1], r[2]>> \in DOMAIN peers
    <3>1. r \in Range(t.segments) /\ r \notin {b} \X Peer \X Segment /\ r \in Rows
      BY <1>4, <2>5 DEF Range
    <3>2. <<r[1], r[2]>> \in DOMAIN t.peers
      BY <3>1 DEF Sound
    <3>3. r[1] # b
      BY <3>1 DEF Rows
    <3> QED
      BY <1>2, <3>2, <3>3
  <2>6. broadcasts \subseteq Broadcast
    BY DEF Sound
  <2>7. DOMAIN retired \subseteq broadcasts
    BY <1>5 DEF Sound
  <2>8. w = [broadcasts |-> w.broadcasts, peers |-> w.peers, segments |-> w.segments,
             stats |-> w.stats, retired |-> w.retired]
    BY <1>1
  <2>9. /\ w.broadcasts \subseteq Broadcast
        /\ DOMAIN w.peers \subseteq w.broadcasts \X Peer /\ IsFiniteSet(DOMAIN w.peers)
    BY <1>6, <2>1, <2>2, <2>6
  <2>10. /\ DOMAIN w.stats \subseteq DOMAIN w.peers /\ w.stats \in [DOMAIN w.stats -> Nat]
         /\ DOMAIN w.retired \subseteq w.broadcasts /\ w.retired \in [DOMAIN w.retired -> Nat]
    BY <1>3, <1>5, <1>6, <2>3, <2>7
  <2>11. /\ w.segments \in Seq(Rows) /\ IsInjective(w.segments)
         /\ \A r \in Range(w.segments) : <<r[1], r[2]>> \in DOMAIN w.peers
    BY <1>4, <1>6, <2>5
  <2>12. w.peers = [x \in DOMAIN w.peers |-> w.peers[x]]
    BY <1>2, <1>6
  <2>13. ASSUME NEW x \in DOMAIN w.peers
         PROVE  w.peers[x] = [quality |-> w.peers[x].quality, seen |-> w.peers[x].seen]
    <3>1. x \in DOMAIN peers /\ w.peers[x] = peers[x]
      BY <1>6
    <3> QED
      BY <2>4, <3>1
  <2> QED
    BY <2>8, <2>9, <2>10, <2>11, <2>12, <2>13, Zenon DEF Sound
<1>8. \A c \in broadcasts : PeersOf(w, c) = PeersOf(t, c) /\ RetiredOf(w, c) = RetiredOf(t, c)
  BY <1>2, <1>5, <1>6 DEF PeersOf, RetiredOf
<1>9. \A c \in broadcasts : \A r \in PeersOf(w, c) : Row(w, c, r) = Row(t, c, r)
  <2> SUFFICES ASSUME NEW c \in broadcasts, NEW r \in PeersOf(w, c) PROVE Row(w, c, r) = Row(t, c, r)
    OBVIOUS
  <2>1. <<c, r>> \in DOMAIN peers /\ c # b
    BY <1>6 DEF PeersOf
  <2>2. TrafficOf(w, <<c, r>>) = TrafficOf(t, <<c, r>>)
    BY <1>3, <1>6, <2>1 DEF TrafficOf
  <2>3. w.peers[<<c, r>>] = t.peers[<<c, r>>]
    BY <1>2, <1>6, <2>1
  <2>4. \A s \in Segment : <<c, r, s>> \in Range(w.segments) <=> <<c, r, s>> \in Range(t.segments)
    BY <1>4, <1>6, <2>1
  <2>5. Held(w, c, r) = Held(t, c, r)
    BY <2>4 DEF Held
  <2> QED
    BY <2>2, <2>3, <2>5 DEF Row
<1>10. \A c \in broadcasts : Listed(w, c) = Listed(t, c)
  BY <1>8, <1>9 DEF Listed
<1>11. View(t) = [c \in t.broadcasts |-> Listed(t, c)] /\ View(w) = [c \in w.broadcasts |-> Listed(w, c)]
  BY <1>7, ViewOf DEF Listed
<1>12. View(w) = Store!Drop(View(t), {b}) /\ b \in DOMAIN View(t)
  <2>1. View(w) = [c \in broadcasts |-> Listed(t, c)]
    <3>1. View(w) = [c \in broadcasts |-> Listed(w, c)]
      BY <1>6, <1>11
    <3> HIDE DEF broadcasts
    <3> QED
      BY <1>10, <3>1
  <2>2. DOMAIN View(t) \ {b} = broadcasts /\ \A c \in broadcasts : View(t)[c] = Listed(t, c)
    BY <1>11
  <2>3. Store!Drop(View(t), {b}) = [c \in broadcasts |-> Listed(t, c)]
    BY <2>2 DEF Store!Drop
  <2> QED
    BY <1>11, <2>1, <2>3
<1>13. b \in Broadcast
  BY DEF Sound
<1> QED
  BY <1>7, <1>12, <1>13 DEF Unregisters

LEMMA UnregisterDone ==
  ASSUME NEW t, Sound(t), NEW b \in t.broadcasts
  PROVE  Accomplishes(t, Unregistering(b))
<1> DEFINE k == <<b>>
           s == Unregistering(b)
<1>1. /\ s[1] = Stmt("deleteBroadcastSegments", k, 0) /\ s[2] = Stmt("deleteBroadcastPeerStats", k, 0)
      /\ s[3] = Stmt("deleteBroadcastRetiredStats", k, 0) /\ s[4] = Stmt("deleteBroadcastPeers", k, 0)
      /\ s[5] = Stmt("deleteBroadcast", k, 0) /\ Len(s) = 5 /\ IsScript(s)
  <2>1. s \in Seq({s[i] : i \in 1..5}) /\ Len(s) = 5
    BY DEF Unregistering
  <2>2. IsScript(s)
    BY <2>1 DEF IsScript
  <2> QED
    BY <2>1, <2>2 DEF Unregistering
<1> HIDE DEF s
<1>2. PICK run : Runs(run, t, s)
  BY <1>1, RunExists
<1>3. /\ run[1] = t /\ run[2] = Effect(run[1], s[1]) /\ run[3] = Effect(run[2], s[2])
      /\ run[4] = Effect(run[3], s[3]) /\ run[5] = Effect(run[4], s[4]) /\ run[6] = Effect(run[5], s[5])
  <2>1. \A i \in 1..5 : run[i + 1] = Effect(run[i], s[i])
    BY <1>1, <1>2 DEF Runs
  <2> QED
    BY <1>2, <2>1 DEF Runs
<1>4. k[1] = b
  OBVIOUS
<1> HIDE DEF k
<1>5. Sound(run[6]) /\ Unregisters(View(t), View(run[6]))
  BY <1>1, <1>3, <1>4, BroadcastGone
<1>6. Len(s) + 1 = 6
  BY <1>1
<1> QED
  BY <1>1, <1>2, <1>5, <1>6 DEF Accomplishes, Outcome, s

-----------------------------------------------------------------------------
(* Inventories.                                                             *)

Distinct(s) == s \in Seq(Segment) /\ IsInjective(s)

LEMMA DistinctConcat ==
  ASSUME NEW r, NEW s, Distinct(r), Distinct(s), Range(r) \cap Range(s) = {}
  PROVE  Distinct(r \o s) /\ Range(r \o s) = Range(r) \cup Range(s)
<1> DEFINE c == r \o s
<1>1. /\ Len(r) \in Nat /\ DOMAIN r = 1..Len(r) /\ Len(s) \in Nat /\ DOMAIN s = 1..Len(s)
      /\ DOMAIN c = 1..(Len(r) + Len(s)) /\ c \in Seq(Segment)
      /\ \A i \in 1..Len(r) : c[i] = r[i]
      /\ \A i \in 1..Len(s) : c[Len(r) + i] = s[i]
  BY DEF Distinct
<1> HIDE DEF c
<1>2. ASSUME NEW i \in DOMAIN c
      PROVE  \/ i \in DOMAIN r /\ c[i] = r[i]
             \/ i - Len(r) \in DOMAIN s /\ c[i] = s[i - Len(r)]
  <2>1. CASE i <= Len(r)
    BY <1>1, <2>1
  <2>2. CASE i > Len(r)
    <3>1. i - Len(r) \in 1..Len(s) /\ Len(r) + (i - Len(r)) = i
      BY <1>1, <2>2
    <3> QED
      BY <1>1, <3>1
  <2> QED
    BY <1>1, <2>1, <2>2
<1>3. Range(c) = Range(r) \cup Range(s)
  <2>1. Range(c) \subseteq Range(r) \cup Range(s)
    BY <1>2 DEF Range
  <2>2. \A i \in 1..Len(s) : Len(r) + i \in DOMAIN c
    BY <1>1
  <2>3. \A i \in 1..Len(r) : i \in DOMAIN c
    BY <1>1
  <2>4. Range(r) \cup Range(s) \subseteq Range(c)
    BY <1>1, <2>2, <2>3 DEF Range
  <2> QED
    BY <2>1, <2>4
<1>4. IsInjective(c)
  <2> SUFFICES ASSUME NEW i \in DOMAIN c, NEW j \in DOMAIN c, c[i] = c[j] PROVE i = j
    BY DEF IsInjective
  <2>1. CASE i \in DOMAIN r /\ c[i] = r[i]
    <3>1. j \in DOMAIN r /\ c[j] = r[j]
      BY <1>2, <2>1 DEF Range
    <3> QED
      BY <2>1, <3>1 DEF Distinct, IsInjective
  <2>2. CASE i - Len(r) \in DOMAIN s /\ c[i] = s[i - Len(r)]
    <3>1. j - Len(r) \in DOMAIN s /\ c[j] = s[j - Len(r)]
      BY <1>2, <2>2 DEF Range
    <3>2. i - Len(r) = j - Len(r)
      BY <2>2, <3>1 DEF Distinct, IsInjective
    <3> QED
      BY <1>1, <3>2
  <2> QED
    BY <1>2, <2>1, <2>2
<1> QED
  BY <1>1, <1>3, <1>4 DEF Distinct, c

LEMMA DistinctLess ==
  ASSUME NEW s, Distinct(s), NEW T
  PROVE  Distinct(Less(s, T)) /\ Range(Less(s, T)) = Range(s) \ T
BY LessKept DEF Distinct

LEMMA DistinctWith ==
  ASSUME NEW s, NEW more, Distinct(s), Distinct(more)
  PROVE  Distinct(With(s, more))
<1>1. Distinct(Less(more, Range(s))) /\ Range(Less(more, Range(s))) \cap Range(s) = {}
  BY DistinctLess
<1> QED
  BY <1>1, DistinctConcat DEF With

LEMMA DistinctReports == ASSUME NEW s \in Reports PROVE Distinct(s)
<1>1. PICK T \in SUBSET Segment : IsFiniteSet(T) /\ s \in SetToSeqs(T)
  BY DEF Reports
<1>2. Cardinality(T) \in Nat
  BY <1>1, FS_CardinalityType
<1>3. s \in [1..Cardinality(T) -> T] /\ \A i, j \in 1..Cardinality(T) : i # j => s[i] # s[j]
  BY <1>1 DEF SetToSeqs
<1>4. s \in Seq(Segment)
  <2>1. s \in [1..Cardinality(T) -> Segment]
    BY <1>3
  <2> QED
    BY <1>2, <2>1
<1>5. IsInjective(s)
  BY <1>3 DEF IsInjective
<1> QED
  BY <1>4, <1>5 DEF Distinct

\* Sets of numbers have a least element.
LEMMA LeastOf ==
  ASSUME NEW n \in Nat, NEW S \in SUBSET (1..n), S # {}
  PROVE  Min(S) \in S
<1>0. S \subseteq Nat
  OBVIOUS
<1>1. PICK x \in S : \A y \in S : ~(<<y, x>> \in OpToRel(<, Nat))
  BY <1>0, WFMin, NatLessThanWellFounded, Zenon
<1>2. ASSUME NEW y \in S PROVE x <= y
  <2>1. <<y, x>> \in Nat \X Nat /\ ~(<<y, x>> \in OpToRel(<, Nat))
    BY <1>0, <1>1
  <2>2. ~(y < x)
    BY <2>1 DEF OpToRel
  <2> QED
    BY <2>2
<1> QED
  BY <1>2 DEF Min

\* Nothing is within the limits.
LEMMA EmptyFits ==
  ASSUME MaxSegments \in Nat, MaxCharacters \in Nat
  PROVE  Store!InventoryFits({})
<1>1. Cardinality({}) = 0
  BY FS_EmptySet
<1>2. UNION {{s} \X (1..Length[s]) : s \in {}} = {}
  OBVIOUS
<1> QED
  BY <1>1, <1>2, SameCardinality DEF Store!InventoryFits

\* What is kept of an inventory is a part of it, within the limits.
LEMMA NewestKept ==
  ASSUME MaxSegments \in Nat, MaxCharacters \in Nat, NEW s, Distinct(s)
  PROVE  /\ Distinct(Newest(s)) /\ Range(Newest(s)) \subseteq Segment
         /\ Store!InventoryFits(Range(Newest(s)))
<1> DEFINE n == Len(s)
           m == Min(Starts(s))
           r == SubSeq(s, m, n)
           l == (n + 1) - m
<1>1. n \in Nat /\ DOMAIN s = 1..n /\ s \in Seq(Segment) /\ \A i \in 1..n : s[i] \in Segment
  BY DEF Distinct
<1>2. m \in Starts(s)
  <2>1. SubSeq(s, n + 1, n) = <<>>
    BY <1>1
  <2>2. Range(<<>>) = {}
    BY DEF Range
  <2>2a. Store!InventoryFits(Range(SubSeq(s, n + 1, n)))
    BY <2>1, <2>2, EmptyFits
  <2>2b. n + 1 \in 1..(n + 1)
    BY <1>1
  <2>3. n + 1 \in Starts(s)
    BY <2>2a, <2>2b, Zenon DEF Starts
  <2>4. Starts(s) \in SUBSET (1..(n + 1)) /\ n + 1 \in Nat
    BY <1>1 DEF Starts
  <2> HIDE DEF n
  <2> QED
    BY <2>3, <2>4, LeastOf
<1>3. Store!InventoryFits(Range(r))
  BY <1>2 DEF Starts
<1>4. m \in 1..(n + 1) /\ l \in Nat
  BY <1>1, <1>2 DEF Starts
<1> HIDE DEF m, n
<1>5. r = [i \in 1..l |-> s[m + i - 1]] /\ \A i \in 1..l : m + i - 1 \in 1..n
  <2>1. Len(r) = l /\ r \in Seq(Segment)
    BY <1>1, <1>4 DEF n
  <2>2. \A i \in 1..l : m + i - 1 \in 1..n /\ r[i] = s[m + i - 1]
    BY <1>1, <1>4 DEF n
  <2>3. r = [i \in 1..Len(r) |-> r[i]]
    BY <2>1
  <2> HIDE DEF r, l
  <2> QED
    BY <1>4, <2>1, <2>2, <2>3
<1> HIDE DEF r, l
<1>6. r \in Seq(Segment) /\ DOMAIN r = 1..l /\ Range(r) \subseteq Segment
  <2>1. r \in [1..l -> Segment]
    BY <1>1, <1>5
  <2> QED
    BY <1>4, <2>1 DEF Range
<1>7. IsInjective(r)
  <2> SUFFICES ASSUME NEW i \in 1..l, NEW j \in 1..l, r[i] = r[j] PROVE i = j
    BY <1>6 DEF IsInjective
  <2>1. s[m + i - 1] = s[m + j - 1]
    BY <1>5
  <2>2. m + i - 1 = m + j - 1
    BY <1>1, <1>5, <2>1 DEF Distinct, IsInjective
  <2> QED
    BY <1>4, <2>2
<1> QED
  BY <1>3, <1>6, <1>7 DEF Newest, Distinct, r, m, n

\* The rows of segments, apart from the rest.
WithRows(t, x) ==
  [broadcasts |-> t.broadcasts, peers |-> t.peers, segments |-> x, stats |-> t.stats, retired |-> t.retired]

LEMMA DeleteRow ==
  ASSUME NEW t, NEW x, NEW b, NEW p, NEW a
  PROVE  Effect(WithRows(t, x), Stmt("deletePeerSegment", <<b, p>>, a)) =
           WithRows(t, Less(x, {<<b, p, a>>}))
<1>1. ASSUME NEW u, NEW k
      PROVE  Effect(u, Stmt("deletePeerSegment", k, a)) =
               [u EXCEPT !.segments = Less(u.segments, {<<k[1], k[2], a>>})]
  BY DEF Effect, Stmt
<1>2. Effect(WithRows(t, x), Stmt("deletePeerSegment", <<b, p>>, a)) =
        [WithRows(t, x) EXCEPT !.segments = Less(WithRows(t, x).segments, {<<b, p, a>>})]
  BY <1>1
<1> QED
  BY <1>2 DEF WithRows

LEMMA InsertRow ==
  ASSUME NEW t, NEW x, NEW b, NEW p, NEW a
  PROVE  Effect(WithRows(t, x), Stmt("insertPeerSegment", <<b, p>>, a)) =
           WithRows(t, Append(x, <<b, p, a>>))
<1>1. ASSUME NEW u, NEW k
      PROVE  Effect(u, Stmt("insertPeerSegment", k, a)) =
               [u EXCEPT !.segments = Append(u.segments, <<k[1], k[2], a>>)]
  BY DEF Effect, Stmt
<1>2. Effect(WithRows(t, x), Stmt("insertPeerSegment", <<b, p>>, a)) =
        [WithRows(t, x) EXCEPT !.segments = Append(WithRows(t, x).segments, <<b, p, a>>)]
  BY <1>1
<1> QED
  BY <1>2 DEF WithRows

OwnRows(b, p, S) == {<<b, p, s>> : s \in S}

\* Tables with these rows of segments, and runs that change no others.
HasRows(t, u, S) == \E y \in Seq(Rows) : IsInjective(y) /\ u = WithRows(t, y) /\ Range(y) = S

Statements(run, do, b, p, segments) ==
  \A i \in 1..Len(segments) : run[i + 1] = Effect(run[i], Stmt(do, <<b, p>>, segments[i]))

LEMMA RowsGo ==
  ASSUME NEW t, NEW x \in Seq(Rows), IsInjective(x), NEW b, NEW p, NEW goes, Distinct(goes),
         NEW run, run[1] = WithRows(t, x), Statements(run, "deletePeerSegment", b, p, goes)
  PROVE  HasRows(t, run[Len(goes) + 1], Range(x) \ OwnRows(b, p, Range(goes)))
<1> DEFINE G(j) == {goes[i] : i \in 1..j}
           Good(j, y) == /\ IsInjective(y) /\ run[j + 1] = WithRows(t, y)
                         /\ Range(y) = Range(x) \ OwnRows(b, p, G(j))
           N == {j \in 0..Len(goes) : \E y \in Seq(Rows) : Good(j, y)}
<1>0. Len(goes) \in Nat /\ DOMAIN goes = 1..Len(goes)
  BY DEF Distinct
<1>1. 0 \in N
  <2>1. OwnRows(b, p, G(0)) = {}
    BY DEF OwnRows
  <2>2. Good(0, x)
    BY <2>1
  <2> HIDE DEF Good
  <2> QED
    BY <1>0, <2>2
<1>2. ASSUME NEW j \in N, j \in Nat, j < Len(goes) PROVE j + 1 \in N
  <2>1. PICK y \in Seq(Rows) : Good(j, y)
    BY <1>2
  <2> DEFINE a == goes[j + 1]
             z == Less(y, {<<b, p, a>>})
  <2>2. z \in Seq(Rows) /\ IsInjective(z) /\ Range(z) = Range(y) \ {<<b, p, a>>}
    <3>1. IsInjective(y)
      BY <2>1
    <3>2. \A T : /\ Less(y, T) \in Seq(Rows) /\ Range(Less(y, T)) = Range(y) \ T
                 /\ IsInjective(y) => IsInjective(Less(y, T))
      BY LessKept
    <3> DEFINE gone == {<<b, p, a>>}
    <3> HIDE DEF gone
    <3>3. Less(y, gone) \in Seq(Rows) /\ IsInjective(Less(y, gone)) /\ Range(Less(y, gone)) = Range(y) \ gone
      BY <3>1, <3>2, Zenon
    <3> QED
      BY <3>3 DEF gone
  <2>3. run[(j + 1) + 1] = WithRows(t, z)
    <3>1. j + 1 \in 1..Len(goes)
      BY <1>0, <1>2
    <3>2. run[(j + 1) + 1] = Effect(run[j + 1], Stmt("deletePeerSegment", <<b, p>>, a))
      BY <3>1 DEF Statements
    <3> QED
      <4>1. run[j + 1] = WithRows(t, y)
        BY <2>1
      <4> HIDE DEF a
      <4> QED
        BY <3>2, <4>1, DeleteRow
  <2>4. G(j + 1) = G(j) \cup {a}
    BY <1>2
  <2> HIDE DEF a, G
  <2>5. OwnRows(b, p, G(j + 1)) = OwnRows(b, p, G(j)) \cup {<<b, p, a>>}
    BY <2>4 DEF OwnRows
  <2> HIDE DEF z
  <2>6. Good(j + 1, z)
    BY <2>1, <2>2, <2>3, <2>5
  <2> HIDE DEF Good
  <2> QED
    BY <1>0, <1>2, <2>2, <2>6
<1>3. Len(goes) \in N
  <2> HIDE DEF N
  <2> QED
    BY <1>0, <1>1, <1>2, Counted
<1>4. G(Len(goes)) = Range(goes)
  BY <1>0 DEF Range
<1> HIDE DEF G
<1> QED
  BY <1>3, <1>4 DEF HasRows

LEMMA RowsCome ==
  ASSUME NEW t, NEW x \in Seq(Rows), IsInjective(x), NEW b \in Broadcast, NEW p \in Peer,
         NEW comes, Distinct(comes), Range(x) \cap OwnRows(b, p, Range(comes)) = {},
         NEW run, run[1] = WithRows(t, x), Statements(run, "insertPeerSegment", b, p, comes)
  PROVE  HasRows(t, run[Len(comes) + 1], Range(x) \cup OwnRows(b, p, Range(comes)))
<1> DEFINE G(j) == {comes[i] : i \in 1..j}
           Good(j, y) == /\ IsInjective(y) /\ run[j + 1] = WithRows(t, y)
                         /\ Range(y) = Range(x) \cup OwnRows(b, p, G(j))
           N == {j \in 0..Len(comes) : \E y \in Seq(Rows) : Good(j, y)}
<1>0. Len(comes) \in Nat /\ DOMAIN comes = 1..Len(comes) /\ \A i \in 1..Len(comes) : comes[i] \in Segment
  BY DEF Distinct
<1>1. 0 \in N
  <2>1. OwnRows(b, p, G(0)) = {}
    BY DEF OwnRows
  <2>2. Good(0, x)
    BY <2>1
  <2> HIDE DEF Good
  <2> QED
    BY <1>0, <2>2
<1>2. ASSUME NEW j \in N, j \in Nat, j < Len(comes) PROVE j + 1 \in N
  <2>1. PICK y \in Seq(Rows) : Good(j, y)
    BY <1>2
  <2> DEFINE a == comes[j + 1]
             row == <<b, p, a>>
             z == Append(y, row)
  <2>2. j + 1 \in 1..Len(comes) /\ a \in Segment /\ a \in Range(comes)
    BY <1>0, <1>2 DEF Range
  <2>3. a \notin G(j)
    <3> SUFFICES ASSUME NEW i \in 1..j, comes[i] = comes[j + 1] PROVE FALSE
      OBVIOUS
    <3>1. i \in DOMAIN comes /\ j + 1 \in DOMAIN comes /\ i # j + 1
      BY <1>0, <1>2, <2>2
    <3> QED
      BY <3>1 DEF Distinct, IsInjective
  <2>4. row \notin Range(y)
    BY <2>1, <2>2, <2>3 DEF OwnRows
  <2>5. row \in Rows
    BY <2>2 DEF Rows
  <2> HIDE DEF row
  <2>6. /\ z \in Seq(Rows) /\ DOMAIN z = 1..(Len(y) + 1) /\ DOMAIN y = 1..Len(y) /\ Len(y) \in Nat
        /\ z[Len(y) + 1] = row /\ \A i \in 1..Len(y) : z[i] = y[i]
    BY <2>5
  <2> HIDE DEF z
  <2>7. Range(z) = Range(y) \cup {row}
    <3>1. \A i \in DOMAIN z : i \in DOMAIN y \/ i = Len(y) + 1
      BY <2>6
    <3>2. Range(z) \subseteq Range(y) \cup {row}
      BY <2>6, <3>1 DEF Range
    <3>3. Range(y) \cup {row} \subseteq Range(z)
      BY <2>6 DEF Range
    <3> QED
      BY <3>2, <3>3
  <2>8. IsInjective(z)
    <3>1. IsInjective(y) /\ \A i \in 1..Len(y) : y[i] # row
      BY <2>1, <2>4, <2>6 DEF Range
    <3> QED
      BY <2>6, <3>1 DEF IsInjective
  <2>9. run[(j + 1) + 1] = WithRows(t, z)
    <3>1. run[(j + 1) + 1] = Effect(run[j + 1], Stmt("insertPeerSegment", <<b, p>>, a))
      BY <2>2 DEF Statements
    <3> QED
      BY <2>1, <3>1, InsertRow DEF z, row
  <2>10. G(j + 1) = G(j) \cup {a}
    BY <1>2
  <2> HIDE DEF a, G
  <2>11. OwnRows(b, p, G(j + 1)) = OwnRows(b, p, G(j)) \cup {row}
    BY <2>10 DEF OwnRows, row
  <2>12. Good(j + 1, z)
    BY <2>1, <2>7, <2>8, <2>9, <2>11
  <2> HIDE DEF Good
  <2> QED
    BY <1>0, <1>2, <2>6, <2>12
<1>3. Len(comes) \in N
  <2> HIDE DEF N
  <2> QED
    BY <1>0, <1>1, <1>2, Counted
<1>4. G(Len(comes)) = Range(comes)
  BY <1>0 DEF Range
<1> HIDE DEF G
<1> QED
  BY <1>3, <1>4 DEF HasRows

\* The statements of an inventory.
Rewriting(b, p, goes, comes) ==
  [i \in DOMAIN goes |-> Stmt("deletePeerSegment", <<b, p>>, goes[i])]
    \o [i \in DOMAIN comes |-> Stmt("insertPeerSegment", <<b, p>>, comes[i])]
    \o <<Stmt("updatePeerLastSeen", <<b, p>>, 0)>>

LEMMA RewritingParts ==
  ASSUME NEW b, NEW p, NEW goes, NEW comes, Distinct(goes), Distinct(comes)
  PROVE  LET s == Rewriting(b, p, goes, comes)
             g == Len(goes)
             c == Len(comes)
         IN  /\ g \in Nat /\ c \in Nat /\ Len(s) = g + c + 1 /\ IsScript(s)
             /\ \A i \in 1..g : s[i] = Stmt("deletePeerSegment", <<b, p>>, goes[i])
             /\ \A i \in 1..c : s[g + i] = Stmt("insertPeerSegment", <<b, p>>, comes[i])
             /\ s[g + c + 1] = Stmt("updatePeerLastSeen", <<b, p>>, 0)
<1> DEFINE g == Len(goes)
           c == Len(comes)
           D(i) == Stmt("deletePeerSegment", <<b, p>>, goes[i])
           I(i) == Stmt("insertPeerSegment", <<b, p>>, comes[i])
           last == Stmt("updatePeerLastSeen", <<b, p>>, 0)
           X == {D(i) : i \in 1..g} \cup {I(i) : i \in 1..c} \cup {last}
           r1 == [i \in 1..g |-> D(i)]
           r2 == [i \in 1..c |-> I(i)]
<1>1. g \in Nat /\ c \in Nat /\ DOMAIN goes = 1..g /\ DOMAIN comes = 1..c
  BY DEF Distinct
<1>2. r1 \in Seq(X) /\ Len(r1) = g /\ \A i \in 1..g : r1[i] = D(i)
  <2> HIDE DEF D, g
  <2> QED
    BY <1>1
<1>3. r2 \in Seq(X) /\ Len(r2) = c /\ \A i \in 1..c : r2[i] = I(i)
  <2> HIDE DEF I, c
  <2> QED
    BY <1>1
<1>4. last \in X /\ <<last>> \in Seq(X) /\ Len(<<last>>) = 1 /\ <<last>>[1] = last
  <2>1. last \in X
    OBVIOUS
  <2> HIDE DEF X, last
  <2> QED
    BY <2>1
<1>5. Rewriting(b, p, goes, comes) = r1 \o r2 \o <<last>>
  BY <1>1 DEF Rewriting
<1> HIDE DEF r1, r2, last, X, g, c, D, I
<1> DEFINE r == r1 \o r2
           s == r \o <<last>>
<1>6. /\ r \in Seq(X) /\ Len(r) = g + c
      /\ \A i \in 1..g : r[i] = D(i)
      /\ \A i \in 1..c : r[g + i] = I(i)
  BY <1>1, <1>2, <1>3
<1> HIDE DEF r
<1>7. /\ s \in Seq(X) /\ Len(s) = g + c + 1 /\ s[g + c + 1] = last
      /\ \A i \in 1..(g + c) : s[i] = r[i]
  BY <1>1, <1>4, <1>6
<1> HIDE DEF s
<1>8. /\ \A i \in 1..g : s[i] = D(i)
      /\ \A i \in 1..c : s[g + i] = I(i)
  <2>1. \A i \in 1..g : i \in 1..(g + c)
    BY <1>1
  <2>2. \A i \in 1..c : g + i \in 1..(g + c)
    BY <1>1
  <2> QED
    BY <1>6, <1>7, <2>1, <2>2
<1>9. IsScript(s)
  BY <1>7 DEF IsScript
<1>10. s = Rewriting(b, p, goes, comes)
  BY <1>5 DEF s, r
<1> QED
  BY <1>1, <1>7, <1>8, <1>9, <1>10 DEF g, c, D, I, last

LEMMA InventoryDone ==
  ASSUME NEW t, Sound(t), NEW b, NEW p, <<b, p>> \in DOMAIN t.peers, NEW next, Distinct(next),
         Store!InventoryFits(Range(next))
  PROVE  LET existing == SegmentsOf(t, b, p)
         IN  Accomplishes(t, Rewriting(b, p, Less(existing, Range(next)), Less(next, Range(existing))))
<1> DEFINE existing == SegmentsOf(t, b, p)
           goes == Less(existing, Range(next))
           comes == Less(next, Range(existing))
           s == Rewriting(b, p, goes, comes)
           g == Len(goes)
           c == Len(comes)
<1>1. b \in t.broadcasts /\ b \in Broadcast /\ p \in Peer /\ p \in PeersOf(t, b)
  BY Viewed
<1>2. Distinct(existing) /\ Range(existing) = Held(t, b, p)
  BY <1>1, SegmentsHeld DEF Distinct
<1> HIDE DEF existing
<1>3. /\ Distinct(goes) /\ Range(goes) = Held(t, b, p) \ Range(next)
      /\ Distinct(comes) /\ Range(comes) = Range(next) \ Held(t, b, p)
  BY <1>2, DistinctLess
<1> HIDE DEF goes, comes
<1>4. /\ g \in Nat /\ c \in Nat /\ Len(s) = g + c + 1 /\ IsScript(s)
      /\ \A i \in 1..g : s[i] = Stmt("deletePeerSegment", <<b, p>>, goes[i])
      /\ \A i \in 1..c : s[g + i] = Stmt("insertPeerSegment", <<b, p>>, comes[i])
      /\ s[g + c + 1] = Stmt("updatePeerLastSeen", <<b, p>>, 0)
  BY <1>3, RewritingParts
<1> HIDE DEF s, g, c
<1>5. PICK run : Runs(run, t, s)
  BY <1>4, RunExists
<1>6. run[1] = WithRows(t, t.segments)
  BY <1>5 DEF Runs, Sound, WithRows
<1>7. PICK x \in Seq(Rows) :
        /\ IsInjective(x) /\ run[g + 1] = WithRows(t, x)
        /\ Range(x) = Range(t.segments) \ OwnRows(b, p, Range(goes))
  <2>1. t.segments \in Seq(Rows) /\ IsInjective(t.segments)
    BY DEF Sound
  <2>2. ASSUME NEW i \in 1..g PROVE run[i + 1] = Effect(run[i], Stmt("deletePeerSegment", <<b, p>>, goes[i]))
    <3>1. i \in 1..Len(s)
      BY <1>4
    <3> QED
      BY <1>4, <1>5, <3>1 DEF Runs
  <2>3. Statements(run, "deletePeerSegment", b, p, goes)
    BY <2>2 DEF g, Statements
  <2>4. HasRows(t, run[Len(goes) + 1], Range(t.segments) \ OwnRows(b, p, Range(goes)))
    BY <1>3, <1>6, <2>1, <2>3, RowsGo
  <2> QED
    BY <2>4 DEF g, HasRows
<1>8. PICK y \in Seq(Rows) :
        /\ IsInjective(y) /\ run[g + c + 1] = WithRows(t, y)
        /\ Range(y) = Range(x) \cup OwnRows(b, p, Range(comes))
  <2> DEFINE later == [i \in 1..(c + 1) |-> run[g + i]]
  <2>1. later[1] = WithRows(t, x)
    BY <1>4, <1>7
  <2>2. ASSUME NEW i \in 1..c PROVE later[i + 1] = Effect(later[i], Stmt("insertPeerSegment", <<b, p>>, comes[i]))
    <3>1. g + i \in 1..Len(s) /\ i + 1 \in 1..(c + 1) /\ i \in 1..(c + 1) /\ g + (i + 1) = (g + i) + 1
      BY <1>4
    <3>2. run[(g + i) + 1] = Effect(run[g + i], s[g + i])
      BY <1>5, <3>1 DEF Runs
    <3>3. later[i + 1] = run[(g + i) + 1] /\ later[i] = run[g + i]
      BY <3>1
    <3> HIDE DEF later
    <3> QED
      BY <1>4, <3>2, <3>3
  <2>3. later[c + 1] = run[g + c + 1]
    BY <1>4
  <2>4. Range(x) \cap OwnRows(b, p, Range(comes)) = {}
    <3> SUFFICES ASSUME NEW a \in Range(comes), <<b, p, a>> \in Range(x) PROVE FALSE
      BY DEF OwnRows
    <3>1. a \in Segment
      BY <1>3 DEF Distinct, Range
    <3>2. <<b, p, a>> \in Range(t.segments)
      BY <1>7
    <3> QED
      BY <1>3, <3>1, <3>2 DEF Held
  <2> HIDE DEF later
  <2>5. Statements(later, "insertPeerSegment", b, p, comes)
    BY <2>2 DEF c, Statements
  <2>6. HasRows(t, later[Len(comes) + 1], Range(x) \cup OwnRows(b, p, Range(comes)))
    BY <1>1, <1>3, <1>7, <2>1, <2>4, <2>5, RowsCome
  <2> QED
    BY <2>3, <2>6 DEF c, HasRows
<1> DEFINE u == run[g + c + 1]
           v == run[g + c + 2]
<1>9. u = WithRows(t, y)
  BY <1>8
<1>10. v = Effect(u, Stmt("updatePeerLastSeen", <<b, p>>, 0))
  <2>1. g + c + 1 \in 1..Len(s) /\ (g + c + 1) + 1 = g + c + 2
    BY <1>4
  <2> QED
    BY <1>4, <1>5, <2>1 DEF Runs
<1> HIDE DEF u, v
<1>11. Range(y) = (Range(t.segments) \ OwnRows(b, p, Range(goes))) \cup OwnRows(b, p, Range(comes))
  BY <1>7, <1>8
<1>12. /\ u.broadcasts = t.broadcasts /\ u.peers = t.peers /\ u.segments = y
       /\ u.stats = t.stats /\ u.retired = t.retired
       /\ u = [broadcasts |-> u.broadcasts, peers |-> u.peers, segments |-> u.segments,
               stats |-> u.stats, retired |-> u.retired]
  BY <1>9 DEF WithRows
<1>13. OnlyRow(t, u, b, p)
  <2>1. \A r \in Range(y) : <<r[1], r[2]>> \in DOMAIN t.peers
    <3> SUFFICES ASSUME NEW r \in Range(y) PROVE <<r[1], r[2]>> \in DOMAIN t.peers
      OBVIOUS
    <3>1. CASE r \in Range(t.segments)
      BY <3>1 DEF Sound
    <3>2. CASE r \in OwnRows(b, p, Range(comes))
      BY <3>2 DEF OwnRows
    <3> QED
      BY <1>11, <3>1, <3>2
  <2>2. Sound(u)
    BY <1>8, <1>12, <2>1 DEF Sound
  <2>3. ASSUME NEW cc \in t.broadcasts, NEW r \in PeersOf(t, cc), <<cc, r>> # <<b, p>>
        PROVE  Row(u, cc, r) = Row(t, cc, r)
    <3>1. \A a \in Segment : <<cc, r, a>> \in Range(y) <=> <<cc, r, a>> \in Range(t.segments)
      BY <1>11, <2>3 DEF OwnRows
    <3>2. Held(u, cc, r) = Held(t, cc, r)
      BY <1>12, <3>1 DEF Held
    <3>3. TrafficOf(u, <<cc, r>>) = TrafficOf(t, <<cc, r>>)
      BY <1>12 DEF TrafficOf
    <3> QED
      BY <1>12, <3>2, <3>3 DEF Row
  <2> QED
    BY <1>12, <2>2, <2>3 DEF OnlyRow
<1>14. Held(u, b, p) = Range(next)
  <2>1. Range(next) \subseteq Segment
    BY DEF Distinct, Range
  <2>2. \A a \in Segment : <<b, p, a>> \in Range(y) <=> a \in Range(next)
    BY <1>3, <1>11 DEF OwnRows, Held
  <2> QED
    BY <1>12, <2>1, <2>2 DEF Held
<1>15. Sound(u) /\ <<b, p>> \in DOMAIN u.peers
  BY <1>13 DEF OnlyRow
<1>16. OnlyRow(u, v, b, p) /\ Row(v, b, p) = Seen(Row(u, b, p))
  BY <1>10, <1>15, LastSeen
<1>17. Row(v, b, p) = Holding(Row(t, b, p), Range(next))
  <2>1. Row(u, b, p) = [segments |-> Range(next), traffic |-> TrafficOf(t, <<b, p>>),
                        quality |-> t.peers[<<b, p>>].quality, seen |-> t.peers[<<b, p>>].seen]
    BY <1>12, <1>14 DEF Row, TrafficOf
  <2> QED
    BY <1>16, <2>1, SeenRow, RowFields
<1>18. OnlyRow(t, v, b, p)
  BY <1>13, <1>16, OnlyRowGoesOn
<1>19. /\ Sound(v) /\ View(t)[b].peers[p] = Row(t, b, p)
       /\ Rewrites(View(t), View(v), b, p, Row(v, b, p))
  BY <1>18, RowRewritten
<1>20. Inventories(View(t), View(v))
  <2>1. Range(next) \in SUBSET Segment
    BY DEF Distinct, Range
  <2>2. View(t)[b].peers[p].segments \subseteq Segment
    BY <1>19 DEF Row, Held
  <2> QED
    BY <1>17, <1>19, <2>1, <2>2 DEF Inventories
<1>21. Len(s) + 1 = g + c + 2
  BY <1>4
<1> QED
  BY <1>4, <1>5, <1>19, <1>20, <1>21 DEF Accomplishes, Outcome, v, s, goes, comes, existing

-----------------------------------------------------------------------------
(* Sweeps.                                                                  *)

\* The traffic of one more peer.
LEMMA CarriedMore ==
  ASSUME NEW listed, NEW T, IsFiniteSet(T), NEW p, p \notin T, NEW n \in Nat,
         listed.peers[p].traffic = n, \A q \in T : listed.peers[q].traffic \in Nat
  PROVE  /\ Store!Carried(listed, T) \in Nat
         /\ Store!Carried(listed, T \cup {p}) = Store!Carried(listed, T) + n
<1> DEFINE Units(q) == {q} \X (1..listed.peers[q].traffic)
           f == [q \in T |-> Units(q)]
           S == {Units(q) : q \in T}
           more == {Units(q) : q \in T \cup {p}}
<1>1. ASSUME NEW q \in T PROVE IsFiniteSet(Units(q))
  <2> DEFINE m == listed.peers[q].traffic
  <2>1. m \in Nat
    OBVIOUS
  <2> HIDE DEF m
  <2>2. IsFiniteSet(1..m)
    BY <2>1, FS_Interval
  <2>3. IsFiniteSet({q})
    BY FS_Singleton
  <2>4. IsFiniteSet({q} \X (1..m))
    BY <2>2, <2>3, FS_Product
  <2> QED
    BY <2>4 DEF m
<1>2. Units(p) = {p} \X (1..n) /\ IsFiniteSet(Units(p)) /\ Cardinality(Units(p)) = n
  <2>1. IsFiniteSet(1..n) /\ Cardinality(1..n) = IF 1 > n THEN 0 ELSE n - 1 + 1
    BY FS_Interval
  <2>2. Cardinality(1..n) = n
    BY <2>1
  <2>3. IsFiniteSet({p}) /\ Cardinality({p}) = 1
    BY FS_Singleton
  <2>4. IsFiniteSet({p} \X (1..n))
    BY <2>1, <2>3, FS_Product
  <2>6. Cardinality({p} \X (1..n)) = 1 * n
    <3> DEFINE a == {p}
               c == 1..n
    <3>1. IsFiniteSet(a) /\ Cardinality(a) = 1 /\ IsFiniteSet(c) /\ Cardinality(c) = n
      BY <2>1, <2>2, <2>3
    <3> HIDE DEF a, c
    <3>2. Cardinality(a \X c) = Cardinality(a) * Cardinality(c)
      BY <3>1, FS_Product
    <3>3. Cardinality(a \X c) = 1 * n
      BY <3>1, <3>2
    <3> QED
      BY <3>3 DEF a, c
  <2>5. 1 * n = n
    OBVIOUS
  <2> QED
    BY <2>4, <2>5, <2>6
<1>3. IsFiniteSet(UNION S)
  <2>1. f \in Surjection(T, S)
    <3> HIDE DEF Units
    <3> QED
      BY DEF Surjection
  <2>2. IsFiniteSet(S)
    <3> HIDE DEF f, S
    <3> QED
      BY <2>1, FS_Surjection
  <2> HIDE DEF Units
  <2>3. \A x \in S : IsFiniteSet(x)
    BY <1>1
  <2> HIDE DEF S
  <2> QED
    BY <2>2, <2>3, FS_UNION
<1>4. UNION more = (UNION S) \cup Units(p)
  <2> HIDE DEF Units
  <2>1. more = S \cup {Units(p)}
    OBVIOUS
  <2> HIDE DEF more, S
  <2> QED
    BY <2>1
<1>5. (UNION S) \cap Units(p) = {}
  <2> SUFFICES ASSUME NEW q \in T, NEW x \in Units(q), x \in Units(p) PROVE FALSE
    <3> HIDE DEF Units
    <3> QED
      OBVIOUS
  <2>1. x[1] = q /\ x[1] = p
    OBVIOUS
  <2> QED
    BY <2>1
<1>6. Store!Carried(listed, T) = Cardinality(UNION S) /\ Store!Carried(listed, T \cup {p}) = Cardinality(UNION more)
  BY SameCardinality DEF Store!Carried
<1> HIDE DEF S, more, Units
<1>7. Cardinality(UNION S) \in Nat
  BY <1>3, FS_CardinalityType
<1>8. Cardinality(UNION more) = Cardinality(UNION S) + Cardinality(Units(p)) - Cardinality({})
  <2> DEFINE a == UNION S
             b == Units(p)
  <2>1. IsFiniteSet(a) /\ IsFiniteSet(b) /\ a \cap b = {} /\ UNION more = a \cup b
    BY <1>2, <1>3, <1>4, <1>5
  <2> HIDE DEF a, b
  <2>2. Cardinality(a \cup b) = Cardinality(a) + Cardinality(b) - Cardinality(a \cap b)
    BY <2>1, FS_Union
  <2> QED
    BY <2>1, <2>2 DEF a, b
<1>9. Cardinality({}) = 0
  BY FS_EmptySet
<1> QED
  BY <1>2, <1>6, <1>7, <1>8, <1>9

LEMMA CarriedNone == ASSUME NEW listed PROVE Store!Carried(listed, {}) = 0
<1>1. UNION {{q} \X (1..listed.peers[q].traffic) : q \in {}} = {}
  OBVIOUS
<1> QED
  BY <1>1, FS_EmptySet, SameCardinality DEF Store!Carried

\* A peer leaves after the others.
LEMMA RetiredMore ==
  ASSUME NEW f, NEW r \in Nat, NEW T, IsFiniteSet(T), NEW p, p \notin T, p \in DOMAIN f, f[p].traffic \in Nat,
         \A q \in T : f[q].traffic \in Nat
  PROVE  LET listed == [peers |-> f, retired |-> r]
         IN  Store!Retired(Store!Retired(listed, T), {p}) = Store!Retired(listed, T \cup {p})
<1> DEFINE listed == [peers |-> f, retired |-> r]
           n == f[p].traffic
           c == Store!Carried(listed, T)
           g == Store!Drop(f, T)
           h == Store!Drop(f, T \cup {p})
           less == [peers |-> g, retired |-> r + c]
<1>1. listed.peers = f /\ listed.retired = r
  OBVIOUS
<1> HIDE DEF listed, n
<1>2. n \in Nat /\ listed.peers[p].traffic = n /\ \A q \in T : listed.peers[q].traffic \in Nat
  BY <1>1 DEF n
<1>3. c \in Nat /\ Store!Carried(listed, T \cup {p}) = c + n
  BY <1>2, CarriedMore
<1> HIDE DEF c
<1>4. g[p] = f[p] /\ Store!Drop(g, {p}) = h
  BY DEF Store!Drop
<1>5. Store!Retired(listed, T) = less
  BY <1>1 DEF Store!Retired, c
<1> HIDE DEF g, h
<1>6. less.peers = g /\ less.retired = r + c
  OBVIOUS
<1> HIDE DEF less
<1>7. Store!Carried(less, {p}) = n
  <2>1. less.peers[p].traffic = n
    BY <1>4, <1>6 DEF n
  <2> QED
    BY <1>2, <2>1, CarriedOne
<1>8. Store!Retired(less, {p}) = [peers |-> h, retired |-> (r + c) + n]
  BY <1>4, <1>6, <1>7 DEF Store!Retired
<1>9. Store!Retired(listed, T \cup {p}) = [peers |-> h, retired |-> r + (c + n)]
  BY <1>1, <1>3 DEF Store!Retired, h
<1>10. (r + c) + n = r + (c + n)
  BY <1>2, <1>3
<1> QED
  BY <1>5, <1>8, <1>9, <1>10 DEF listed

\* The peers of a broadcast among some rows.
Of(S, c) == {p \in Peer : <<c, p>> \in S}

LEMMA FiniteOf == ASSUME NEW S, IsFiniteSet(S), NEW c PROVE IsFiniteSet(Of(S, c))
<1> DEFINE D == {x \in S : \E p \in Peer : x = <<c, p>>}
           T == Of(S, c)
           f == [x \in D |-> x[2]]
<1>1. IsFiniteSet(D)
  BY FS_Subset
<1>2. f \in Surjection(D, T)
  <2>1. f \in [D -> T]
    BY DEF Of
  <2>2. ASSUME NEW p \in T PROVE \E x \in D : f[x] = p
    <3>1. <<c, p>> \in D /\ <<c, p>>[2] = p
      BY DEF Of
    <3> QED
      BY <3>1
  <2> HIDE DEF f, D, T
  <2> QED
    BY <2>1, <2>2 DEF Surjection
<1> HIDE DEF f, D, T
<1>3. IsFiniteSet(T)
  BY <1>1, <1>2, FS_Surjection
<1> QED
  BY <1>3 DEF T

\* retirePeer of some peers, one after the other, as one step of the tables.
Swept(t, w, S) ==
  /\ Sound(w) /\ w.broadcasts = t.broadcasts
  /\ DOMAIN w.peers = DOMAIN t.peers \ S
  /\ \A x \in DOMAIN w.peers : w.peers[x] = t.peers[x]
  /\ \A c \in t.broadcasts : Listed(w, c) = Store!Retired(Listed(t, c), Of(S, c))

LEMMA CountsAreNat ==
  ASSUME NEW t, Sound(t)
  PROVE  /\ \A c : RetiredOf(t, c) \in Nat
         /\ \A c, q : TrafficOf(t, <<c, q>>) \in Nat
BY DEF Sound, RetiredOf, TrafficOf

LEMMA SweptNone == ASSUME NEW t, Sound(t) PROVE Swept(t, t, {})
<1>1. ASSUME NEW c PROVE Listed(t, c) = Store!Retired(Listed(t, c), Of({}, c))
  <2> DEFINE f == [q \in PeersOf(t, c) |-> Row(t, c, q)]
             r == RetiredOf(t, c)
             listed == [peers |-> f, retired |-> r]
  <2>1. r \in Nat
    BY CountsAreNat
  <2>2. Store!Drop(f, {}) = f
    BY DEF Store!Drop
  <2> HIDE DEF f, r
  <2>3. listed.peers = f /\ listed.retired = r
    OBVIOUS
  <2> HIDE DEF listed
  <2>4. Of({}, c) = {}
    BY DEF Of
  <2>5. Store!Carried(listed, {}) = 0
    BY CarriedNone
  <2>6. Store!Retired(listed, {}) = [peers |-> f, retired |-> r + 0]
    BY <2>2, <2>3, <2>5 DEF Store!Retired
  <2>7. r + 0 = r
    BY <2>1
  <2>8. Store!Retired(listed, {}) = listed
    BY <2>6, <2>7 DEF listed
  <2> QED
    BY <2>4, <2>8 DEF Listed, listed, f, r
<1> QED
  BY <1>1 DEF Swept

LEMMA SweptMore ==
  ASSUME NEW t, Sound(t), NEW w, NEW S, S \subseteq DOMAIN t.peers, Swept(t, w, S),
         NEW b, NEW p, <<b, p>> \in DOMAIN t.peers, <<b, p>> \notin S,
         NEW v, Left(w, v, b, p), Sound(v)
  PROVE  Swept(t, v, S \cup {<<b, p>>})
<1> DEFINE more == S \cup {<<b, p>>}
<1>1. v.broadcasts = t.broadcasts /\ DOMAIN v.peers = DOMAIN t.peers \ more
  BY DEF Swept, Left
<1>2. \A x \in DOMAIN v.peers : v.peers[x] = t.peers[x]
  <2>1. \A x \in DOMAIN v.peers : x \in DOMAIN w.peers
    BY DEF Left
  <2> QED
    BY <2>1 DEF Swept, Left
<1>3. ASSUME NEW c \in t.broadcasts, c # b PROVE Listed(v, c) = Store!Retired(Listed(t, c), Of(more, c))
  <2>1. Of(more, c) = Of(S, c)
    BY <1>3 DEF Of
  <2>2. Listed(v, c) = Listed(w, c)
    BY <1>3 DEF Swept, Left
  <2>3. Listed(w, c) = Store!Retired(Listed(t, c), Of(S, c))
    BY DEF Swept
  <2> QED
    BY <2>1, <2>2, <2>3
<1>4. Listed(v, b) = Store!Retired(Listed(t, b), Of(more, b))
  <2> DEFINE T == Of(S, b)
             f == [q \in PeersOf(t, b) |-> Row(t, b, q)]
             r == RetiredOf(t, b)
             listed == [peers |-> f, retired |-> r]
  <2>1. b \in t.broadcasts /\ p \in Peer /\ p \in PeersOf(t, b)
    BY Viewed
  <2>2. Of(more, b) = T \cup {p}
    BY <2>1 DEF Of
  <2>3. p \notin T /\ T \subseteq PeersOf(t, b)
    BY DEF Of, PeersOf
  <2>4. IsFiniteSet(T)
    <3>1. IsFiniteSet(S)
      BY FS_Subset DEF Sound
    <3> QED
      BY <3>1, FiniteOf
  <2>5. r \in Nat /\ \A q \in PeersOf(t, b) : f[q].traffic \in Nat
    BY CountsAreNat DEF Row
  <2>6. DOMAIN f = PeersOf(t, b)
    OBVIOUS
  <2>7. Listed(t, b) = listed
    BY DEF Listed
  <2>8. Listed(w, b) = Store!Retired(listed, T)
    BY <2>1, <2>7 DEF Swept
  <2>9. Listed(v, b) = Store!Retired(Listed(w, b), {p})
    BY DEF Left
  <2> HIDE DEF T, f, r
  <2>10. Store!Retired(Store!Retired(listed, T), {p}) = Store!Retired(listed, T \cup {p})
    BY <2>1, <2>3, <2>4, <2>5, <2>6, RetiredMore
  <2> HIDE DEF listed
  <2> QED
    BY <2>2, <2>7, <2>8, <2>9, <2>10
<1> HIDE DEF more
<1>5. \A c \in t.broadcasts : Listed(v, c) = Store!Retired(Listed(t, c), Of(more, c))
  BY <1>3, <1>4
<1>6. Swept(t, v, more)
  BY <1>1, <1>2, <1>5 DEF Swept
<1> QED
  BY <1>6 DEF more

\* SetToSeq lists a finite set, each element once.
LEMMA SetListed ==
  ASSUME NEW S, IsFiniteSet(S)
  PROVE  /\ SetToSeq(S) \in Seq(S) /\ IsInjective(SetToSeq(S))
         /\ Range(SetToSeq(S)) = S
<1> DEFINE n == Cardinality(S)
           keys == SetToSeq(S)
<1>1. n \in Nat /\ ExistsBijection(1..n, S)
  BY FS_CardinalityType
<1>2. PICK g : g \in Bijection(1..n, S)
  BY <1>1 DEF ExistsBijection
<1>3. g \in [1..n -> S] /\ IsInjective(g)
  BY <1>2 DEF Bijection, Injection, IsInjective
<1>4. keys \in [1..n -> S] /\ IsInjective(keys)
  BY <1>3 DEF SetToSeq
<1> HIDE DEF keys
<1>5. keys \in Injection(1..n, S)
  BY <1>4 DEF Injection, IsInjective
<1>6. IsFiniteSet(1..n) /\ Cardinality(1..n) = n
  <2>1. IsFiniteSet(1..n) /\ Cardinality(1..n) = IF 1 > n THEN 0 ELSE n - 1 + 1
    BY <1>1, FS_Interval
  <2> QED
    BY <1>1, <2>1
<1> DEFINE D == 1..n
<1>7. keys \in Surjection(D, S)
  <2>1. keys \in Injection(D, S) /\ Cardinality(D) = Cardinality(S)
    BY <1>5, <1>6
  <2> HIDE DEF D
  <2> QED
    BY <2>1, FS_Injection
<1>8. Range(keys) = S
  BY <1>4, <1>7 DEF Surjection, Range
<1>9. keys \in Seq(S)
  BY <1>1, <1>4
<1> QED
  BY <1>4, <1>8, <1>9 DEF keys

\* The statements of retirePeer for the peer after the first j.
LEMMA RetirementOf ==
  ASSUME NEW keys, NEW N \in Nat, Len(keys) = N, NEW j \in 0..N, j < N
  PROVE  LET s == Retirements(keys)
             k == keys[j + 1]
         IN  /\ s[4 * j + 1] = Stmt("accumulateRetiredStats", k, 0)
             /\ s[4 * j + 2] = Stmt("deletePeerStats", k, 0)
             /\ s[4 * j + 3] = Stmt("deletePeerSegments", k, 0)
             /\ s[4 * j + 4] = Stmt("deletePeer", k, 0)
<1> DEFINE s == Retirements(keys)
           k == keys[j + 1]
<1>1. ASSUME NEW i \in 1..(4 * N) PROVE s[i] = Retire(keys[(i + 3) \div 4])[((i + 3) % 4) + 1]
  BY DEF Retirements
<1>2. /\ 4 * j + 1 \in 1..(4 * N) /\ 4 * j + 2 \in 1..(4 * N)
      /\ 4 * j + 3 \in 1..(4 * N) /\ 4 * j + 4 \in 1..(4 * N)
  OBVIOUS
<1>3. /\ ((4 * j + 1) + 3) \div 4 = j + 1 /\ ((4 * j + 1) + 3) % 4 = 0
      /\ ((4 * j + 2) + 3) \div 4 = j + 1 /\ ((4 * j + 2) + 3) % 4 = 1
      /\ ((4 * j + 3) + 3) \div 4 = j + 1 /\ ((4 * j + 3) + 3) % 4 = 2
      /\ ((4 * j + 4) + 3) \div 4 = j + 1 /\ ((4 * j + 4) + 3) % 4 = 3
  OBVIOUS
<1> HIDE DEF s
<1>4. /\ s[4 * j + 1] = Retire(k)[1] /\ s[4 * j + 2] = Retire(k)[2]
      /\ s[4 * j + 3] = Retire(k)[3] /\ s[4 * j + 4] = Retire(k)[4]
  <2>1. s[4 * j + 1] = Retire(k)[0 + 1]
    <3> DEFINE i == 4 * j + 1
    <3>1. i \in 1..(4 * N) /\ (i + 3) \div 4 = j + 1 /\ (i + 3) % 4 = 0
      BY <1>2, <1>3
    <3> HIDE DEF i
    <3>2. s[i] = Retire(keys[(i + 3) \div 4])[((i + 3) % 4) + 1]
      BY <1>1, <3>1
    <3> QED
      BY <3>1, <3>2 DEF i
  <2>2. s[4 * j + 2] = Retire(k)[1 + 1]
    BY <1>1, <1>2, <1>3
  <2>3. s[4 * j + 3] = Retire(k)[2 + 1]
    BY <1>1, <1>2, <1>3
  <2>4. s[4 * j + 4] = Retire(k)[3 + 1]
    BY <1>1, <1>2, <1>3
  <2> QED
    BY <2>1, <2>2, <2>3, <2>4
<1> QED
  BY <1>4 DEF Retire, s

LEMMA SweepDone ==
  ASSUME NEW t, Sound(t), NEW stale, stale = {k \in DOMAIN t.peers : ~t.peers[k].seen}
  PROVE  Accomplishes(t, Retirements(SetToSeq(stale)))
<1> DEFINE keys == SetToSeq(stale)
           N == Len(keys)
           s == Retirements(keys)
           Gone(j) == {keys[i] : i \in 1..j}
<1>1. IsFiniteSet(stale) /\ stale \subseteq DOMAIN t.peers
  BY FS_Subset DEF Sound
<1>2. keys \in Seq(stale) /\ IsInjective(keys) /\ Range(keys) = stale
  BY <1>1, SetListed
<1> HIDE DEF keys
<1>3. N \in Nat /\ DOMAIN keys = 1..N /\ \A i \in 1..N : keys[i] \in stale
  BY <1>2
<1>4. IsScript(s) /\ Len(s) = 4 * N
  <2> DEFINE X == {s[i] : i \in 1..(4 * N)}
  <2>1. 4 * N \in Nat
    BY <1>3
  <2>2. DOMAIN s = 1..(4 * N) /\ s = [i \in 1..(4 * N) |-> s[i]]
    BY DEF Retirements
  <2> HIDE DEF s
  <2>3. s \in [1..(4 * N) -> X]
    BY <2>2
  <2> HIDE DEF X
  <2>4. s \in Seq(X)
    BY <2>1, <2>3
  <2>5. Len(s) = 4 * N
    BY <2>1, <2>2
  <2> QED
    BY <2>4, <2>5 DEF IsScript
<1>5. PICK run : Runs(run, t, s)
  BY <1>4, RunExists
<1>6. run[1] = t /\ \A i \in 1..(4 * N) : run[i + 1] = Effect(run[i], s[i])
  BY <1>4, <1>5 DEF Runs
<1> DEFINE K == {j \in 0..N : Swept(t, run[4 * j + 1], Gone(j))}
<1>7. 0 \in K
  <2>1. 4 * 0 + 1 = 1 /\ Gone(0) = {}
    OBVIOUS
  <2> HIDE DEF Gone, s
  <2>2. Swept(t, run[4 * 0 + 1], Gone(0))
    <3>1. run[4 * 0 + 1] = t
      BY <1>6, <2>1
    <3>2. Swept(t, t, {})
      BY SweptNone
    <3> QED
      BY <2>1, <3>1, <3>2
  <2> QED
    BY <1>3, <2>2
<1>8. ASSUME NEW j \in K, j \in Nat, j < N PROVE j + 1 \in K
  <2> DEFINE w == run[4 * j + 1]
             v == run[4 * j + 5]
             k == keys[j + 1]
             b == k[1]
             p == k[2]
  <2>1. j + 1 \in 1..N /\ j + 1 \in 0..N /\ k \in stale
    BY <1>3, <1>8
  <2>2. k = <<b, p>> /\ k \in DOMAIN t.peers
    BY <1>1, <2>1 DEF Sound
  <2>3. k \notin Gone(j)
    <3>1. ASSUME NEW i \in 1..j PROVE keys[i] # keys[j + 1]
      <4>1. i \in 1..N /\ i # j + 1
        BY <1>3, <1>8
      <4> QED
        BY <1>2, <1>3, <2>1, <4>1 DEF IsInjective
    <3> QED
      BY <3>1
  <2>4. Gone(j) \subseteq DOMAIN t.peers
    <3>1. \A i \in 1..j : i \in 1..N
      BY <1>3, <1>8
    <3> QED
      BY <1>1, <1>3, <3>1
  <2>5. Gone(j + 1) = Gone(j) \cup {k}
    <3>1. \A i : i \in 1..(j + 1) <=> (i \in 1..j \/ i = j + 1)
      BY <1>8
    <3> QED
      BY <3>1
  <2>6. Swept(t, w, Gone(j))
    BY <1>8
  <2> HIDE DEF Gone, K, s
  <2>7. /\ run[4 * j + 2] = Effect(w, s[4 * j + 1])
        /\ run[4 * j + 3] = Effect(run[4 * j + 2], s[4 * j + 2])
        /\ run[4 * j + 4] = Effect(run[4 * j + 3], s[4 * j + 3])
        /\ v = Effect(run[4 * j + 4], s[4 * j + 4])
    <3>1. /\ 4 * j + 1 \in 1..(4 * N) /\ (4 * j + 1) + 1 = 4 * j + 2
          /\ 4 * j + 2 \in 1..(4 * N) /\ (4 * j + 2) + 1 = 4 * j + 3
          /\ 4 * j + 3 \in 1..(4 * N) /\ (4 * j + 3) + 1 = 4 * j + 4
          /\ 4 * j + 4 \in 1..(4 * N) /\ (4 * j + 4) + 1 = 4 * j + 5
      BY <1>3, <1>8
    <3> QED
      BY <1>6, <3>1
  <2>8. /\ s[4 * j + 1] = Stmt("accumulateRetiredStats", k, 0)
        /\ s[4 * j + 2] = Stmt("deletePeerStats", k, 0)
        /\ s[4 * j + 3] = Stmt("deletePeerSegments", k, 0)
        /\ s[4 * j + 4] = Stmt("deletePeer", k, 0)
    <3> HIDE DEF k
    <3> QED
      BY <1>3, <1>8, RetirementOf DEF s, k
  <2>9. /\ run[4 * j + 2] = Effect(w, Stmt("accumulateRetiredStats", k, 0))
        /\ run[4 * j + 3] = Effect(run[4 * j + 2], Stmt("deletePeerStats", k, 0))
        /\ run[4 * j + 4] = Effect(run[4 * j + 3], Stmt("deletePeerSegments", k, 0))
        /\ v = Effect(run[4 * j + 4], Stmt("deletePeer", k, 0))
    BY <2>7, <2>8
  <2>10. Sound(w) /\ <<b, p>> \in DOMAIN w.peers
    BY <2>2, <2>3, <2>6 DEF Swept
  <2> HIDE DEF w, v, k, b, p
  <2>11. Left(w, v, b, p)
    BY <2>2, <2>9, <2>10, PeerLeft
  <2>12. Sound(v)
    BY <2>11 DEF Left
  <2>13. Swept(t, v, Gone(j) \cup {<<b, p>>})
    BY <2>2, <2>3, <2>4, <2>6, <2>11, <2>12, SweptMore
  <2>14. 4 * (j + 1) + 1 = 4 * j + 5
    BY <1>8
  <2>15. Swept(t, run[4 * (j + 1) + 1], Gone(j + 1))
    BY <2>2, <2>5, <2>13, <2>14 DEF v
  <2> QED
    BY <2>1, <2>15 DEF K
<1> HIDE DEF Gone, K, s
<1>9. N \in K
  BY <1>3, <1>7, <1>8, Counted
<1> DEFINE w == run[Len(s) + 1]
<1>10. Gone(N) = stale
  BY <1>2, <1>3 DEF Gone, Range
<1>11. Swept(t, w, stale)
  BY <1>4, <1>9, <1>10 DEF K
<1> HIDE DEF w
<1>12. Sound(w)
  BY <1>11 DEF Swept
<1>13. Sweeps(View(t), View(w))
  <2>1. /\ View(t) = [c \in t.broadcasts |-> Listed(t, c)]
        /\ View(w) = [c \in t.broadcasts |-> Listed(w, c)]
    BY <1>11, <1>12, ViewOf DEF Listed, Swept
  <2>2. ASSUME NEW c \in t.broadcasts PROVE Store!Stale(Listed(t, c)) = Of(stale, c)
    BY DEF Listed, Row, Of, PeersOf, Store!Stale
  <2>3. \A c \in t.broadcasts : Listed(w, c) = Store!Retired(Listed(t, c), Store!Stale(Listed(t, c)))
    BY <1>11, <2>2 DEF Swept
  <2> QED
    BY <2>1, <2>3 DEF Sweeps
<1>14. Outcome(View(t), View(w))
  BY <1>13 DEF Outcome
<1>15. Accomplishes(t, s)
  BY <1>4, <1>5, <1>12, <1>14 DEF Accomplishes, w
<1> QED
  BY <1>15 DEF s, keys

-----------------------------------------------------------------------------
(* Time passes.                                                             *)

No == FALSE    \* as a value
Unseen(row) == [row EXCEPT !.seen = No]
AgedTables(t) == [t EXCEPT !.peers = [k \in DOMAIN t.peers |-> Unseen(t.peers[k])]]
AgedPeers(listed) == [p \in DOMAIN listed.peers |-> Unseen(listed.peers[p])]
AgedView(d) == [b \in DOMAIN d |-> [d[b] EXCEPT !.peers = AgedPeers(d[b])]]

LEMMA TablesAge ==
  ASSUME NEW t, Sound(t)
  PROVE  Sound(AgedTables(t)) /\ View(AgedTables(t)) = AgedView(View(t))
<1> DEFINE peers == [k \in DOMAIN t.peers |-> Unseen(t.peers[k])]
           u == AgedTables(t)
<1>1. u = [broadcasts |-> t.broadcasts, peers |-> peers, segments |-> t.segments,
           stats |-> t.stats, retired |-> t.retired]
  <2>1. u = [t EXCEPT !.peers = peers]
    BY DEF AgedTables
  <2> HIDE DEF u, peers
  <2> QED
    BY <2>1, Fields
<1>2. \A k \in DOMAIN t.peers : Unseen(t.peers[k]) = [quality |-> t.peers[k].quality, seen |-> No]
  BY DEF Unseen, Sound
<1>3. DOMAIN peers = DOMAIN t.peers /\ \A k \in DOMAIN t.peers : peers[k] = Unseen(t.peers[k])
  OBVIOUS
<1>3a. peers = [k \in DOMAIN peers |-> peers[k]]
  OBVIOUS
<1> HIDE DEF u, peers
<1>4. /\ u.broadcasts = t.broadcasts /\ u.peers = peers /\ u.segments = t.segments
      /\ u.stats = t.stats /\ u.retired = t.retired
  BY <1>1
<1>5. Sound(u)
  <2>1. \A k \in DOMAIN peers : peers[k] = [quality |-> peers[k].quality, seen |-> peers[k].seen]
    BY <1>2, <1>3
  <2> QED
    BY <1>1, <1>3, <1>3a, <1>4, <2>1 DEF Sound
<1>6. ASSUME NEW c \in t.broadcasts
      PROVE  Listed(u, c) = [Listed(t, c) EXCEPT !.peers = AgedPeers(Listed(t, c))]
  <2>1. PeersOf(u, c) = PeersOf(t, c)
    BY <1>3, <1>4 DEF PeersOf
  <2>2. ASSUME NEW p \in PeersOf(t, c) PROVE Row(u, c, p) = Unseen(Row(t, c, p))
    <3> DEFINE k == <<c, p>>
               s == Held(t, c, p)
               n == TrafficOf(t, k)
               q == t.peers[k].quality
               e == t.peers[k].seen
    <3>1. k \in DOMAIN t.peers
      BY DEF PeersOf
    <3>2. peers[k] = [quality |-> q, seen |-> No]
      BY <1>2, <1>3, <3>1
    <3>3. Held(u, c, p) = s /\ TrafficOf(u, k) = n
      BY <1>4 DEF Held, TrafficOf
    <3>4. Row(t, c, p) = [segments |-> s, traffic |-> n, quality |-> q, seen |-> e]
      BY DEF Row
    <3> HIDE DEF s, n, q, e, k
    <3>5. u.peers[k].quality = q /\ u.peers[k].seen = No
      BY <1>4, <3>2
    <3>6. Row(u, c, p) = [segments |-> s, traffic |-> n, quality |-> q, seen |-> No]
      BY <3>3, <3>5 DEF Row, k
    <3>7. Unseen(Row(t, c, p)) = [segments |-> s, traffic |-> n, quality |-> q, seen |-> No]
      BY <3>4 DEF Unseen
    <3> QED
      BY <3>6, <3>7
  <2> DEFINE f == [p \in PeersOf(t, c) |-> Row(t, c, p)]
             g == [p \in PeersOf(t, c) |-> Row(u, c, p)]
             r == RetiredOf(t, c)
  <2>3. Listed(t, c) = [peers |-> f, retired |-> r] /\ Listed(u, c) = [peers |-> g, retired |-> r]
    BY <1>4, <2>1 DEF Listed, RetiredOf
  <2>4. g = [p \in DOMAIN f |-> Unseen(f[p])]
    BY <2>2
  <2> HIDE DEF f, g, r
  <2>5. AgedPeers(Listed(t, c)) = g
    BY <2>3, <2>4 DEF AgedPeers
  <2> QED
    BY <2>3, <2>5
<1>7. /\ View(t) = [c \in t.broadcasts |-> Listed(t, c)]
      /\ View(u) = [c \in t.broadcasts |-> Listed(u, c)]
  BY <1>4, <1>5, ViewOf DEF Listed
<1>8. View(u) = AgedView(View(t))
  BY <1>6, <1>7 DEF AgedView
<1> QED
  BY <1>5, <1>8 DEF u

-----------------------------------------------------------------------------
(* What the store keeps true: the committed tables and those the running    *)
(* call started from are sound, and the statements the call has left turn   *)
(* what its callers saw into the outcome of an operation.                   *)

StoreInv ==
  /\ Sound(before) /\ Sound(disk) /\ IsScript(script)
  /\ script = <<>> => work = before
  /\ script # <<>> =>
       \E run : /\ Runs(run, work, script) /\ Sound(run[Len(script) + 1])
                /\ Outcome(View(before), View(run[Len(script) + 1]))

Kept == StoreInv' /\ [A!StoreNext]_(A!storeVars)

LEMMA StoreStarts == ASSUME Init PROVE StoreInv /\ A!StoreInit
<1>1. IsScript(<<>>)
  <2>1. <<>> \in Seq({})
    OBVIOUS
  <2> QED
    BY <2>1 DEF IsScript
<1>2. View(NoRows) = A!EmptyDb
  BY DEF View, NoRows, A!EmptyDb
<1> QED
  BY <1>1, <1>2, SoundEmpty DEF Init, StoreInv, A!StoreInit

\* Nothing happens to the callers.
LEMMA NothingSeen ==
  ASSUME UNCHANGED <<disk, before>>
  PROVE  [A!StoreNext]_(A!storeVars)
<1>1. View(before)' = View(before) /\ View(disk)' = View(disk)
  OBVIOUS
<1> QED
  BY <1>1 DEF A!storeVars

LEMMA CallKeeps ==
  ASSUME StoreInv, script = <<>>, NEW s, Call(s), s = <<>> \/ Accomplishes(before, s)
  PROVE  Kept
<1>1. script' = s /\ UNCHANGED <<disk, work, before>> /\ work = before
  BY DEF Call, StoreInv
<1>2. IsScript(s)
  <2>1. <<>> \in Seq({})
    OBVIOUS
  <2>2. IsScript(<<>>)
    BY <2>1 DEF IsScript
  <2> QED
    BY <2>2 DEF Accomplishes
<1>3. s # <<>> => \E run : /\ Runs(run, before, s) /\ Sound(run[Len(s) + 1])
                           /\ Outcome(View(before), View(run[Len(s) + 1]))
  BY DEF Accomplishes
<1>4. StoreInv'
  BY <1>1, <1>2, <1>3 DEF StoreInv
<1> QED
  BY <1>1, <1>4, NothingSeen DEF Kept

LEMMA StatementKeeps == ASSUME StoreInv, Statement PROVE Kept
<1> DEFINE s == script
           next == Effect(work, Head(script))
<1>1. s # <<>> /\ script' = Tail(s) /\ work' = next /\ IsScript(s)
  BY DEF Statement, StoreInv
<1>2. PICK run : Runs(run, work, s) /\ Sound(run[Len(s) + 1]) /\ Outcome(View(before), View(run[Len(s) + 1]))
  BY <1>1 DEF StoreInv
<1> HIDE DEF s, next
<1>3. /\ IsScript(Tail(s)) /\ Len(Tail(s)) \in Nat
      /\ \E rest : Runs(rest, next, Tail(s)) /\ rest[Len(Tail(s)) + 1] = run[Len(s) + 1]
      /\ Tail(s) = <<>> => run[Len(s) + 1] = next
  BY <1>1, <1>2, RunGoesOn DEF next, s
<1>4. CASE Tail(s) # <<>>
  <2>1. UNCHANGED <<disk, before>>
    BY <1>4 DEF Statement, s
  <2>2. PICK rest : Runs(rest, next, Tail(s)) /\ rest[Len(Tail(s)) + 1] = run[Len(s) + 1]
    BY <1>3
  <2>3. StoreInv'
    BY <1>1, <1>2, <1>3, <1>4, <2>1, <2>2 DEF StoreInv
  <2> QED
    BY <2>1, <2>3, NothingSeen DEF Kept
<1>5. CASE Tail(s) = <<>>
  <2>1. before' = next /\ (disk' = disk \/ disk' = next)
    BY <1>5 DEF Statement, s, next
  <2>2. Sound(next) /\ Outcome(View(before), View(next))
    BY <1>2, <1>3, <1>5
  <2>3. StoreInv'
    BY <1>1, <1>3, <1>5, <2>1, <2>2 DEF StoreInv
  <2>4. Outcome(View(before), View(before')) /\ View(disk') \in {View(disk), View(before')}
    BY <2>1, <2>2
  <2> QED
    BY <2>3, <2>4, OutcomeIsStep DEF Kept
<1> QED
  BY <1>4, <1>5

LEMMA EmptyScript == IsScript(<<>>)
<1>1. <<>> \in Seq({})
  OBVIOUS
<1> QED
  BY <1>1 DEF IsScript

LEMMA StatementFailsKeeps == ASSUME StoreInv, StatementFails PROVE Kept
<1>1. script' = <<>> /\ work' = before /\ UNCHANGED <<disk, before>>
  BY DEF StatementFails
<1>2. StoreInv'
  BY <1>1, EmptyScript DEF StoreInv
<1> QED
  BY <1>1, <1>2, NothingSeen DEF Kept

LEMMA EndTurnKeeps == ASSUME StoreInv, EndTurn PROVE Kept
<1>1. script = <<>> /\ disk' = before /\ UNCHANGED <<work, before, script>> /\ work = before
  BY DEF EndTurn, StoreInv
<1>2. StoreInv'
  BY <1>1 DEF StoreInv
<1>3. View(disk)' = View(before) /\ View(before)' = View(before)
  BY <1>1
<1>4. A!Persist
  BY <1>3 DEF A!Persist
<1> QED
  BY <1>2, <1>4 DEF Kept, A!StoreNext

LEMMA CrashKeeps == ASSUME StoreInv, Crash PROVE Kept
<1>1. work' = disk /\ before' = disk /\ script' = <<>> /\ disk' = disk
  BY DEF Crash
<1>2. StoreInv'
  BY <1>1, EmptyScript DEF StoreInv
<1>3. View(before)' = View(disk) /\ View(disk)' = View(disk)
  BY <1>1
<1>4. A!Restart
  BY <1>3 DEF A!Restart
<1> QED
  BY <1>2, <1>4 DEF Kept, A!StoreNext

LEMMA AllAgeKeeps == ASSUME StoreInv, AllAge PROVE Kept
<1>1. /\ script = <<>> /\ script' = <<>> /\ work = before
      /\ disk' = AgedTables(disk) /\ work' = AgedTables(work) /\ before' = AgedTables(before)
  BY DEF AllAge, AgedTables, Unseen, No, StoreInv
<1>2. Sound(disk) /\ Sound(before)
  BY DEF StoreInv
<1>3. /\ Sound(disk') /\ View(disk') = AgedView(View(disk))
      /\ Sound(before') /\ View(before') = AgedView(View(before))
  BY <1>1, <1>2, TablesAge
<1>4. StoreInv'
  BY <1>1, <1>3, EmptyScript DEF StoreInv
<1>5. View(before)' = AgedView(View(before)) /\ View(disk)' = AgedView(View(disk))
  BY <1>3
<1>6. A!AllAge
  BY <1>5 DEF A!AllAge, AgedView, AgedPeers, Unseen, No
<1> QED
  BY <1>4, <1>6 DEF Kept, A!StoreNext

\* The calls of one peer.
LEMMA PeerCallKeeps ==
  ASSUME Traffic \subseteq Nat, MaxSegments \in Nat, MaxCharacters \in Nat, StoreInv, script = <<>>,
         NEW b \in Broadcast, NEW p \in Peer,
         \/ JoinPeer(b, p) \/ LeavePeer(b, p) \/ Heartbeat(b, p)
         \/ ReportSegments(b, p) \/ ApplySegmentDelta(b, p)
         \/ ReportStats(b, p) \/ Penalize(b, p)
  PROVE  Kept
<1>0. work = before /\ Sound(before)
  BY DEF StoreInv
<1>1. ASSUME NEW s, GroupedCall(b, p, s), <<b, p>> \in DOMAIN before.peers => Accomplishes(before, s)
      PROVE  Kept
  <2>1. (Call(s) /\ <<b, p>> \in DOMAIN before.peers) \/ Call(<<>>)
    BY <1>0, <1>1 DEF GroupedCall
  <2>2. CASE Call(<<>>)
    BY <2>2, CallKeeps
  <2>3. CASE Call(s) /\ <<b, p>> \in DOMAIN before.peers
    BY <1>1, <2>3, CallKeeps
  <2> QED
    BY <2>1, <2>2, <2>3
<1>2. ASSUME NEW wanted, Distinct(wanted), GroupedCall(b, p, Inventory(b, p, wanted)) PROVE Kept
  <2> DEFINE next == Newest(wanted)
             existing == SegmentsOf(before, b, p)
  <2>1. Distinct(next) /\ Store!InventoryFits(Range(next))
    BY <1>2, NewestKept
  <2>2. Inventory(b, p, wanted) = Rewriting(b, p, Less(existing, Range(next)), Less(next, Range(existing)))
    BY <1>0 DEF Inventory, Rewriting
  <2>3. <<b, p>> \in DOMAIN before.peers => Accomplishes(before, Inventory(b, p, wanted))
    BY <1>0, <2>1, <2>2, InventoryDone
  <2> QED
    BY <1>1, <1>2, <2>3
<1>3. Distinct(SegmentsOf(work, b, p))
  BY <1>0, SegmentsHeld DEF Distinct
<1>4. CASE JoinPeer(b, p)
  <2>1. /\ b \in before.broadcasts /\ Call(Joining(b, p))
        /\ <<b, p>> \in DOMAIN before.peers \/ Cardinality(PeersOf(before, b)) < MaxPeers
    BY <1>0, <1>4 DEF JoinPeer, Joining
  <2>2. Accomplishes(before, Joining(b, p))
    BY <1>0, <2>1, ReturnDone, JoinDone
  <2> QED
    BY <2>1, <2>2, CallKeeps
<1>5. CASE LeavePeer(b, p)
  BY <1>0, <1>5, LeaveDone, CallKeeps DEF LeavePeer
<1>6. CASE Heartbeat(b, p)
  <2>1. PICK q \in Quality : GroupedCall(b, p, <<Stmt("updatePeerHealth", <<b, p>>, q)>>)
    BY <1>6 DEF Heartbeat
  <2> QED
    BY <1>0, <1>1, <2>1, HeartbeatDone
<1>7. CASE ReportSegments(b, p)
  <2>1. PICK reported \in Reports, replace \in BOOLEAN :
          GroupedCall(b, p, Inventory(b, p,
            IF replace THEN reported ELSE With(SegmentsOf(work, b, p), reported)))
    BY <1>7 DEF ReportSegments
  <2>2. Distinct(reported) /\ Distinct(With(SegmentsOf(work, b, p), reported))
    BY <1>3, DistinctReports, DistinctWith
  <2> QED
    BY <1>2, <2>1, <2>2
<1>8. CASE ApplySegmentDelta(b, p)
  <2>1. PICK added \in Reports, removed \in SUBSET Segment :
          GroupedCall(b, p, Inventory(b, p, With(Less(SegmentsOf(work, b, p), removed), added)))
    BY <1>8 DEF ApplySegmentDelta
  <2>2. Distinct(added) /\ Distinct(Less(SegmentsOf(work, b, p), removed))
    BY <1>3, DistinctReports, DistinctLess
  <2>3. Distinct(With(Less(SegmentsOf(work, b, p), removed), added))
    BY <2>2, DistinctWith
  <2> QED
    BY <1>2, <2>1, <2>3
<1>9. CASE ReportStats(b, p)
  <2>1. PICK n \in Traffic : GroupedCall(b, p, <<Stmt("replacePeerStats", <<b, p>>, n),
                                                 Stmt("updatePeerLastSeen", <<b, p>>, 0)>>)
    BY <1>9 DEF ReportStats
  <2>2. n \in Nat
    OBVIOUS
  <2> QED
    BY <1>0, <1>1, <2>1, <2>2, StatsDone
<1>10. CASE Penalize(b, p)
  <2>1. PICK q \in Quality : /\ q < work.peers[<<b, p>>].quality
                             /\ Call(<<Stmt("updatePeerTrust", <<b, p>>, q)>>)
    BY <1>10 DEF Penalize, Single
  <2>2. <<b, p>> \in DOMAIN before.peers
    BY <1>0, <1>10 DEF Penalize
  <2> QED
    BY <1>0, <2>1, <2>2, PenaltyDone, CallKeeps
<1> QED
  BY <1>4, <1>5, <1>6, <1>7, <1>8, <1>9, <1>10

LEMMA StoreKeeps ==
  ASSUME Traffic \subseteq Nat, MaxSegments \in Nat, MaxCharacters \in Nat, StoreInv, [Next]_vars
  PROVE  Kept
<1>0. script = <<>> => work = before /\ Sound(before)
  BY DEF StoreInv
<1>1. CASE script = <<>> /\ RemoveStalePeers
  <2> DEFINE stale == {k \in DOMAIN before.peers : ~before.peers[k].seen}
  <2>1. Call(Retirements(SetToSeq(stale)))
    BY <1>0, <1>1 DEF RemoveStalePeers
  <2>2. Accomplishes(before, Retirements(SetToSeq(stale)))
    BY <1>0, <1>1, SweepDone
  <2> HIDE DEF stale
  <2> QED
    BY <1>1, <2>1, <2>2, CallKeeps
<1>2. ASSUME script = <<>>, NEW b \in Broadcast, RegisterBroadcast(b) PROVE Kept
  BY <1>0, <1>2, RegisterDone, CallKeeps DEF RegisterBroadcast, Single
<1>3. ASSUME script = <<>>, NEW b \in Broadcast, UnregisterBroadcast(b) PROVE Kept
  <2>1. b \in before.broadcasts /\ Call(Unregistering(b))
    BY <1>0, <1>3 DEF UnregisterBroadcast, Unregistering
  <2> QED
    BY <1>0, <1>3, <2>1, UnregisterDone, CallKeeps
<1>4. CASE UNCHANGED vars
  <2>1. StoreInv'
    BY <1>4 DEF StoreInv, vars
  <2> QED
    BY <1>4, <2>1, NothingSeen DEF vars, Kept
<1> QED
  BY <1>1, <1>2, <1>3, <1>4, PeerCallKeeps, StatementKeeps, StatementFailsKeeps, EndTurnKeeps,
     CrashKeeps, AllAgeKeeps DEF Next

\* The SQLite store (sqlite-store.ts) implements TrackerStore: whatever
\* statements fail and whenever the tracker crashes, each step of a call shows
\* its callers, and keeps on disk, what an operation of TrackerStore does as a
\* whole, or nothing.
THEOREM StoreIsAtomic ==
  ASSUME Traffic \subseteq Nat, MaxSegments \in Nat, MaxCharacters \in Nat
  PROVE  Spec => ImplementsStore
<1>1. Init => StoreInv /\ A!StoreInit
  BY StoreStarts
<1>2. StoreInv /\ [Next]_vars => StoreInv' /\ [A!StoreNext]_(A!storeVars)
  BY StoreKeeps DEF Kept
<1> QED
  BY <1>1, <1>2, PTL DEF Spec, ImplementsStore, A!StoreSpec

-----------------------------------------------------------------------------
(* The types: what the rows of the tables may be, also in the middle of a   *)
(* call.                                                                    *)

Typed(t) ==
  /\ t = [broadcasts |-> t.broadcasts, peers |-> t.peers, segments |-> t.segments,
          stats |-> t.stats, retired |-> t.retired]
  /\ t.broadcasts \subseteq Broadcast
  /\ DOMAIN t.peers \subseteq Broadcast \X Peer
  /\ t.segments \in Seq(Rows)
  /\ \A k \in DOMAIN t.stats : t.stats[k] \in Traffic

\* The statements about a broadcast, and those about one of its peers.
OfBroadcasts ==
  {"insertBroadcast", "deleteBroadcastSegments", "deleteBroadcastPeerStats",
   "deleteBroadcastRetiredStats", "deleteBroadcastPeers", "deleteBroadcast"}
OfPeers ==
  {"upsertPeer", "insertEmptyPeerStats", "accumulateRetiredStats", "deletePeerStats",
   "deletePeerSegments", "deletePeer", "deletePeerSegment", "insertPeerSegment",
   "replacePeerStats", "updatePeerLastSeen", "updatePeerHealth", "updatePeerTrust"}

\* What a statement is about, and the values it writes.
Fit(st) ==
  \E k, a :
    \/ \E do \in OfBroadcasts : st = Stmt(do, k, a) /\ k[1] \in Broadcast
    \/ \E do \in OfPeers : /\ st = Stmt(do, k, a) /\ k \in Broadcast \X Peer
                           /\ do = "insertPeerSegment" => a \in Segment
                           /\ do = "replacePeerStats" => a \in Traffic

\* The tables may change one by one.
LEMMA TypedFields ==
  ASSUME NEW t, Typed(t), NEW x, NEW u
  PROVE  /\ u = [t EXCEPT !.broadcasts = x] /\ x \subseteq Broadcast => Typed(u)
         /\ u = [t EXCEPT !.peers = x] /\ DOMAIN x \subseteq Broadcast \X Peer => Typed(u)
         /\ u = [t EXCEPT !.segments = x] /\ x \in Seq(Rows) => Typed(u)
         /\ u = [t EXCEPT !.stats = x] /\ (\A k \in DOMAIN x : x[k] \in Traffic) => Typed(u)
         /\ u = [t EXCEPT !.retired = x] => Typed(u)
<1>1. t = [broadcasts |-> t.broadcasts, peers |-> t.peers, segments |-> t.segments,
           stats |-> t.stats, retired |-> t.retired]
  BY DEF Typed
<1>2. /\ t.broadcasts \subseteq Broadcast
      /\ DOMAIN t.peers \subseteq Broadcast \X Peer
      /\ t.segments \in Seq(Rows)
      /\ \A k \in DOMAIN t.stats : t.stats[k] \in Traffic
  BY DEF Typed
<1>3. ASSUME u = [t EXCEPT !.broadcasts = x], x \subseteq Broadcast PROVE Typed(u)
  <2>1. u = [broadcasts |-> x, peers |-> t.peers, segments |-> t.segments, stats |-> t.stats, retired |-> t.retired]
    BY <1>1, <1>3
  <2> QED
    BY <1>2, <1>3, <2>1 DEF Typed
<1>4. ASSUME u = [t EXCEPT !.peers = x], DOMAIN x \subseteq Broadcast \X Peer PROVE Typed(u)
  <2>1. u = [broadcasts |-> t.broadcasts, peers |-> x, segments |-> t.segments, stats |-> t.stats, retired |-> t.retired]
    BY <1>1, <1>4
  <2> QED
    BY <1>2, <1>4, <2>1 DEF Typed
<1>5. ASSUME u = [t EXCEPT !.segments = x], x \in Seq(Rows) PROVE Typed(u)
  <2>1. u = [broadcasts |-> t.broadcasts, peers |-> t.peers, segments |-> x, stats |-> t.stats, retired |-> t.retired]
    BY <1>1, <1>5
  <2> QED
    BY <1>2, <1>5, <2>1 DEF Typed
<1>6. ASSUME u = [t EXCEPT !.stats = x], \A k \in DOMAIN x : x[k] \in Traffic PROVE Typed(u)
  <2>1. u = [broadcasts |-> t.broadcasts, peers |-> t.peers, segments |-> t.segments, stats |-> x, retired |-> t.retired]
    BY <1>1, <1>6
  <2> QED
    BY <1>2, <1>6, <2>1 DEF Typed
<1>7. ASSUME u = [t EXCEPT !.retired = x] PROVE Typed(u)
  <2>1. u = [broadcasts |-> t.broadcasts, peers |-> t.peers, segments |-> t.segments, stats |-> t.stats, retired |-> x]
    BY <1>1, <1>7
  <2> QED
    BY <1>2, <1>7, <2>1 DEF Typed
<1> QED
  BY <1>3, <1>4, <1>5, <1>6, <1>7, Zenon

LEMMA EmptyTyped == Typed(NoRows)
<1>1. Sound(NoRows) /\ NoRows.stats = Empty /\ DOMAIN Empty = {} /\ NoRows.peers = Empty /\ NoRows.broadcasts = {}
  BY SoundEmpty DEF NoRows, Empty
<1> QED
  BY <1>1 DEF Sound, Typed

\* No statement writes a row of another kind.
LEMMA BroadcastEffectTyped ==
  ASSUME NEW t, Typed(t), NEW do \in OfBroadcasts, NEW k, NEW a, k[1] \in Broadcast,
         NEW u, u = Effect(t, Stmt(do, k, a))
  PROVE  Typed(u)
<1> DEFINE b == k[1]
<1>0. /\ t.broadcasts \subseteq Broadcast
      /\ \A T : Less(t.segments, T) \in Seq(Rows)
      /\ DOMAIN t.peers \subseteq Broadcast \X Peer
      /\ \A x \in DOMAIN t.stats : t.stats[x] \in Traffic
  BY LessKept DEF Typed
<1>1. CASE do = "insertBroadcast"
  <2> DEFINE x == t.broadcasts \cup {b}
  <2>1. u = [t EXCEPT !.broadcasts = x]
    BY <1>1 DEF Effect, Stmt
  <2>2. x \subseteq Broadcast
    BY <1>0
  <2> HIDE DEF x
  <2> QED
    BY <2>1, <2>2, TypedFields, Zenon
<1>2. CASE do = "deleteBroadcastSegments"
  <2> DEFINE x == Less(t.segments, {b} \X Peer \X Segment)
  <2>1. u = [t EXCEPT !.segments = x]
    BY <1>2 DEF Effect, Stmt
  <2>2. x \in Seq(Rows)
    BY <1>0
  <2> HIDE DEF x
  <2> QED
    BY <2>1, <2>2, TypedFields, Zenon
<1>3. CASE do = "deleteBroadcastPeerStats"
  <2> DEFINE x == [z \in {y \in DOMAIN t.stats : y[1] # b} |-> t.stats[z]]
  <2>1. u = [t EXCEPT !.stats = x]
    BY <1>3 DEF Effect, Stmt, Without
  <2>2. \A y \in DOMAIN x : x[y] \in Traffic
    BY <1>0
  <2> HIDE DEF x
  <2> QED
    BY <2>1, <2>2, TypedFields, Zenon
<1>4. CASE do = "deleteBroadcastRetiredStats"
  <2> DEFINE x == [z \in {y \in DOMAIN t.retired : y # b} |-> t.retired[z]]
  <2>1. u = [t EXCEPT !.retired = x]
    BY <1>4 DEF Effect, Stmt, Without
  <2> HIDE DEF x
  <2> QED
    BY <2>1, TypedFields, Zenon
<1>5. CASE do = "deleteBroadcastPeers"
  <2> DEFINE x == [z \in {y \in DOMAIN t.peers : y[1] # b} |-> t.peers[z]]
  <2>1. u = [t EXCEPT !.peers = x]
    BY <1>5 DEF Effect, Stmt, Without
  <2>2. DOMAIN x \subseteq Broadcast \X Peer
    BY <1>0
  <2> HIDE DEF x
  <2> QED
    BY <2>1, <2>2, TypedFields, Zenon
<1>6. CASE do = "deleteBroadcast"
  <2> DEFINE x == t.broadcasts \ {b}
  <2>1. u = [t EXCEPT !.broadcasts = x]
    BY <1>6 DEF Effect, Stmt
  <2>2. x \subseteq Broadcast
    BY <1>0
  <2> HIDE DEF x
  <2> QED
    BY <2>1, <2>2, TypedFields, Zenon
<1> QED
  BY <1>1, <1>2, <1>3, <1>4, <1>5, <1>6, Zenon DEF OfBroadcasts

LEMMA PeerEffectTyped ==
  ASSUME 0 \in Traffic, NEW t, Typed(t), NEW do \in OfPeers, NEW k \in Broadcast \X Peer, NEW a,
         do = "insertPeerSegment" => a \in Segment, do = "replacePeerStats" => a \in Traffic,
         NEW u, u = Effect(t, Stmt(do, k, a))
  PROVE  Typed(u)
<1> DEFINE b == k[1]
<1>0. /\ t.broadcasts \subseteq Broadcast
      /\ \A T : Less(t.segments, T) \in Seq(Rows)
      /\ DOMAIN t.peers \subseteq Broadcast \X Peer
      /\ \A x \in DOMAIN t.stats : t.stats[x] \in Traffic
  BY LessKept DEF Typed
<1>1. CASE do = "upsertPeer"
  <2> DEFINE row == [quality |-> IF k \in DOMAIN t.peers THEN t.peers[k].quality
                                ELSE Store!NewPeer.quality, seen |-> TRUE]
             x == Store!Put(t.peers, k, row)
  <2>1. u = [t EXCEPT !.peers = x]
    BY <1>1 DEF Effect, Stmt
  <2> HIDE DEF row
  <2>2. DOMAIN x \subseteq Broadcast \X Peer
    BY <1>0 DEF Store!Put
  <2> HIDE DEF x
  <2> QED
    BY <2>1, <2>2, TypedFields, Zenon
<1>2. CASE do = "insertEmptyPeerStats"
  <2> DEFINE x == IF k \in DOMAIN t.stats THEN t.stats ELSE Store!Put(t.stats, k, 0)
  <2>1. u = [t EXCEPT !.stats = x]
    BY <1>2 DEF Effect, Stmt
  <2>2. \A y \in DOMAIN x : x[y] \in Traffic
    BY <1>0 DEF Store!Put
  <2> HIDE DEF x
  <2> QED
    BY <2>1, <2>2, TypedFields, Zenon
<1>3. CASE do = "accumulateRetiredStats"
  <2> DEFINE x == Store!Put(t.retired, b, RetiredOf(t, b) + t.stats[k])
  <2>1. u = IF k \in DOMAIN t.stats THEN [t EXCEPT !.retired = x] ELSE t
    BY <1>3 DEF Effect, Stmt
  <2> HIDE DEF x
  <2>2. u = [t EXCEPT !.retired = x] \/ u = t
    BY <2>1
  <2> QED
    BY <2>2, TypedFields, Zenon
<1>4. CASE do = "deletePeerStats"
  <2> DEFINE x == Store!Drop(t.stats, {k})
  <2>1. u = [t EXCEPT !.stats = x]
    BY <1>4 DEF Effect, Stmt
  <2>2. \A y \in DOMAIN x : x[y] \in Traffic
    BY <1>0 DEF Store!Drop
  <2> HIDE DEF x
  <2> QED
    BY <2>1, <2>2, TypedFields, Zenon
<1>5. CASE do = "deletePeerSegments"
  <2> DEFINE x == Less(t.segments, {b} \X {k[2]} \X Segment)
  <2>1. u = [t EXCEPT !.segments = x]
    BY <1>5 DEF Effect, Stmt
  <2>2. x \in Seq(Rows)
    BY <1>0
  <2> HIDE DEF x
  <2> QED
    BY <2>1, <2>2, TypedFields, Zenon
<1>6. CASE do = "deletePeer"
  <2> DEFINE x == Store!Drop(t.peers, {k})
  <2>1. u = [t EXCEPT !.peers = x]
    BY <1>6 DEF Effect, Stmt
  <2>2. DOMAIN x \subseteq Broadcast \X Peer
    BY <1>0 DEF Store!Drop
  <2> HIDE DEF x
  <2> QED
    BY <2>1, <2>2, TypedFields, Zenon
<1>7. CASE do = "deletePeerSegment"
  <2> DEFINE x == Less(t.segments, {<<b, k[2], a>>})
  <2>1. u = [t EXCEPT !.segments = x]
    BY <1>7 DEF Effect, Stmt
  <2>2. x \in Seq(Rows)
    BY <1>0
  <2> HIDE DEF x
  <2> QED
    BY <2>1, <2>2, TypedFields, Zenon
<1>8. CASE do = "insertPeerSegment"
  <2> DEFINE x == Append(t.segments, <<b, k[2], a>>)
  <2>1. u = [t EXCEPT !.segments = x]
    BY <1>8 DEF Effect, Stmt
  <2>2. <<b, k[2], a>> \in Rows /\ t.segments \in Seq(Rows)
    BY <1>8 DEF Rows, Typed
  <2>3. x \in Seq(Rows)
    BY <2>2
  <2> HIDE DEF x
  <2> QED
    BY <2>1, <2>3, TypedFields, Zenon
<1>9. CASE do = "replacePeerStats"
  <2> DEFINE x == Store!Put(t.stats, k, a)
  <2>1. u = [t EXCEPT !.stats = x]
    BY <1>9 DEF Effect, Stmt
  <2>2. \A y \in DOMAIN x : x[y] \in Traffic
    BY <1>0, <1>9 DEF Store!Put
  <2> HIDE DEF x
  <2> QED
    BY <2>1, <2>2, TypedFields, Zenon
<1>10. CASE do = "updatePeerLastSeen"
  <2> DEFINE v == [t.peers[k] EXCEPT !.seen = TRUE]
             x == [t.peers EXCEPT ![k] = v]
  <2>1. u = [t EXCEPT !.peers = x]
    BY <1>10 DEF Effect, Stmt
  <2> HIDE DEF v
  <2>2. DOMAIN x \subseteq Broadcast \X Peer
    BY <1>0
  <2> HIDE DEF x
  <2> QED
    BY <2>1, <2>2, TypedFields, Zenon
<1>11. CASE do = "updatePeerHealth"
  <2> DEFINE v == [quality |-> a, seen |-> TRUE]
             x == [t.peers EXCEPT ![k] = v]
  <2>1. u = [t EXCEPT !.peers = x]
    BY <1>11 DEF Effect, Stmt
  <2> HIDE DEF v
  <2>2. DOMAIN x \subseteq Broadcast \X Peer
    BY <1>0
  <2> HIDE DEF x
  <2> QED
    BY <2>1, <2>2, TypedFields, Zenon
<1>12. CASE do = "updatePeerTrust"
  <2> DEFINE v == [t.peers[k] EXCEPT !.quality = a]
             x == [t.peers EXCEPT ![k] = v]
  <2>1. u = [t EXCEPT !.peers = x]
    BY <1>12 DEF Effect, Stmt
  <2> HIDE DEF v
  <2>2. DOMAIN x \subseteq Broadcast \X Peer
    BY <1>0
  <2> HIDE DEF x
  <2> QED
    BY <2>1, <2>2, TypedFields, Zenon
<1> QED
  BY <1>1, <1>2, <1>3, <1>4, <1>5, <1>6, <1>7, <1>8, <1>9, <1>10, <1>11, <1>12, Zenon DEF OfPeers

LEMMA EffectTyped ==
  ASSUME 0 \in Traffic, NEW t, Typed(t), NEW st, Fit(st)
  PROVE  Typed(Effect(t, st))
BY BroadcastEffectTyped, PeerEffectTyped, Zenon DEF Fit

\* What the store keeps true of the types.
ScriptFits(s) == \A i \in 1..Len(s) : Fit(s[i])

RowsInv ==
  /\ Typed(disk) /\ Typed(work) /\ Typed(before) /\ ScriptFits(script)
  /\ grouped \in BOOLEAN
  /\ ~grouped => disk = before

LEMMA NothingFits == ScriptFits(<<>>)
<1>1. Len(<<>>) = 0
  OBVIOUS
<1> QED
  BY <1>1 DEF ScriptFits

LEMMA PeerFits ==
  ASSUME NEW k \in Broadcast \X Peer, NEW do \in OfPeers, NEW a,
         do = "insertPeerSegment" => a \in Segment, do = "replacePeerStats" => a \in Traffic
  PROVE  Fit(Stmt(do, k, a))
BY Zenon DEF Fit

LEMMA BroadcastFits ==
  ASSUME NEW b \in Broadcast, NEW do \in OfBroadcasts
  PROVE  Fit(Stmt(do, <<b>>, 0))
<1>1. <<b>>[1] \in Broadcast
  OBVIOUS
<1> QED
  BY <1>1, Zenon DEF Fit

LEMMA OneFits == ASSUME NEW x, Fit(x) PROVE ScriptFits(<<x>>)
<1>1. Len(<<x>>) = 1 /\ <<x>>[1] = x
  OBVIOUS
<1>2. \A i \in 1..1 : i = 1
  OBVIOUS
<1> QED
  BY <1>1, <1>2 DEF ScriptFits

LEMMA TwoFit == ASSUME NEW x, NEW y, Fit(x), Fit(y) PROVE ScriptFits(<<x, y>>)
<1>1. Len(<<x, y>>) = 2 /\ <<x, y>>[1] = x /\ <<x, y>>[2] = y
  OBVIOUS
<1>2. \A i \in 1..2 : i = 1 \/ i = 2
  OBVIOUS
<1> QED
  BY <1>1, <1>2 DEF ScriptFits

LEMMA UnregisteringFits == ASSUME NEW b \in Broadcast PROVE ScriptFits(Unregistering(b))
<1> DEFINE names == <<"deleteBroadcastSegments", "deleteBroadcastPeerStats",
                      "deleteBroadcastRetiredStats", "deleteBroadcastPeers", "deleteBroadcast">>
<1>1. \A i \in 1..5 : names[i] \in OfBroadcasts
  BY DEF OfBroadcasts
<1>2. Len(Unregistering(b)) = 5 /\ \A i \in 1..5 : Unregistering(b)[i] = Stmt(names[i], <<b>>, 0)
  BY DEF Unregistering
<1> HIDE DEF names
<1>3. ASSUME NEW i \in 1..5 PROVE Fit(Unregistering(b)[i])
  BY <1>1, <1>2, BroadcastFits
<1> QED
  BY <1>2, <1>3 DEF ScriptFits

LEMMA RetireFits ==
  ASSUME NEW k \in Broadcast \X Peer
  PROVE  /\ Fit(Stmt("accumulateRetiredStats", k, 0)) /\ Fit(Stmt("deletePeerStats", k, 0))
         /\ Fit(Stmt("deletePeerSegments", k, 0)) /\ Fit(Stmt("deletePeer", k, 0))
<1>1. {"accumulateRetiredStats", "deletePeerStats", "deletePeerSegments", "deletePeer"} \subseteq OfPeers
  BY DEF OfPeers
<1>2. \A do \in {"accumulateRetiredStats", "deletePeerStats", "deletePeerSegments", "deletePeer"} :
         do # "insertPeerSegment" /\ do # "replacePeerStats"
  OBVIOUS
<1> QED
  BY <1>1, <1>2, PeerFits

LEMMA RetirementFits == ASSUME NEW k \in Broadcast \X Peer PROVE ScriptFits(Retire(k))
<1>1. /\ Len(Retire(k)) = 4
      /\ Retire(k)[1] = Stmt("accumulateRetiredStats", k, 0) /\ Retire(k)[2] = Stmt("deletePeerStats", k, 0)
      /\ Retire(k)[3] = Stmt("deletePeerSegments", k, 0) /\ Retire(k)[4] = Stmt("deletePeer", k, 0)
  BY DEF Retire
<1>2. \A i \in 1..4 : i = 1 \/ i = 2 \/ i = 3 \/ i = 4
  OBVIOUS
<1> QED
  BY <1>1, <1>2, RetireFits DEF ScriptFits

LEMMA RetirementsFit ==
  ASSUME NEW keys, NEW N \in Nat, Len(keys) = N, \A i \in 1..N : keys[i] \in Broadcast \X Peer
  PROVE  ScriptFits(Retirements(keys))
<1> DEFINE s == Retirements(keys)
<1>1. Len(s) = 4 * N
  BY DEF Retirements
<1> HIDE DEF s
<1>2. ASSUME NEW i \in 1..(4 * N) PROVE Fit(s[i])
  <2> DEFINE j == (i - 1) \div 4
  <2>1. /\ j \in 0..N /\ j < N
        /\ i = 4 * j + 1 \/ i = 4 * j + 2 \/ i = 4 * j + 3 \/ i = 4 * j + 4
    OBVIOUS
  <2> HIDE DEF j
  <2>2. j + 1 \in 1..N
    BY <2>1
  <2> DEFINE k == keys[j + 1]
  <2>3. k \in Broadcast \X Peer
    BY <2>2
  <2>4. /\ s[4 * j + 1] = Stmt("accumulateRetiredStats", k, 0)
        /\ s[4 * j + 2] = Stmt("deletePeerStats", k, 0)
        /\ s[4 * j + 3] = Stmt("deletePeerSegments", k, 0)
        /\ s[4 * j + 4] = Stmt("deletePeer", k, 0)
    BY <2>1, RetirementOf DEF s
  <2> HIDE DEF k
  <2> QED
    BY <2>1, <2>3, <2>4, RetireFits
<1> QED
  BY <1>1, <1>2 DEF ScriptFits, s

LEMMA RewritingFits ==
  ASSUME NEW b \in Broadcast, NEW p \in Peer, NEW goes, NEW comes, Distinct(goes), Distinct(comes)
  PROVE  ScriptFits(Rewriting(b, p, goes, comes))
<1> DEFINE s == Rewriting(b, p, goes, comes)
           g == Len(goes)
           c == Len(comes)
           k == <<b, p>>
<1>1. /\ g \in Nat /\ c \in Nat /\ Len(s) = g + c + 1
      /\ \A i \in 1..g : s[i] = Stmt("deletePeerSegment", k, goes[i])
      /\ \A i \in 1..c : s[g + i] = Stmt("insertPeerSegment", k, comes[i])
      /\ s[g + c + 1] = Stmt("updatePeerLastSeen", k, 0)
  BY RewritingParts
<1>2. \A i \in 1..c : comes[i] \in Segment
  BY DEF Distinct
<1>3. k \in Broadcast \X Peer
  OBVIOUS
<1>4. "deletePeerSegment" \in OfPeers /\ "insertPeerSegment" \in OfPeers /\ "updatePeerLastSeen" \in OfPeers
  BY DEF OfPeers
<1>5. "insertPeerSegment" # "replacePeerStats"
  OBVIOUS
<1> HIDE DEF s, g, c, k
<1>6. ASSUME NEW i \in 1..g PROVE Fit(s[i])
  <2>1. Fit(Stmt("deletePeerSegment", k, goes[i]))
    BY <1>3, <1>4, PeerFits
  <2> QED
    BY <1>1, <2>1
<1>7. ASSUME NEW i \in 1..c PROVE Fit(s[g + i])
  <2>1. Fit(Stmt("insertPeerSegment", k, comes[i]))
    BY <1>2, <1>3, <1>4, <1>5, PeerFits
  <2> QED
    BY <1>1, <2>1
<1>8. Fit(s[g + c + 1])
  <2>1. Fit(Stmt("updatePeerLastSeen", k, 0))
    BY <1>3, <1>4, PeerFits
  <2> QED
    BY <1>1, <2>1
<1>9. ASSUME NEW i \in 1..(g + c + 1) PROVE Fit(s[i])
  <2>1. CASE i <= g
    BY <1>1, <1>6, <2>1
  <2>2. CASE i > g /\ i <= g + c
    <3>1. i - g \in 1..c /\ g + (i - g) = i
      BY <1>1, <2>2
    <3> QED
      BY <1>7, <3>1
  <2>3. CASE i > g + c
    <3>1. i = g + c + 1
      BY <1>1, <2>3
    <3> QED
      BY <1>8, <3>1
  <2> QED
    BY <1>1, <2>1, <2>2, <2>3
<1> QED
  BY <1>1, <1>9 DEF ScriptFits, s

LEMMA CallTyped ==
  ASSUME RowsInv, NEW s, Call(s), ScriptFits(s), UNCHANGED grouped \/ grouped' = TRUE
  PROVE  RowsInv'
<1>1. script' = s /\ disk' = disk /\ work' = work /\ before' = before
  BY DEF Call
<1>2. grouped' \in BOOLEAN /\ (~grouped' => ~grouped)
  BY DEF RowsInv
<1>3. ScriptFits(script')
  BY <1>1
<1> QED
  BY <1>1, <1>2, <1>3 DEF RowsInv

LEMMA StatementTyped ==
  ASSUME 0 \in Traffic, RowsInv, IsScript(script), Statement
  PROVE  RowsInv'
<1> DEFINE s == script
           next == Effect(work, Head(script))
<1>1. /\ s # <<>> /\ script' = Tail(s) /\ work' = next /\ grouped' = grouped
      /\ (UNCHANGED <<disk, before>>) \/ (before' = next /\ disk' = IF grouped THEN disk ELSE next)
  BY DEF Statement
<1>2. PICK X : s \in Seq(X)
  BY DEF IsScript
<1>3. /\ Head(s) = s[1] /\ 1 \in 1..Len(s) /\ Len(Tail(s)) = Len(s) - 1
      /\ \A i \in 1..Len(Tail(s)) : Tail(s)[i] = s[i + 1] /\ i + 1 \in 1..Len(s)
  BY <1>1, <1>2
<1>4. Fit(Head(s)) /\ ScriptFits(Tail(s))
  BY <1>3 DEF RowsInv, ScriptFits
<1>5. Typed(next)
  BY <1>4, EffectTyped DEF RowsInv
<1> HIDE DEF s, next
<1>6. Typed(disk') /\ Typed(work') /\ Typed(before') /\ (~grouped' => disk' = before')
  BY <1>1, <1>5 DEF RowsInv
<1>7. ScriptFits(script')
  BY <1>1, <1>4
<1> QED
  BY <1>1, <1>6, <1>7 DEF RowsInv

LEMMA AgedTyped == ASSUME NEW t, Typed(t) PROVE Typed(AgedTables(t))
<1> DEFINE x == [k \in DOMAIN t.peers |-> Unseen(t.peers[k])]
<1>1. AgedTables(t) = [t EXCEPT !.peers = x]
  BY DEF AgedTables
<1>2. DOMAIN x \subseteq Broadcast \X Peer
  BY DEF Typed
<1> HIDE DEF x
<1> QED
  BY <1>1, <1>2, TypedFields, Zenon

LEMMA PeerCallTyped ==
  ASSUME MaxSegments \in Nat, MaxCharacters \in Nat, StoreInv, RowsInv, script = <<>>,
         NEW b \in Broadcast, NEW p \in Peer,
         \/ JoinPeer(b, p) \/ LeavePeer(b, p) \/ Heartbeat(b, p)
         \/ ReportSegments(b, p) \/ ApplySegmentDelta(b, p)
         \/ ReportStats(b, p) \/ Penalize(b, p)
  PROVE  RowsInv'
<1>0. work = before /\ Sound(before) /\ <<b, p>> \in Broadcast \X Peer
  BY DEF StoreInv
<1>1. ASSUME NEW s, GroupedCall(b, p, s), ScriptFits(s) PROVE RowsInv'
  <2>1. grouped' = TRUE /\ (Call(s) \/ Call(<<>>))
    BY <1>1 DEF GroupedCall
  <2> QED
    BY <1>1, <2>1, CallTyped, NothingFits, Zenon
<1>2. ASSUME NEW wanted, Distinct(wanted), GroupedCall(b, p, Inventory(b, p, wanted)) PROVE RowsInv'
  <2> DEFINE next == Newest(wanted)
             existing == SegmentsOf(before, b, p)
             goes == Less(existing, Range(next))
             comes == Less(next, Range(existing))
  <2>1. Distinct(next) /\ Distinct(existing)
    BY <1>0, <1>2, NewestKept, SegmentsHeld DEF Distinct
  <2>2. Inventory(b, p, wanted) = Rewriting(b, p, goes, comes)
    BY <1>0 DEF Inventory, Rewriting
  <2>3. Distinct(goes) /\ Distinct(comes)
    BY <2>1, DistinctLess
  <2> HIDE DEF goes, comes
  <2>4. ScriptFits(Inventory(b, p, wanted))
    BY <2>2, <2>3, RewritingFits
  <2> QED
    BY <1>1, <1>2, <2>4
<1>3. Distinct(SegmentsOf(work, b, p))
  BY <1>0, SegmentsHeld DEF Distinct
<1>4. CASE JoinPeer(b, p)
  <2>1. Call(Joining(b, p)) /\ UNCHANGED grouped
    BY <1>4 DEF JoinPeer, Joining
  <2>2. Fit(Stmt("upsertPeer", <<b, p>>, 0)) /\ Fit(Stmt("insertEmptyPeerStats", <<b, p>>, 0))
    BY <1>0, PeerFits DEF OfPeers
  <2>3. ScriptFits(Joining(b, p))
    BY <2>2, TwoFit DEF Joining
  <2> QED
    BY <2>1, <2>3, CallTyped
<1>5. CASE LeavePeer(b, p)
  <2>1. Call(Retire(<<b, p>>)) /\ UNCHANGED grouped
    BY <1>5 DEF LeavePeer
  <2> QED
    BY <1>0, <2>1, RetirementFits, CallTyped
<1>6. CASE Heartbeat(b, p)
  <2>1. PICK q \in Quality : GroupedCall(b, p, <<Stmt("updatePeerHealth", <<b, p>>, q)>>)
    BY <1>6 DEF Heartbeat
  <2>2. Fit(Stmt("updatePeerHealth", <<b, p>>, q))
    BY <1>0, PeerFits DEF OfPeers
  <2> QED
    BY <1>1, <2>1, <2>2, OneFits
<1>7. CASE ReportSegments(b, p)
  <2>1. PICK reported \in Reports, replace \in BOOLEAN :
          GroupedCall(b, p, Inventory(b, p,
            IF replace THEN reported ELSE With(SegmentsOf(work, b, p), reported)))
    BY <1>7 DEF ReportSegments
  <2>2. Distinct(reported) /\ Distinct(With(SegmentsOf(work, b, p), reported))
    BY <1>3, DistinctReports, DistinctWith
  <2> QED
    BY <1>2, <2>1, <2>2
<1>8. CASE ApplySegmentDelta(b, p)
  <2>1. PICK added \in Reports, removed \in SUBSET Segment :
          GroupedCall(b, p, Inventory(b, p, With(Less(SegmentsOf(work, b, p), removed), added)))
    BY <1>8 DEF ApplySegmentDelta
  <2>2. Distinct(added) /\ Distinct(Less(SegmentsOf(work, b, p), removed))
    BY <1>3, DistinctReports, DistinctLess
  <2>3. Distinct(With(Less(SegmentsOf(work, b, p), removed), added))
    BY <2>2, DistinctWith
  <2> QED
    BY <1>2, <2>1, <2>3
<1>9. CASE ReportStats(b, p)
  <2>1. PICK n \in Traffic : GroupedCall(b, p, <<Stmt("replacePeerStats", <<b, p>>, n),
                                                 Stmt("updatePeerLastSeen", <<b, p>>, 0)>>)
    BY <1>9 DEF ReportStats
  <2>2. Fit(Stmt("replacePeerStats", <<b, p>>, n)) /\ Fit(Stmt("updatePeerLastSeen", <<b, p>>, 0))
    BY <1>0, PeerFits DEF OfPeers
  <2> QED
    BY <1>1, <2>1, <2>2, TwoFit
<1>10. CASE Penalize(b, p)
  <2>1. PICK q \in Quality : Call(<<Stmt("updatePeerTrust", <<b, p>>, q)>>)
    BY <1>10 DEF Penalize, Single
  <2>2. Fit(Stmt("updatePeerTrust", <<b, p>>, q))
    BY <1>0, PeerFits DEF OfPeers
  <2>3. UNCHANGED grouped
    BY <1>10 DEF Penalize
  <2> QED
    BY <2>1, <2>2, <2>3, OneFits, CallTyped
<1> QED
  BY <1>4, <1>5, <1>6, <1>7, <1>8, <1>9, <1>10

LEMMA RowsStart == Init => RowsInv
<1> SUFFICES ASSUME Init PROVE RowsInv
  OBVIOUS
<1>1. disk = NoRows /\ work = NoRows /\ before = NoRows /\ script = <<>> /\ grouped = FALSE
  BY DEF Init
<1>2. Typed(disk) /\ Typed(work) /\ Typed(before) /\ disk = before
  BY <1>1, EmptyTyped
<1>3. ScriptFits(script)
  BY <1>1, NothingFits
<1> QED
  BY <1>1, <1>2, <1>3 DEF RowsInv

LEMMA RowsStayTyped ==
  ASSUME 0 \in Traffic, MaxSegments \in Nat, MaxCharacters \in Nat, StoreInv, RowsInv, [Next]_vars
  PROVE  RowsInv'
<1>0. /\ script = <<>> => work = before
      /\ Sound(before) /\ IsScript(script)
      /\ Typed(disk) /\ Typed(work) /\ Typed(before) /\ ScriptFits(script)
  BY DEF StoreInv, RowsInv
<1>1. CASE script = <<>> /\ RemoveStalePeers
  <2> DEFINE stale == {k \in DOMAIN work.peers : ~work.peers[k].seen}
             keys == SetToSeq(stale)
  <2>1. Call(Retirements(keys)) /\ UNCHANGED grouped
    BY <1>1 DEF RemoveStalePeers
  <2>2. IsFiniteSet(stale) /\ stale \subseteq Broadcast \X Peer
    BY <1>0, <1>1, FS_Subset DEF Sound, Typed
  <2> HIDE DEF stale
  <2>3. keys \in Seq(stale)
    BY <2>2, SetListed
  <2> HIDE DEF keys
  <2>4. Len(keys) \in Nat /\ \A i \in 1..Len(keys) : keys[i] \in Broadcast \X Peer
    BY <2>2, <2>3
  <2>5. ScriptFits(Retirements(keys))
    BY <2>4, RetirementsFit
  <2> QED
    BY <2>1, <2>5, CallTyped
<1>2. ASSUME NEW b \in Broadcast, RegisterBroadcast(b) PROVE RowsInv'
  <2>1. Call(<<Stmt("insertBroadcast", <<b>>, 0)>>) /\ UNCHANGED grouped
    BY <1>2 DEF RegisterBroadcast, Single
  <2>2. Fit(Stmt("insertBroadcast", <<b>>, 0))
    BY BroadcastFits DEF OfBroadcasts
  <2> QED
    BY <2>1, <2>2, OneFits, CallTyped
<1>3. ASSUME NEW b \in Broadcast, UnregisterBroadcast(b) PROVE RowsInv'
  <2>1. Call(Unregistering(b)) /\ UNCHANGED grouped
    BY <1>3 DEF UnregisterBroadcast, Unregistering
  <2> QED
    BY <2>1, UnregisteringFits, CallTyped
<1>4. CASE StatementFails
  <2>1. script' = <<>> /\ work' = before /\ disk' = disk /\ before' = before /\ grouped' = grouped
    BY <1>4 DEF StatementFails
  <2>2. ScriptFits(script')
    BY <2>1, NothingFits
  <2> QED
    BY <2>1, <2>2 DEF RowsInv
<1>5. CASE EndTurn
  <2>1. /\ script' = <<>> /\ work' = work /\ disk' = work /\ before' = before /\ grouped' = FALSE
        /\ work = before
    BY <1>0, <1>5 DEF EndTurn
  <2>2. ScriptFits(script')
    BY <2>1, NothingFits
  <2>3. grouped' \in BOOLEAN /\ disk' = before'
    BY <2>1
  <2> QED
    BY <1>0, <2>1, <2>2, <2>3 DEF RowsInv
<1>6. CASE Crash
  <2>1. script' = <<>> /\ work' = disk /\ disk' = disk /\ before' = disk /\ grouped' = FALSE
    BY <1>6 DEF Crash
  <2>2. ScriptFits(script')
    BY <2>1, NothingFits
  <2>3. grouped' \in BOOLEAN /\ disk' = before'
    BY <2>1
  <2> QED
    BY <1>0, <2>1, <2>2, <2>3 DEF RowsInv
<1>7. CASE AllAge
  <2>1. /\ script' = <<>> /\ grouped' = grouped
        /\ disk' = AgedTables(disk) /\ work' = AgedTables(work) /\ before' = AgedTables(before)
    BY <1>7 DEF AllAge, AgedTables, Unseen, No
  <2>2. Typed(disk') /\ Typed(work') /\ Typed(before')
    BY <1>0, <2>1, AgedTyped
  <2>3. ScriptFits(script')
    BY <2>1, NothingFits
  <2> QED
    BY <2>1, <2>2, <2>3 DEF RowsInv
<1>8. CASE UNCHANGED vars
  BY <1>8 DEF vars, RowsInv
<1>9. CASE Statement
  BY <1>0, <1>9, StatementTyped
<1> QED
  BY <1>1, <1>2, <1>3, <1>4, <1>5, <1>6, <1>7, <1>8, <1>9, PeerCallTyped DEF Next

LEMMA RowsAreTyped == StoreInv /\ RowsInv => TypeOK
<1> SUFFICES ASSUME StoreInv, RowsInv PROVE TypeOK
  OBVIOUS
<1>1. ASSUME NEW t, Typed(t)
      PROVE  /\ t.broadcasts \subseteq Broadcast
             /\ DOMAIN t.peers \subseteq Broadcast \X Peer
             /\ Range(t.segments) \subseteq Broadcast \X Peer \X Segment
             /\ \A k \in DOMAIN t.stats : t.stats[k] \in Traffic
  BY <1>1 DEF Typed, Range, Rows
<1>2. ~grouped /\ script = <<>> => disk = work
  BY DEF StoreInv, RowsInv
<1>3. grouped \in BOOLEAN /\ Typed(disk) /\ Typed(work) /\ Typed(before)
  BY DEF RowsInv
<1>4. \A t \in {disk, work, before} : Typed(t)
  BY <1>3
<1> QED
  BY <1>1, <1>2, <1>3, <1>4, Zenon DEF TypeOK

\* At any point of a call, after any failure or crash, the tables hold rows of
\* known broadcasts, peers and segments only, and outside a group commit what
\* is committed between calls is what the store works on (sqlite-store.ts).
THEOREM StoreTypeCorrect ==
  ASSUME Traffic \subseteq Nat, 0 \in Traffic, MaxSegments \in Nat, MaxCharacters \in Nat
  PROVE  Spec => []TypeOK
<1>1. Init => StoreInv /\ RowsInv
  BY StoreStarts, RowsStart
<1>2. StoreInv /\ RowsInv /\ [Next]_vars => StoreInv' /\ RowsInv'
  BY StoreKeeps, RowsStayTyped DEF Kept
<1> QED
  BY <1>1, <1>2, RowsAreTyped, PTL DEF Spec
-----------------------------------------------------------------------------
(* The limits: what a store that makes TrackerStore's steps can hold.       *)

\* A database as its callers see it is made of broadcasts, peers and rows.
Shaped(d) ==
  /\ d = [b \in DOMAIN d |-> d[b]]
  /\ \A b \in DOMAIN d :
       /\ d[b] = [peers |-> d[b].peers, retired |-> d[b].retired]
       /\ d[b].peers = [p \in DOMAIN d[b].peers |-> d[b].peers[p]]
       /\ \A p \in DOMAIN d[b].peers :
            d[b].peers[p] = [segments |-> d[b].peers[p].segments, traffic |-> d[b].peers[p].traffic,
                             quality |-> d[b].peers[p].quality, seen |-> d[b].peers[p].seen]

ListWithin(listed) ==
  /\ IsFiniteSet(DOMAIN listed.peers) /\ Cardinality(DOMAIN listed.peers) <= MaxPeers
  /\ \A p \in DOMAIN listed.peers : Store!InventoryFits(listed.peers[p].segments)
WithinLimits(d) == \A b \in DOMAIN d : ListWithin(d[b])

LEMMA ViewShaped == ASSUME NEW t, Sound(t) PROVE Shaped(View(t))
<1> DEFINE d == View(t)
<1>1. d = [b \in t.broadcasts |-> Listed(t, b)]
  BY ViewOf DEF Listed
<1> HIDE DEF d
<1>2. DOMAIN d = t.broadcasts /\ \A b \in t.broadcasts : d[b] = Listed(t, b)
  BY <1>1
<1>3. ASSUME NEW b \in DOMAIN d
      PROVE  /\ d[b].peers = [p \in PeersOf(t, b) |-> Row(t, b, p)]
             /\ d[b] = [peers |-> d[b].peers, retired |-> d[b].retired]
  <2> DEFINE rows == [p \in PeersOf(t, b) |-> Row(t, b, p)]
  <2>1. d[b] = [peers |-> rows, retired |-> RetiredOf(t, b)]
    BY <1>2 DEF Listed
  <2> HIDE DEF rows
  <2>2. d[b].peers = rows /\ d[b].retired = RetiredOf(t, b)
    BY <2>1
  <2> QED
    BY <2>1, <2>2 DEF rows
<1>4. \A b, p, x : x = Row(t, b, p) =>
        x = [segments |-> x.segments, traffic |-> x.traffic, quality |-> x.quality, seen |-> x.seen]
  BY DEF Row
<1>5. ASSUME NEW b \in DOMAIN d
      PROVE  /\ DOMAIN d[b].peers = PeersOf(t, b)
             /\ \A p \in PeersOf(t, b) : d[b].peers[p] = Row(t, b, p)
             /\ d[b].peers = [p \in DOMAIN d[b].peers |-> d[b].peers[p]]
  BY <1>3
<1>6. d = [b \in DOMAIN d |-> d[b]]
  BY <1>1
<1>7. ASSUME NEW b \in DOMAIN d, NEW p \in DOMAIN d[b].peers
      PROVE  d[b].peers[p] = [segments |-> d[b].peers[p].segments, traffic |-> d[b].peers[p].traffic,
                              quality |-> d[b].peers[p].quality, seen |-> d[b].peers[p].seen]
  <2>1. d[b].peers[p] = Row(t, b, p)
    BY <1>5, <1>7
  <2> QED
    BY <1>4, <2>1, Zenon
<1>8. Shaped(d)
  BY <1>3, <1>5, <1>6, <1>7, Zenon DEF Shaped
<1> QED
  BY <1>8 DEF d

\* One broadcast is changed.
LEMMA OneWithin ==
  ASSUME NEW d, WithinLimits(d), d = [c \in DOMAIN d |-> d[c]], NEW b, NEW listed, ListWithin(listed), NEW e
  PROVE  e = [d EXCEPT ![b] = listed] => WithinLimits(e)
<1> HAVE e = [d EXCEPT ![b] = listed]
<1>1. DOMAIN e = DOMAIN d /\ \A c \in DOMAIN d : e[c] = listed \/ e[c] = d[c]
  OBVIOUS
<1> QED
  BY <1>1, Zenon DEF WithinLimits

\* One row is rewritten.
LEMMA RowWithin ==
  ASSUME NEW d, WithinLimits(d), Shaped(d), NEW b \in DOMAIN d, NEW p, NEW row,
         Store!InventoryFits(row.segments), NEW e
  PROVE  e = [d EXCEPT ![b].peers[p] = row] => WithinLimits(e)
<1> DEFINE old == d[b].peers
           new == [old EXCEPT ![p] = row]
           listed == [d[b] EXCEPT !.peers = new]
<1> HAVE e = [d EXCEPT ![b].peers[p] = row]
<1>1. e = [d EXCEPT ![b] = listed]
  OBVIOUS
<1>2. d[b] = [peers |-> old, retired |-> d[b].retired] /\ old = [q \in DOMAIN old |-> old[q]]
  BY DEF Shaped
<1>3. DOMAIN new = DOMAIN old /\ \A q \in DOMAIN old : new[q] = row \/ new[q] = old[q]
  BY <1>2
<1>4. listed.peers = new
  BY <1>2
<1>5. ListWithin(d[b])
  BY DEF WithinLimits
<1> HIDE DEF new, listed
<1>6. ListWithin(listed)
  BY <1>3, <1>4, <1>5 DEF ListWithin
<1>7. d = [c \in DOMAIN d |-> d[c]]
  BY DEF Shaped
<1> QED
  BY <1>1, <1>6, <1>7, OneWithin

\* Peers leave.
LEMMA RetiredWithin ==
  ASSUME MaxPeers \in Nat, NEW listed, ListWithin(listed), NEW S
  PROVE  ListWithin(A!Retired(listed, S))
<1> DEFINE left == A!Retired(listed, S)
<1>1. left.peers = [p \in DOMAIN listed.peers \ S |-> listed.peers[p]]
  BY DEF A!Retired, A!Drop
<1> HIDE DEF left
<1>2. /\ DOMAIN left.peers \subseteq DOMAIN listed.peers
      /\ \A p \in DOMAIN left.peers : left.peers[p] = listed.peers[p]
  BY <1>1
<1>3. IsFiniteSet(DOMAIN left.peers) /\ Cardinality(DOMAIN left.peers) <= Cardinality(DOMAIN listed.peers)
  BY <1>2, FS_Subset DEF ListWithin
<1>4. Cardinality(DOMAIN left.peers) \in Nat /\ Cardinality(DOMAIN listed.peers) \in Nat
  BY <1>3, FS_CardinalityType DEF ListWithin
<1>5. ListWithin(left)
  BY <1>2, <1>3, <1>4 DEF ListWithin
<1> QED
  BY <1>5 DEF left

\* What an operation makes of the database is within the limits.
LEMMA BecomesWithin ==
  ASSUME NEW d, NEW e, A!Becomes(e), View(before) = d, WithinLimits(e), WithinLimits(View(disk))
  PROVE  WithinLimits(View(before))' /\ WithinLimits(View(disk))'
<1>1. View(before)' = e /\ View(disk)' \in {View(disk), e}
  BY DEF A!Becomes
<1> QED
  BY <1>1, Zenon DEF WithinLimits

\* The row of a peer that was seen has the segments it is given.
RowOf(x) == x = [segments |-> x.segments, traffic |-> x.traffic, quality |-> x.quality, seen |-> x.seen]

LEMMA RewrittenWithin ==
  ASSUME NEW d, WithinLimits(d), Shaped(d), View(before) = d, NEW b \in DOMAIN d, NEW p, NEW row,
         RowOf(row), Store!InventoryFits(row.segments)
  PROVE  WithinLimits(A!Rewritten(b, p, row))
<1> DEFINE e == A!Rewritten(b, p, row)
           now == [row EXCEPT !.seen = Yes]
<1>1. e = [d EXCEPT ![b].peers[p] = now]
  BY DEF A!Rewritten, Yes
<1>2. now.segments = row.segments
  BY DEF RowOf
<1> HIDE DEF now, e
<1>3. WithinLimits(e)
  BY <1>1, <1>2, RowWithin
<1> QED
  BY <1>3 DEF e

\* The operations of TrackerStore on one peer.
LEMMA PeerStepWithin ==
  ASSUME MaxPeers \in Nat, MaxSegments \in Nat, MaxCharacters \in Nat, NEW d, WithinLimits(d), Shaped(d), View(before) = d,
         NEW b \in Broadcast, NEW p \in Peer,
         \/ A!JoinPeer(b, p) \/ A!LeavePeer(b, p) \/ A!ReportSegments(b, p) \/ A!Heartbeat(b, p)
         \/ A!ReportStats(b, p) \/ A!Penalize(b, p)
  PROVE  \E e : A!Becomes(e) /\ WithinLimits(e)
<1> DEFINE row == d[b].peers[p]
<1>0. b \in DOMAIN d
  BY DEF A!JoinPeer, A!LeavePeer, A!ReportSegments, A!Heartbeat, A!ReportStats, A!Penalize, A!Member
<1>1. ASSUME A!Member(b, p)
      PROVE  RowOf(row) /\ Store!InventoryFits(row.segments)
  BY <1>1 DEF A!Member, Shaped, WithinLimits, ListWithin, RowOf
<1>2. ASSUME NEW x, RowOf(x), Store!InventoryFits(x.segments), A!Becomes(A!Rewritten(b, p, x))
      PROVE  \E e : A!Becomes(e) /\ WithinLimits(e)
  BY <1>0, <1>2, RewrittenWithin, Zenon
<1> HIDE DEF row
<1>3. CASE A!JoinPeer(b, p)
  <2>1. CASE A!Member(b, p)
    <3>1. A!Becomes(A!Rewritten(b, p, row))
      BY <1>3, <2>1 DEF A!JoinPeer, row
    <3> QED
      BY <1>1, <1>2, <2>1, <3>1
  <2>2. CASE ~A!Member(b, p)
    <3> DEFINE old == d[b].peers
               put == A!Put(old, p, A!NewPeer)
               listed == [d[b] EXCEPT !.peers = put]
               e == [d EXCEPT ![b] = listed]
    <3>1. A!Becomes([d EXCEPT ![b].peers = put]) /\ Cardinality(DOMAIN old) < MaxPeers
      BY <1>3, <2>2, SameCardinality DEF A!JoinPeer
    <3>2. A!Becomes(e)
      BY <3>1
    <3>3. DOMAIN put = DOMAIN old \cup {p} /\ put[p] = A!NewPeer /\ \A q \in DOMAIN old : q # p => put[q] = old[q]
      BY DEF A!Put
    <3>4. A!NewPeer.segments = {}
      BY DEF A!NewPeer
    <3>5. p \notin DOMAIN old
      BY <1>0, <2>2 DEF A!Member
    <3>6. ListWithin(d[b])
      BY <1>0 DEF WithinLimits
    <3>7. IsFiniteSet(DOMAIN put) /\ Cardinality(DOMAIN put) = Cardinality(DOMAIN old) + 1
      BY <3>3, <3>5, <3>6, FS_AddElement DEF ListWithin
    <3>8. Cardinality(DOMAIN old) \in Nat
      BY <3>6, FS_CardinalityType DEF ListWithin
    <3>9. listed.peers = put
      BY <1>0 DEF Shaped
    <3> HIDE DEF put, listed
    <3>10. \A q \in DOMAIN put : Store!InventoryFits(put[q].segments)
      <4>1. Store!InventoryFits(put[p].segments)
        <5>1. put[p].segments = {}
          BY <3>3, <3>4
        <5> QED
          BY <5>1, EmptyFits
      <4>2. \A q \in DOMAIN old : q # p => Store!InventoryFits(put[q].segments)
        BY <3>3, <3>6 DEF ListWithin
      <4> QED
        BY <3>3, <4>1, <4>2
    <3>11. ListWithin(listed)
      BY <3>1, <3>7, <3>8, <3>9, <3>10 DEF ListWithin
    <3>12. WithinLimits(e)
      BY <3>11, OneWithin DEF Shaped
    <3> QED
      BY <3>2, <3>12
  <2> QED
    BY <2>1, <2>2
<1>4. CASE A!LeavePeer(b, p)
  <2> DEFINE listed == A!Retired(d[b], {p})
             e == [d EXCEPT ![b] = listed]
  <2>1. A!Becomes(e)
    BY <1>4 DEF A!LeavePeer
  <2>2. ListWithin(listed)
    BY <1>0, RetiredWithin DEF WithinLimits
  <2> HIDE DEF listed
  <2>3. WithinLimits(e)
    BY <2>2, OneWithin DEF Shaped
  <2> QED
    BY <2>1, <2>3
<1>5. CASE A!ReportSegments(b, p)
  <2>1. PICK S : \E kept \in A!Limited(S) : A!Becomes(A!Rewritten(b, p, [row EXCEPT !.segments = kept]))
    BY <1>5 DEF A!ReportSegments, row
  <2>2. PICK kept \in A!Limited(S) : A!Becomes(A!Rewritten(b, p, [row EXCEPT !.segments = kept]))
    BY <2>1
  <2>3. Store!InventoryFits(kept)
    BY SameInventory DEF A!Limited
  <2> DEFINE x == [row EXCEPT !.segments = kept]
  <2>4. RowOf(x) /\ x.segments = kept
    BY <1>1, <1>5 DEF RowOf, A!ReportSegments
  <2> HIDE DEF x
  <2> QED
    BY <1>2, <2>2, <2>3, <2>4 DEF x
<1>6. CASE A!Heartbeat(b, p)
  <2>1. PICK q \in Quality : A!Becomes(A!Rewritten(b, p, [row EXCEPT !.quality = q]))
    BY <1>6 DEF A!Heartbeat, row
  <2> DEFINE x == [row EXCEPT !.quality = q]
  <2>2. RowOf(x) /\ x.segments = row.segments
    BY <1>1, <1>6 DEF RowOf, A!Heartbeat
  <2>3. Store!InventoryFits(x.segments)
    BY <1>1, <1>6, <2>2 DEF A!Heartbeat
  <2> HIDE DEF x
  <2> QED
    BY <1>2, <2>1, <2>2, <2>3 DEF x
<1>7. CASE A!ReportStats(b, p)
  <2>1. PICK n \in Traffic : A!Becomes(A!Rewritten(b, p, [row EXCEPT !.traffic = n]))
    BY <1>7 DEF A!ReportStats, row
  <2> DEFINE x == [row EXCEPT !.traffic = n]
  <2>2. RowOf(x) /\ x.segments = row.segments
    BY <1>1, <1>7 DEF RowOf, A!ReportStats
  <2>3. Store!InventoryFits(x.segments)
    BY <1>1, <1>7, <2>2 DEF A!ReportStats
  <2> HIDE DEF x
  <2> QED
    BY <1>2, <2>1, <2>2, <2>3 DEF x
<1>8. CASE A!Penalize(b, p)
  <2>1. PICK q \in Quality : A!Becomes([d EXCEPT ![b].peers[p].quality = q])
    BY <1>8 DEF A!Penalize
  <2> DEFINE x == [row EXCEPT !.quality = q]
             e == [d EXCEPT ![b].peers[p] = x]
  <2>2. A!Becomes(e)
    BY <2>1 DEF row
  <2>3. x.segments = row.segments
    BY <1>1, <1>8 DEF RowOf, A!Penalize
  <2>4. Store!InventoryFits(x.segments)
    BY <1>1, <1>8, <2>3 DEF A!Penalize
  <2> HIDE DEF x
  <2>5. WithinLimits(e)
    BY <1>0, <2>4, RowWithin
  <2> QED
    BY <2>2, <2>5
<1> QED
  BY <1>3, <1>4, <1>5, <1>6, <1>7, <1>8

\* Nobody was seen of late: the rows keep their segments.
LEMMA AgedWithin ==
  ASSUME NEW d, WithinLimits(d), Shaped(d)
  PROVE  WithinLimits(AgedView(d))
<1> DEFINE e == AgedView(d)
<1>1. ASSUME NEW b \in DOMAIN d PROVE ListWithin(e[b])
  <2> DEFINE listed == d[b]
             aged == AgedPeers(listed)
  <2>1. DOMAIN aged = DOMAIN listed.peers /\ \A p \in DOMAIN aged : aged[p] = Unseen(listed.peers[p])
    BY DEF AgedPeers
  <2> HIDE DEF aged
  <2>2. \A p \in DOMAIN aged : aged[p].segments = listed.peers[p].segments
    <3> TAKE p \in DOMAIN aged
    <3> DEFINE row == listed.peers[p]
    <3>0. p \in DOMAIN d[b].peers
      BY <2>1
    <3>1. RowOf(row)
      BY <1>1, <3>0 DEF Shaped, RowOf
    <3> HIDE DEF row
    <3>2. Unseen(row).segments = row.segments
      BY <3>1 DEF Unseen, RowOf
    <3> QED
      BY <2>1, <3>2 DEF row
  <2>3. e[b].peers = aged
    <3>1. e[b] = [listed EXCEPT !.peers = aged]
      BY <1>1 DEF AgedView, aged
    <3>2. listed = [peers |-> listed.peers, retired |-> listed.retired]
      BY <1>1, Zenon DEF Shaped
    <3> HIDE DEF e, listed
    <3> QED
      BY <3>1, <3>2
  <2>4. ListWithin(listed)
    BY <1>1 DEF WithinLimits
  <2> HIDE DEF e
  <2> QED
    BY <2>1, <2>2, <2>3, <2>4 DEF ListWithin
<1>2. DOMAIN e = DOMAIN d
  BY DEF AgedView
<1> HIDE DEF e
<1>3. WithinLimits(e)
  BY <1>1, <1>2 DEF WithinLimits
<1> QED
  BY <1>3 DEF e

\* Callers, and the disk, are within the limits.
BothWithin == WithinLimits(View(before)) /\ WithinLimits(View(disk))

LEMMA StepWithin ==
  ASSUME MaxPeers \in Nat, MaxSegments \in Nat, MaxCharacters \in Nat, StoreInv, StoreInv', BothWithin,
         [A!StoreNext]_(A!storeVars)
  PROVE  BothWithin'
<1> DEFINE d == View(before)
<1>0. Shaped(View(before)) /\ Shaped(View(disk))
  BY ViewShaped DEF StoreInv
<1>1. WithinLimits(d) /\ Shaped(d) /\ WithinLimits(View(disk))
  BY <1>0 DEF BothWithin
<1>2. ASSUME NEW e, A!Becomes(e), WithinLimits(e) PROVE BothWithin'
  BY <1>1, <1>2, BecomesWithin DEF BothWithin
<1>3. CASE UNCHANGED (A!storeVars)
  <2>1. View(before)' = View(before) /\ View(disk)' = View(disk)
    BY <1>3 DEF A!storeVars
  <2> QED
    BY <1>1, <2>1, Zenon DEF BothWithin, WithinLimits
<1>4. ASSUME NEW b \in Broadcast, A!RegisterBroadcast(b) PROVE BothWithin'
  <2> DEFINE e == A!Put(d, b, A!NewBroadcast)
  <2>1. DOMAIN e = DOMAIN d \cup {b} /\ e[b] = A!NewBroadcast /\ \A c \in DOMAIN d : c # b => e[c] = d[c]
    BY DEF A!Put
  <2>2. A!Becomes(e)
    BY <1>4 DEF A!RegisterBroadcast
  <2>3. DOMAIN A!NewBroadcast.peers = {}
    BY DEF A!NewBroadcast
  <2> HIDE DEF e
  <2>4. IsFiniteSet({}) /\ Cardinality({}) = 0
    BY FS_EmptySet
  <2>5. ListWithin(e[b])
    BY <2>1, <2>3, <2>4 DEF ListWithin
  <2>6. \A c \in DOMAIN e : ListWithin(e[c])
    BY <1>1, <2>1, <2>5 DEF WithinLimits
  <2> QED
    BY <1>2, <2>2, <2>6 DEF WithinLimits
<1>5. ASSUME NEW b \in Broadcast, A!UnregisterBroadcast(b) PROVE BothWithin'
  <2> DEFINE e == A!Drop(d, {b})
  <2>1. DOMAIN e \subseteq DOMAIN d /\ \A c \in DOMAIN e : e[c] = d[c]
    BY DEF A!Drop
  <2>2. A!Becomes(e)
    BY <1>5 DEF A!UnregisterBroadcast
  <2> HIDE DEF e
  <2>3. \A c \in DOMAIN e : ListWithin(e[c])
    BY <1>1, <2>1 DEF WithinLimits
  <2> QED
    BY <1>2, <2>2, <2>3 DEF WithinLimits
<1>6. CASE A!RemoveStalePeers
  <2> DEFINE e == [b \in DOMAIN d |-> A!Retired(d[b], A!Stale(d[b]))]
  <2>1. A!Becomes(e)
    BY <1>6 DEF A!RemoveStalePeers
  <2>2. DOMAIN e = DOMAIN d /\ \A b \in DOMAIN d : e[b] = A!Retired(d[b], A!Stale(d[b]))
    OBVIOUS
  <2> HIDE DEF e
  <2>3. \A b \in DOMAIN e : ListWithin(e[b])
    BY <1>1, <2>2, RetiredWithin DEF WithinLimits
  <2> QED
    BY <1>2, <2>1, <2>3 DEF WithinLimits
<1>7. CASE A!AllAge
  <2>1. View(before)' = AgedView(View(before)) /\ View(disk)' = AgedView(View(disk))
    BY <1>7 DEF A!AllAge, AgedView, AgedPeers, Unseen, No
  <2>2. WithinLimits(AgedView(View(before))) /\ WithinLimits(AgedView(View(disk)))
    BY <1>0, AgedWithin DEF BothWithin
  <2> QED
    BY <2>1, <2>2, Zenon DEF BothWithin, WithinLimits
<1>8. CASE A!Persist \/ A!Restart
  <2>1. View(before)' \in {View(before), View(disk)} /\ View(disk)' \in {View(before), View(disk)}
    BY <1>8 DEF A!Persist, A!Restart
  <2> QED
    BY <1>1, <2>1, Zenon DEF BothWithin, WithinLimits
<1>9. ASSUME NEW b \in Broadcast, NEW p \in Peer,
             \/ A!JoinPeer(b, p) \/ A!LeavePeer(b, p) \/ A!ReportSegments(b, p) \/ A!Heartbeat(b, p)
             \/ A!ReportStats(b, p) \/ A!Penalize(b, p)
      PROVE  BothWithin'
  <2>1. \E e : A!Becomes(e) /\ WithinLimits(e)
    BY <1>1, <1>9, PeerStepWithin
  <2> QED
    BY <1>2, <2>1
<1> QED
  BY <1>3, <1>4, <1>5, <1>6, <1>7, <1>8, <1>9 DEF A!StoreNext

\* No broadcast ever has more peers than maxPeers, and no inventory more
\* segments than maxSegmentsPerPeer or longer names in all than
\* MAX_INVENTORY_CHARACTERS_PER_PEER, neither for callers nor on disk: a call
\* that was rolled back, a crash and a sweep in between notwithstanding
\* (sqlite-store.ts, joinPeer, limitInventory).
THEOREM StoreIsBounded ==
  ASSUME Traffic \subseteq Nat, MaxPeers \in Nat, MaxSegments \in Nat, MaxCharacters \in Nat
  PROVE  Spec => []BothWithin
<1>1. Init => StoreInv /\ BothWithin
  <2> SUFFICES ASSUME Init PROVE StoreInv /\ BothWithin
    OBVIOUS
  <2>1. DOMAIN A!EmptyDb = {} /\ View(before) = A!EmptyDb /\ View(disk) = A!EmptyDb
    BY StoreStarts DEF A!StoreInit, A!EmptyDb
  <2> QED
    BY <2>1, StoreStarts DEF BothWithin, WithinLimits
<1>2. StoreInv /\ BothWithin /\ [Next]_vars => StoreInv' /\ BothWithin'
  BY StoreKeeps, StepWithin DEF Kept
<1> QED
  BY <1>1, <1>2, PTL DEF Spec
=============================================================================
