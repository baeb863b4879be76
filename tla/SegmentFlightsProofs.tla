------------------------ MODULE SegmentFlightsProofs ------------------------
(***************************************************************************)
(* Proofs about SegmentFlights: its invariants hold for any number of      *)
(* segments, flights and consumers.                                        *)
(***************************************************************************)
EXTENDS SegmentFlights, TLAPS

\* What a flight has counted, by where it stands: only a peer asked alone is
\* counted before the flight is over.
Counting ==
  \A f \in Flights :
    /\ Running(f) => originBytes[f] = 0
    /\ phase[f] \in {"listing", "origin", "hedged"} => p2pBytes[f] = 0
    /\ phase[f] = "peer" => p2pBytes[f] = IF peer[f] = "ok" THEN 1 ELSE 0

\* While nobody has cut a flight off, its peer did not fail of that; only a
\* peer that has failed is blamed, and none before it was asked.
OwnFailure == {"peer", "mismatch", "hash"}
Faults ==
  \A f \in Flights :
    /\ peer[f] = "bad" /\ ~Cut(f) => failure[f] \in OwnFailure
    /\ blamed[f] # "none" => peer[f] \in {"bad", "lost"}
    /\ phase[f] = "listing" => peer[f] = "none"

\* What depends on the consumers only, and what on the flights.
ConsumerInv == AbortsArePrivate /\ NobodyWaitsAborted
FlightInv   == OneFlight /\ CountedOnce /\ NoFalseBlame /\ Counting /\ Faults
IInv        == TypeOK /\ ConsumerInv /\ FlightInv

-----------------------------------------------------------------------------
\* Nothing that happens inside a flight concerns its consumers, as long as a
\* flight that is over stays over.
LEMMA ConsumersKept ==
  ASSUME ConsumerInv, UNCHANGED <<waits, aborted, late>>,
         \A f \in Flights : Running(f)' => Running(f),
         TypeOK
  PROVE  ConsumerInv'
<1>1. \A f : Waiting(f)' = Waiting(f)
  BY DEF Waiting
<1>2. AbortsArePrivate'
  BY DEF AbortsArePrivate, ConsumerInv, TypeOK
<1>3. NobodyWaitsAborted'
  BY <1>1 DEF NobodyWaitsAborted, ConsumerInv
<1> QED
  BY <1>2, <1>3 DEF ConsumerInv

\* A flight that ends leaves the map; no other does.
LEMMA SettleKeepsOneFlight ==
  ASSUME TypeOK, OneFlight, NEW f \in Flights, Running(f),
         NEW outcome \in {"fulfilled", "rejected"}, Settle(f, outcome),
         UNCHANGED target
  PROVE  /\ OneFlight'
         /\ phase' = [phase EXCEPT ![f] = outcome]
         /\ cached' \subseteq Segments
         /\ inFlight' \in [Segments -> Flights \cup {NoFlight}]
         /\ \A g \in Flights : Running(g)' <=> Running(g) /\ g # f
<1>1. /\ phase' = [phase EXCEPT ![f] = outcome]
      /\ inFlight' = [inFlight EXCEPT ![target[f]] = NoFlight]
      /\ target[f] \in Segments /\ inFlight[target[f]] = f
  BY DEF Settle, OneFlight, TypeOK
<1>2. \A g \in Flights : Running(g)' <=> Running(g) /\ g # f
  BY <1>1 DEF Running, TypeOK
<1>3. \A g \in Flights : Running(g)' => inFlight'[target'[g]] = g
  BY <1>1, <1>2 DEF OneFlight, TypeOK
<1>4. \A s \in Segments : (inFlight[s] # NoFlight =>
        Running(inFlight[s]) /\ target[inFlight[s]] = s)'
  BY <1>1, <1>2 DEF OneFlight, TypeOK
<1>5. cached' \subseteq Segments /\ inFlight' \in [Segments -> Flights \cup {NoFlight}]
  BY <1>1 DEF Settle, TypeOK
<1> QED
  BY <1>1, <1>2, <1>3, <1>4, <1>5 DEF OneFlight

\* A flight that goes on stays in the map.
LEMMA ContinueKeepsOneFlight ==
  ASSUME TypeOK, OneFlight, Continue, UNCHANGED target,
         \A f \in Flights : Running(f)' <=> Running(f)
  PROVE  /\ OneFlight'
         /\ cached' \subseteq Segments
         /\ inFlight' \in [Segments -> Flights \cup {NoFlight}]
<1>1. inFlight' = inFlight /\ cached' = cached /\ target' = target
  BY DEF Continue
<1>2. \A s \in Segments : inFlight[s] # NoFlight =>
        Running(inFlight[s]) /\ target[inFlight[s]] = s /\ inFlight[s] \in Flights
  BY DEF OneFlight, TypeOK
<1>3. \A s \in Segments : (inFlight[s] # NoFlight =>
        Running(inFlight[s]) /\ target[inFlight[s]] = s)'
  BY <1>1, <1>2
<1>4. \A f \in Flights : Running(f)' => inFlight'[target'[f]] = f
  BY <1>1 DEF OneFlight
<1> QED
  BY <1>1, <1>3, <1>4 DEF OneFlight, TypeOK

-----------------------------------------------------------------------------
(* The steps of a flight *)

\* The plan starts requests, and counts nothing.
LEMMA PlannedInv ==
  ASSUME IInv, NEW f \in Flights, Planned(f)
  PROVE  IInv'
<1> USE DEF IInv, FlightInv
<1>1. \A g \in Flights : Running(g)' <=> Running(g)
  BY DEF Planned, Running, TypeOK
<1>2. OneFlight' /\ TypeOK'
  BY <1>1, ContinueKeepsOneFlight DEF Planned, TypeOK, requestVars, countVars
<1>3. ConsumerInv'
  BY <1>1, ConsumersKept DEF Planned
<1>4. CountedOnce' /\ NoFalseBlame' /\ Counting'
  BY <1>1 DEF Planned, TypeOK, CountedOnce, NoFalseBlame, Counting, countVars, Running
<1>5. Faults'
  BY DEF Planned, TypeOK, Faults, Cut, Settled, countVars
<1> QED
  BY <1>2, <1>3, <1>4, <1>5

\* An answer of the peer is counted only if the peer was asked alone, and its
\* failure is its own unless it was cut off.
LEMMA PeerEndsInv ==
  ASSUME IInv, NEW f \in Flights, PeerEnds(f)
  PROVE  IInv'
<1> USE DEF IInv, FlightInv
<1>1. \A g \in Flights : Running(g)' <=> Running(g)
  BY DEF PeerEnds, Running
<1>2. OneFlight'
  BY <1>1, ContinueKeepsOneFlight DEF PeerEnds
<1>3. TypeOK'
  <2>1. failure' \in [Flights -> Causes \cup {"none"}]
    BY DEF PeerEnds, TypeOK, Causes
  <2>2. p2pBytes' \in [Flights -> 0..1]
    BY DEF PeerEnds, TypeOK, Accounts, Counting
  <2>3. peer' \in [Flights -> {"none", "running", "ok", "bad", "lost"}]
    BY DEF PeerEnds, TypeOK
  <2> QED
    BY <2>1, <2>2, <2>3 DEF PeerEnds, TypeOK, Continue
<1>4. ConsumerInv'
  BY <1>1, ConsumersKept DEF PeerEnds
<1>5. CountedOnce' /\ Counting'
  BY <1>1 DEF PeerEnds, TypeOK, CountedOnce, Counting, Accounts, Running
<1>6. NoFalseBlame'
  BY DEF PeerEnds, TypeOK, NoFalseBlame, Faults
<1>7. Faults'
  <2>1. \A g \in Flights : Cut(g)' <=> Cut(g)
    BY DEF PeerEnds, Cut, Settled
  <2>2. /\ peer' = [peer EXCEPT ![f] = peer'[f]] /\ f \in DOMAIN peer /\ peer[f] = "running"
        /\ blamed' = blamed /\ phase' = phase
        /\ peer'[f] = "bad" => \E cause \in IF Cut(f) THEN {"cut"} ELSE Causes \ {"cut"} :
             failure' = [failure EXCEPT ![f] = cause]
        /\ failure' = failure \/ \E cause \in Causes : failure' = [failure EXCEPT ![f] = cause]
    BY DEF PeerEnds, TypeOK, Causes
  <2> QED
    BY <2>1, <2>2 DEF Faults, TypeOK, Causes, OwnFailure
<1> QED
  BY <1>2, <1>3, <1>4, <1>5, <1>6, <1>7

\* What the origin's request does by itself, nobody counts.
LEMMA OriginRequestInv ==
  ASSUME IInv, NEW f \in Flights, HedgeDelay(f) \/ OriginEnds(f)
  PROVE  IInv'
<1> USE DEF IInv, FlightInv
<1>1. \A g \in Flights : Running(g)' <=> Running(g)
  BY DEF HedgeDelay, OriginEnds, Running
<1>2. OneFlight'
  BY <1>1, ContinueKeepsOneFlight DEF HedgeDelay, OriginEnds
<1>2a. UNCHANGED <<cached, inFlight, phase, target, aborted, peer, waits, stopped, late>>
  BY DEF HedgeDelay, OriginEnds, Continue
<1>2b. UNCHANGED countVars /\ origin' \in [Flights -> {"none", "waiting", "running", "ok", "bad", "lost"}]
  BY DEF HedgeDelay, OriginEnds, TypeOK
<1>2c. TypeOK'
  BY <1>2a, <1>2b DEF TypeOK, countVars
<1>3. ConsumerInv'
  BY <1>1, ConsumersKept DEF HedgeDelay, OriginEnds
<1>4. CountedOnce' /\ NoFalseBlame' /\ Counting'
  BY <1>1 DEF HedgeDelay, OriginEnds, CountedOnce, NoFalseBlame, Counting, countVars
<1>5. Faults'
  BY DEF HedgeDelay, OriginEnds, Faults, Cut, Settled, countVars
<1> QED
  BY <1>2, <1>2c, <1>3, <1>4, <1>5

\* A peer asked alone ends the flight or is blamed and replaced by the origin.
LEMMA AfterPeerInv ==
  ASSUME IInv, NEW f \in Flights, AfterPeer(f)
  PROVE  IInv'
<1> USE DEF IInv, FlightInv
<1>0. Running(f) /\ phase[f] = "peer" /\ UNCHANGED <<target, waits, aborted, late>>
  BY DEF AfterPeer, Running
<1>1. CASE Settle(f, "fulfilled") \/ Settle(f, "rejected")
  <2>1. PICK outcome \in {"fulfilled", "rejected"} : Settle(f, outcome)
    BY <1>1
  <2>2. /\ OneFlight'
        /\ phase' = [phase EXCEPT ![f] = outcome]
        /\ cached' \subseteq Segments
        /\ inFlight' \in [Segments -> Flights \cup {NoFlight}]
        /\ \A g \in Flights : Running(g)' <=> Running(g) /\ g # f
    BY <1>0, <2>1, SettleKeepsOneFlight
  <2>3. /\ UNCHANGED <<origin, blamed, peer, p2pBytes, originBytes, failure, stopped>>
        /\ peer[f] = IF outcome = "fulfilled" THEN "ok" ELSE "bad"
    BY <1>0, <2>1, <2>2 DEF AfterPeer, Settle, TypeOK
  <2>4. TypeOK'
    BY <1>0, <2>2, <2>3 DEF TypeOK
  <2>5. ConsumerInv'
    BY <1>0, <2>2, ConsumersKept
  <2>6. CountedOnce' /\ Counting'
    BY <1>0, <2>2, <2>3 DEF CountedOnce, Counting, TypeOK
  <2>7. NoFalseBlame' /\ Faults'
    BY <1>0, <2>2, <2>3 DEF NoFalseBlame, Faults, TypeOK, Cut, Settled
  <2> QED
    BY <2>2, <2>4, <2>5, <2>6, <2>7
<1>2. CASE /\ peer[f] = "bad" /\ ~aborted[f] /\ ~stopped
           /\ Blame(f)
           /\ phase' = [phase EXCEPT ![f] = "origin"]
           /\ origin' = [origin EXCEPT ![f] = "running"]
           /\ Continue
  <2>1. UNCHANGED <<target, aborted, peer, p2pBytes, originBytes, failure, waits, stopped, late>>
    BY DEF AfterPeer
  <2>2. \A g \in Flights : Running(g)' <=> Running(g)
    BY <1>0, <1>2 DEF Running, TypeOK
  <2>3. OneFlight' /\ TypeOK'
    BY <1>2, <2>1, <2>2, ContinueKeepsOneFlight DEF TypeOK, Blame, ReportedReason
  <2>4. ConsumerInv'
    BY <2>1, <2>2, ConsumersKept
  <2>5. CountedOnce' /\ Counting'
    BY <1>0, <1>2, <2>1, <2>2 DEF CountedOnce, Counting, TypeOK
  <2>6. failure[f] \in OwnFailure
    BY <1>0, <1>2 DEF Faults, Cut, Settled
  <2>7. NoFalseBlame' /\ Faults'
    BY <1>0, <1>2, <2>1, <2>6
       DEF NoFalseBlame, Faults, TypeOK, Cut, Settled, Blame, ReportedReason, OwnFailure
  <2> QED
    BY <2>3, <2>4, <2>5, <2>7
<1> QED
  BY <1>1, <1>2 DEF AfterPeer

\* The origin ends the flight.
LEMMA AfterOriginInv ==
  ASSUME IInv, NEW f \in Flights, AfterOrigin(f)
  PROVE  IInv'
<1> USE DEF IInv, FlightInv
<1>1. Running(f) /\ phase[f] = "origin" /\ UNCHANGED <<target, waits, aborted, late>>
  BY DEF AfterOrigin, Running
<1>2. p2pBytes[f] = 0 /\ originBytes[f] = 0
  BY <1>1 DEF Counting
<1>3. PICK outcome \in {"fulfilled", "rejected"} : Settle(f, outcome)
  BY DEF AfterOrigin
<1>4. /\ OneFlight'
      /\ phase' = [phase EXCEPT ![f] = outcome]
      /\ cached' \subseteq Segments
      /\ inFlight' \in [Segments -> Flights \cup {NoFlight}]
      /\ \A g \in Flights : Running(g)' <=> Running(g) /\ g # f
  BY <1>1, <1>3, SettleKeepsOneFlight
<1>5. UNCHANGED <<peer, origin, p2pBytes, failure, blamed, stopped>>
  BY DEF AfterOrigin, requestVars
<1>6. originBytes' = [originBytes EXCEPT ![f] = IF outcome = "fulfilled" THEN 1 ELSE 0]
  BY <1>1, <1>2, <1>3, <1>4 DEF AfterOrigin, Settle, TypeOK
<1>7. TypeOK'
  BY <1>1, <1>4, <1>5, <1>6 DEF TypeOK
<1>8. ConsumerInv'
  BY <1>1, <1>4, ConsumersKept
<1>9. CountedOnce' /\ Counting'
  BY <1>1, <1>2, <1>4, <1>5, <1>6 DEF CountedOnce, Counting, TypeOK
<1>10. NoFalseBlame' /\ Faults'
  BY <1>1, <1>4, <1>5 DEF NoFalseBlame, Faults, TypeOK, Cut, Settled
<1> QED
  BY <1>4, <1>7, <1>8, <1>9, <1>10

\* The peer wins the race, or is blamed and out of it.
LEMMA RacePeerInv ==
  ASSUME IInv, NEW f \in Flights, RacePeer(f)
  PROVE  IInv'
<1> USE DEF IInv, FlightInv
<1>1. /\ Running(f) /\ phase[f] = "hedged"
      /\ UNCHANGED <<target, waits, aborted, late, originBytes, failure, stopped>>
  BY DEF RacePeer, Running
<1>2. p2pBytes[f] = 0 /\ originBytes[f] = 0
  BY <1>1 DEF Counting
<1>3. \/ blamed' = blamed
      \/ /\ blamed' = [blamed EXCEPT ![f] = ReportedReason(f)]
         /\ failure[f] \in OwnFailure
         /\ peer' = [peer EXCEPT ![f] = "lost"]
  <2>1. blamed' = blamed \/ (Blame(f) /\ peer[f] = "bad" /\ ~Ended(f)
                              /\ peer' = [peer EXCEPT ![f] = "lost"])
    BY DEF RacePeer, requestVars
  <2>2. peer[f] = "bad" /\ ~Ended(f) => failure[f] \in OwnFailure
    BY <1>1 DEF Faults, Cut, Settled, Ended
  <2> QED
    BY <2>1, <2>2 DEF Blame
<1>4. \/ peer' = peer
      \/ peer[f] = "bad" /\ peer' = [peer EXCEPT ![f] = "lost"]
  BY DEF RacePeer, requestVars
<1>5. /\ blamed' \in [Flights -> {"none", "connection", "integrity"}]
      /\ peer' \in [Flights -> {"none", "running", "ok", "bad", "lost"}]
  BY <1>3, <1>4 DEF TypeOK, ReportedReason
<1>6. CASE \E outcome \in {"fulfilled", "rejected"} : Settle(f, outcome)
  <2>1. PICK outcome \in {"fulfilled", "rejected"} : Settle(f, outcome)
    BY <1>6
  <2>2. /\ OneFlight'
        /\ phase' = [phase EXCEPT ![f] = outcome]
        /\ cached' \subseteq Segments
        /\ inFlight' \in [Segments -> Flights \cup {NoFlight}]
        /\ \A g \in Flights : Running(g)' <=> Running(g) /\ g # f
    BY <1>1, <2>1, SettleKeepsOneFlight
  <2>3. origin' = origin
    BY <1>1, <2>2 DEF RacePeer, requestVars, TypeOK, Settle, Continue, Running
  <2>4. p2pBytes' = [p2pBytes EXCEPT ![f] = IF outcome = "fulfilled" THEN 1 ELSE 0]
    BY <1>1, <1>2, <2>1, <2>2 DEF RacePeer, Settle, TypeOK
  <2>5. TypeOK'
    <3>1. /\ phase' \in [Flights -> {"free", "listing", "peer", "origin", "hedged",
                                     "fulfilled", "rejected"}]
          /\ p2pBytes' \in [Flights -> 0..1]
      BY <2>2, <2>4 DEF TypeOK
    <3> QED
      BY <1>1, <1>5, <2>2, <2>3, <3>1 DEF TypeOK
  <2>6. ConsumerInv'
    BY <1>1, <2>2, ConsumersKept
  <2>7. CountedOnce' /\ Counting'
    BY <1>1, <1>2, <1>4, <2>2, <2>4 DEF CountedOnce, Counting, TypeOK
  <2>8. NoFalseBlame' /\ Faults'
    BY <1>1, <1>3, <1>4, <2>2
       DEF NoFalseBlame, Faults, TypeOK, Cut, Settled, ReportedReason, OwnFailure
  <2> QED
    BY <2>2, <2>5, <2>6, <2>7, <2>8
<1>7. CASE Continue /\ UNCHANGED <<phase, p2pBytes>>
           /\ origin' = [origin EXCEPT ![f] = IF @ = "waiting" THEN "running" ELSE @]
  <2>1. \A g \in Flights : Running(g)' <=> Running(g)
    BY <1>7 DEF Running
  <2>2. OneFlight' /\ cached' \subseteq Segments
        /\ inFlight' \in [Segments -> Flights \cup {NoFlight}]
    BY <1>1, <1>7, <2>1, ContinueKeepsOneFlight
  <2>3. TypeOK'
    BY <1>1, <1>5, <1>7, <2>2 DEF TypeOK
  <2>4. ConsumerInv'
    BY <1>1, <2>1, ConsumersKept
  <2>5. CountedOnce' /\ Counting'
    BY <1>1, <1>4, <1>7, <2>1 DEF CountedOnce, Counting, TypeOK
  <2>6. NoFalseBlame' /\ Faults'
    BY <1>1, <1>3, <1>4, <1>7
       DEF NoFalseBlame, Faults, TypeOK, Cut, Settled, ReportedReason, OwnFailure
  <2> QED
    BY <2>2, <2>3, <2>4, <2>5, <2>6
<1> QED
  BY <1>6, <1>7 DEF RacePeer

\* The origin wins the race, or is out of it.
LEMMA RaceOriginInv ==
  ASSUME IInv, NEW f \in Flights, RaceOrigin(f)
  PROVE  IInv'
<1> USE DEF IInv, FlightInv
<1>1. /\ Running(f) /\ phase[f] = "hedged"
      /\ UNCHANGED <<target, waits, aborted, late, peer, p2pBytes, failure, blamed, stopped>>
  BY DEF RaceOrigin, Running
<1>2. p2pBytes[f] = 0 /\ originBytes[f] = 0
  BY <1>1 DEF Counting
<1>3. origin' = origin \/ origin' = [origin EXCEPT ![f] = "lost"]
  BY DEF RaceOrigin
<1>4. CASE \E outcome \in {"fulfilled", "rejected"} : Settle(f, outcome)
  <2>1. PICK outcome \in {"fulfilled", "rejected"} : Settle(f, outcome)
    BY <1>4
  <2>2. /\ OneFlight'
        /\ phase' = [phase EXCEPT ![f] = outcome]
        /\ cached' \subseteq Segments
        /\ inFlight' \in [Segments -> Flights \cup {NoFlight}]
        /\ \A g \in Flights : Running(g)' <=> Running(g) /\ g # f
    BY <1>1, <2>1, SettleKeepsOneFlight
  <2>3. originBytes' = [originBytes EXCEPT ![f] = IF outcome = "fulfilled" THEN 1 ELSE 0]
    BY <1>1, <1>2, <2>1, <2>2 DEF RaceOrigin, OriginLost, Settle, TypeOK
  <2>4. TypeOK'
    BY <1>1, <1>3, <2>2, <2>3 DEF TypeOK
  <2>5. ConsumerInv'
    BY <1>1, <2>2, ConsumersKept
  <2>6. CountedOnce' /\ Counting'
    BY <1>1, <1>2, <2>2, <2>3 DEF CountedOnce, Counting, TypeOK
  <2>7. NoFalseBlame' /\ Faults'
    BY <1>1, <2>2 DEF NoFalseBlame, Faults, TypeOK, Cut, Settled
  <2> QED
    BY <2>2, <2>4, <2>5, <2>6, <2>7
<1>5. CASE Continue /\ UNCHANGED <<phase, originBytes>>
  <2>1. \A g \in Flights : Running(g)' <=> Running(g)
    BY <1>5 DEF Running
  <2>2. OneFlight' /\ cached' \subseteq Segments
        /\ inFlight' \in [Segments -> Flights \cup {NoFlight}]
    BY <1>1, <1>5, <2>1, ContinueKeepsOneFlight
  <2>3. TypeOK'
    BY <1>1, <1>3, <1>5, <2>2 DEF TypeOK
  <2>4. ConsumerInv'
    BY <1>1, <2>1, ConsumersKept
  <2>5. CountedOnce' /\ Counting'
    BY <1>1, <1>5, <2>1 DEF CountedOnce, Counting, TypeOK
  <2>6. NoFalseBlame' /\ Faults'
    BY <1>1, <1>5 DEF NoFalseBlame, Faults, TypeOK, Cut, Settled
  <2> QED
    BY <2>2, <2>3, <2>4, <2>5, <2>6
<1> QED
  BY <1>4, <1>5 DEF RaceOrigin, OriginLost

\* Every step of a flight.
LEMMA ProgressInv ==
  ASSUME IInv, NEW f \in Flights, Progress(f)
  PROVE  IInv'
BY PlannedInv, PeerEndsInv, OriginRequestInv, AfterPeerInv, AfterOriginInv, RacePeerInv,
   RaceOriginInv DEF Progress

-----------------------------------------------------------------------------
(* The steps of the consumers, and stop *)

\* Nothing a consumer does concerns a flight, but for its signal.
LEMMA FlightsKept ==
  ASSUME FlightInv, UNCHANGED <<inFlight, phase, target, requestVars, countVars>>,
         \A f \in Flights : Cut(f) => Cut(f)'
  PROVE  FlightInv'
<1>1. UNCHANGED <<inFlight, phase, target, peer, origin, p2pBytes, originBytes, failure, blamed>>
  BY DEF requestVars, countVars
<1>2. \A f : Running(f)' <=> Running(f)
  BY <1>1 DEF Running
<1>3. OneFlight'
  BY <1>1, <1>2 DEF FlightInv, OneFlight, Running
<1>4. CountedOnce' /\ NoFalseBlame' /\ Counting'
  BY <1>1, <1>2 DEF FlightInv, CountedOnce, NoFalseBlame, Counting
<1>5. Faults'
  BY <1>1 DEF FlightInv, Faults
<1> QED
  BY <1>3, <1>4, <1>5 DEF FlightInv

\* A consumer joins the flight in the map.
LEMMA JoinInv ==
  ASSUME IInv, NEW c \in Consumers, NEW s \in Segments, Join(c, s)
  PROVE  IInv'
<1> USE DEF IInv
<1>1. UNCHANGED <<cached, inFlight, phase, target, aborted, peer, origin, p2pBytes,
                  originBytes, failure, blamed, stopped>>
  BY DEF Join, flightVars, requestVars, countVars
<1>2. /\ waits' = [waits EXCEPT ![c] = inFlight[s]]
      /\ late' = [late EXCEPT ![c] = aborted[inFlight[s]]]
      /\ waits[c] = NoFlight /\ inFlight[s] \in Flights
  BY DEF Join, TypeOK
<1>3. TypeOK'
  BY <1>1, <1>2 DEF TypeOK
<1>4. FlightInv'
  BY <1>1, FlightsKept DEF Cut, Settled, requestVars, countVars
<1>5. AbortsArePrivate'
  BY <1>1, <1>2 DEF ConsumerInv, AbortsArePrivate, Running, TypeOK
<1>6. \A f \in Flights : Waiting(f) \subseteq Waiting(f)'
  BY <1>2, FlightAssumption DEF Waiting, TypeOK
<1>7. NobodyWaitsAborted'
  BY <1>1, <1>6 DEF ConsumerInv, NobodyWaitsAborted, Running
<1> QED
  BY <1>3, <1>4, <1>5, <1>7 DEF ConsumerInv

\* A segment not in the map gets a flight, which nobody else waits for.
LEMMA StartInv ==
  ASSUME IInv, NEW c \in Consumers, NEW s \in Segments, NEW f \in Flights, Start(c, s, f)
  PROVE  IInv'
<1> USE DEF IInv, FlightInv
<1>1. PICK begin \in {"listing", "peer", "origin"} :
        /\ phase' = [phase EXCEPT ![f] = begin]
        /\ peer' = [peer EXCEPT ![f] = IF begin = "peer" THEN "running" ELSE "none"]
        /\ origin' = [origin EXCEPT ![f] = IF begin = "origin" THEN "running" ELSE "none"]
  BY DEF Start, Beginnings
<1>2. /\ target' = [target EXCEPT ![f] = s]
      /\ aborted' = [aborted EXCEPT ![f] = FALSE]
      /\ p2pBytes' = [p2pBytes EXCEPT ![f] = 0]
      /\ originBytes' = [originBytes EXCEPT ![f] = 0]
      /\ failure' = [failure EXCEPT ![f] = "none"]
      /\ blamed' = [blamed EXCEPT ![f] = "none"]
      /\ inFlight' = [inFlight EXCEPT ![s] = f]
      /\ waits' = [waits EXCEPT ![c] = f]
      /\ late' = [late EXCEPT ![c] = FALSE]
      /\ cached' = cached /\ stopped' = stopped
  BY DEF Start
<1>3. /\ waits[c] = NoFlight /\ inFlight[s] = NoFlight
      /\ ~Running(f) /\ Waiting(f) = {}
  BY DEF Start, Unused
<1>4. TypeOK'
  <2>1. /\ phase' \in [Flights -> {"free", "listing", "peer", "origin", "hedged",
                                   "fulfilled", "rejected"}]
        /\ peer' \in [Flights -> {"none", "running", "ok", "bad", "lost"}]
        /\ origin' \in [Flights -> {"none", "waiting", "running", "ok", "bad", "lost"}]
    BY <1>1 DEF TypeOK
  <2>2. /\ inFlight' \in [Segments -> Flights \cup {NoFlight}]
        /\ waits' \in [Consumers -> Flights \cup {NoFlight}]
        /\ target' \in [Flights -> Segments]
    BY <1>2 DEF TypeOK
  <2>3. /\ p2pBytes' \in [Flights -> 0..1] /\ originBytes' \in [Flights -> 0..1]
        /\ aborted' \in [Flights -> BOOLEAN]
        /\ failure' \in [Flights -> Causes \cup {"none"}]
        /\ blamed' \in [Flights -> {"none", "connection", "integrity"}]
        /\ late' \in [Consumers -> BOOLEAN]
    BY <1>2 DEF TypeOK
  <2> QED
    BY <1>2, <2>1, <2>2, <2>3 DEF TypeOK
<1>5. \A g \in Flights : Running(g)' <=> (Running(g) \/ g = f)
  BY <1>1 DEF Running, TypeOK
<1>6. OneFlight'
  <2>1. \A g \in Flights : (Running(g) => inFlight[target[g]] = g)'
    BY <1>2, <1>3, <1>5, FlightAssumption DEF OneFlight, TypeOK
  <2>2. \A r \in Segments : (inFlight[r] # NoFlight =>
          Running(inFlight[r]) /\ target[inFlight[r]] = r)'
    BY <1>2, <1>3, <1>5 DEF OneFlight, TypeOK
  <2> QED
    BY <2>1, <2>2 DEF OneFlight
<1>7. CountedOnce' /\ Counting'
  BY <1>1, <1>2, <1>5 DEF CountedOnce, Counting, TypeOK
<1>8. NoFalseBlame' /\ Faults'
  BY <1>1, <1>2 DEF NoFalseBlame, Faults, Cut, Settled, TypeOK
<1>9. AbortsArePrivate'
  BY <1>2, <1>3, <1>5 DEF ConsumerInv, AbortsArePrivate, TypeOK, Waiting
<1>10. NobodyWaitsAborted'
  <2>1. ASSUME NEW g \in Flights, g # f
        PROVE  Waiting(g)' = Waiting(g)
    BY <1>2, <1>3, <2>1, FlightAssumption DEF Waiting, TypeOK
  <2>2. c \in Waiting(f)'
    BY <1>2 DEF Waiting, TypeOK
  <2> QED
    BY <1>2, <1>5, <2>1, <2>2 DEF ConsumerInv, NobodyWaitsAborted, TypeOK
<1> QED
  BY <1>4, <1>6, <1>7, <1>8, <1>9, <1>10 DEF ConsumerInv

\* A consumer leaves, and aborts the flight only if it was the last.
LEMMA AbortInv ==
  ASSUME IInv, NEW c \in Consumers, Abort(c)
  PROVE  IInv'
<1> USE DEF IInv
<1> PICK f \in Flights : f = waits[c]
  BY DEF Abort, TypeOK
<1>1. UNCHANGED <<cached, inFlight, phase, target, peer, origin, p2pBytes,
                  originBytes, failure, blamed, stopped>>
  BY DEF Abort, requestVars, countVars
<1>2. /\ aborted' = [aborted EXCEPT ![f] = aborted[f] \/ Abandoned(c)]
      /\ waits' = [waits EXCEPT ![c] = NoFlight]
      /\ late' = [late EXCEPT ![c] = FALSE]
  BY DEF Abort
<1>3. Abandoned(c) \in BOOLEAN
  BY DEF Abandoned, Settled
<1>4. TypeOK'
  BY <1>1, <1>2, <1>3 DEF TypeOK
<1>5. FlightInv'
  BY <1>1, <1>2, FlightsKept DEF Cut, Settled, requestVars, countVars, TypeOK
<1>6. AbortsArePrivate'
  <2> SUFFICES ASSUME NEW d \in Consumers,
                      (waits[d] # NoFlight /\ Running(waits[d]) /\ aborted[waits[d]])'
               PROVE  late'[d]
    BY DEF AbortsArePrivate
  <2>1. d # c /\ waits'[d] = waits[d] /\ late'[d] = late[d]
    BY <1>2 DEF TypeOK
  <2>2. waits[d] # NoFlight /\ Running(waits[d]) /\ waits[d] \in Flights
    BY <1>1, <2>1 DEF Running, TypeOK
  <2>3. aborted[waits[d]]
    BY <1>2, <2>1, <2>2 DEF Abandoned, Waiting, TypeOK
  <2> QED
    BY <2>1, <2>2, <2>3 DEF ConsumerInv, AbortsArePrivate
<1>7. NobodyWaitsAborted'
  <2> SUFFICES ASSUME NEW g \in Flights, Running(g)', Waiting(g)' = {}
               PROVE  aborted'[g]
    BY DEF NobodyWaitsAborted
  <2>1. Running(g) /\ ~Settled(g)
    BY <1>1 DEF Running, Settled
  <2>2. CASE g = f
    <3>1. Waiting(f) \ {c} \subseteq Waiting(f)' /\ c \in Waiting(f)
      BY <1>2 DEF Waiting, TypeOK
    <3>2. Abandoned(c)
      BY <2>1, <2>2, <3>1 DEF Abandoned
    <3> QED
      BY <1>1, <1>2, <2>2, <3>2 DEF TypeOK
  <2>3. CASE g # f
    <3>1. Waiting(g) \subseteq Waiting(g)'
      BY <1>2, <2>3 DEF Waiting, TypeOK
    <3> QED
      BY <1>2, <2>1, <2>3, <3>1 DEF ConsumerInv, NobodyWaitsAborted, TypeOK
  <2> QED
    BY <2>2, <2>3
<1> QED
  BY <1>4, <1>5, <1>6, <1>7 DEF ConsumerInv

\* A consumer leaves a flight that is over.
LEMMA DeliverInv ==
  ASSUME IInv, NEW c \in Consumers, Deliver(c)
  PROVE  IInv'
<1> USE DEF IInv
<1>1. UNCHANGED <<cached, inFlight, phase, target, aborted, peer, origin, p2pBytes,
                  originBytes, failure, blamed, stopped>>
  BY DEF Deliver, flightVars, requestVars, countVars
<1>2. /\ waits' = [waits EXCEPT ![c] = NoFlight]
      /\ late' = [late EXCEPT ![c] = FALSE]
      /\ Settled(waits[c])
  BY DEF Deliver
<1>3. TypeOK'
  BY <1>1, <1>2 DEF TypeOK
<1>4. FlightInv'
  BY <1>1, FlightsKept DEF Cut, Settled, requestVars, countVars
<1>5. AbortsArePrivate'
  BY <1>1, <1>2 DEF ConsumerInv, AbortsArePrivate, Running, TypeOK
<1>6. ASSUME NEW f \in Flights, Running(f)
      PROVE  Waiting(f) \subseteq Waiting(f)'
  BY <1>2, <1>6 DEF Waiting, Running, Settled, TypeOK
<1>7. NobodyWaitsAborted'
  BY <1>1, <1>6 DEF ConsumerInv, NobodyWaitsAborted, Running
<1> QED
  BY <1>3, <1>4, <1>5, <1>7 DEF ConsumerInv

\* The flights in the map are all that run, so stop() reaches each of them.
LEMMA StopInv ==
  ASSUME IInv, Stop
  PROVE  IInv'
<1> USE DEF IInv
<1> DEFINE all == {inFlight[s] : s \in Segments} \ {NoFlight}
<1>1. /\ UNCHANGED <<cached, inFlight, phase, target, peer, origin, p2pBytes,
                     originBytes, failure, blamed>>
      /\ stopped' = TRUE
  BY DEF Stop, requestVars, countVars
<1>2. /\ aborted' = [f \in Flights |-> aborted[f] \/ f \in all]
      /\ waits' = [c \in Consumers |-> IF waits[c] \in all THEN NoFlight ELSE waits[c]]
      /\ late' = [c \in Consumers |-> late[c] /\ waits[c] \notin all]
  BY DEF Stop
<1>3. \A f \in Flights : Running(f) => f \in all
  BY FlightAssumption DEF FlightInv, OneFlight, TypeOK
<1> HIDE DEF all
<1>4. TypeOK'
  BY <1>1, <1>2 DEF TypeOK
<1>5. FlightInv'
  BY <1>1, <1>2, FlightsKept DEF Cut, Settled, requestVars, countVars, TypeOK
<1>6. AbortsArePrivate'
  BY <1>1, <1>2, <1>3 DEF AbortsArePrivate, Running, TypeOK
<1>7. NobodyWaitsAborted'
  BY <1>1, <1>2, <1>3 DEF NobodyWaitsAborted, Running
<1> QED
  BY <1>4, <1>5, <1>6, <1>7 DEF ConsumerInv

\* What the cache holds concerns no flight, and a stutter nothing.
LEMMA EvictInv ==
  ASSUME IInv, cached' \subseteq cached,
         UNCHANGED <<inFlight, flightVars, waits, stopped, late>>
  PROVE  IInv'
<1> USE DEF IInv
<1>1. UNCHANGED <<inFlight, phase, target, aborted, peer, origin, p2pBytes,
                  originBytes, failure, blamed, stopped, waits, late>>
  BY DEF flightVars, requestVars, countVars
<1>2. TypeOK'
  BY <1>1 DEF TypeOK
<1>3. FlightInv'
  BY <1>1, FlightsKept DEF Cut, Settled, requestVars, countVars
<1>4. ConsumerInv'
  BY <1>1, ConsumersKept DEF Running
<1> QED
  BY <1>2, <1>3, <1>4

-----------------------------------------------------------------------------
(* Theorems *)

\* IInv is inductive.
LEMMA FlightsInit == ASSUME Init PROVE IInv
<1> USE DEF Init
<1>1. TypeOK
  <2>1. /\ cached \subseteq Segments
        /\ inFlight \in [Segments -> Flights \cup {NoFlight}]
        /\ waits \in [Consumers -> Flights \cup {NoFlight}]
        /\ target \in [Flights -> Segments]
    OBVIOUS
  <2>2. phase \in [Flights -> {"free", "listing", "peer", "origin", "hedged",
                               "fulfilled", "rejected"}]
    OBVIOUS
  <2>3. /\ peer \in [Flights -> {"none", "running", "ok", "bad", "lost"}]
        /\ origin \in [Flights -> {"none", "waiting", "running", "ok", "bad", "lost"}]
    OBVIOUS
  <2>4. /\ aborted \in [Flights -> BOOLEAN] /\ stopped \in BOOLEAN
        /\ late \in [Consumers -> BOOLEAN]
    OBVIOUS
  <2>5. /\ p2pBytes \in [Flights -> 0..1] /\ originBytes \in [Flights -> 0..1]
        /\ failure \in [Flights -> Causes \cup {"none"}]
        /\ blamed \in [Flights -> {"none", "connection", "integrity"}]
    OBVIOUS
  <2> QED
    BY <2>1, <2>2, <2>3, <2>4, <2>5 DEF TypeOK
<1>2. ConsumerInv
  BY DEF ConsumerInv, AbortsArePrivate, NobodyWaitsAborted, Running
<1>3. OneFlight
  BY DEF OneFlight, Running
<1>4. CountedOnce /\ NoFalseBlame /\ Counting /\ Faults
  BY DEF CountedOnce, NoFalseBlame, Counting, Faults, Running
<1> QED
  BY <1>1, <1>2, <1>3, <1>4 DEF IInv, FlightInv

LEMMA FlightsNext == ASSUME IInv, [Next]_vars PROVE IInv'
<1>1. ASSUME NEW c \in Consumers, NEW s \in Segments, Join(c, s) PROVE IInv'
  BY <1>1, JoinInv
<1>2. ASSUME NEW c \in Consumers, NEW s \in Segments, NEW f \in Flights, Start(c, s, f)
      PROVE  IInv'
  BY <1>2, StartInv
<1>3. ASSUME NEW c \in Consumers, Abort(c) \/ Deliver(c) PROVE IInv'
  BY <1>3, AbortInv, DeliverInv
<1>4. CASE Stop
  BY <1>4, StopInv
<1>5. ASSUME NEW f \in Flights, Progress(f) PROVE IInv'
  BY <1>5, ProgressInv
<1>6. ASSUME NEW s \in Segments, Evict(s) PROVE IInv'
  BY <1>6, EvictInv DEF Evict
<1>7. CASE UNCHANGED vars
  BY <1>7, EvictInv DEF vars
<1> QED
  BY <1>1, <1>2, <1>3, <1>4, <1>5, <1>6, <1>7 DEF Next

LEMMA InductiveInvariant == Spec => []IInv
<1>1. Init => IInv
  BY FlightsInit
<1>2. IInv /\ [Next]_vars => IInv'
  BY FlightsNext
<1> QED
  BY <1>1, <1>2, PTL DEF Spec

\* Every variable of the fetcher keeps its type, whatever is answered, aborted
\* or evicted, and no answer is counted twice.
THEOREM FlightsTypeCorrect == Spec => []TypeOK
BY InductiveInvariant, PTL DEF IInv

\* inFlightSegments: a segment is fetched once at a time, also after aborts,
\* evictions and stop(): no flight leaves the map while it runs, and none stays
\* that is over.
THEOREM SegmentsFetchedOnce == Spec => []OneFlight
BY InductiveInvariant, PTL DEF IInv, FlightInv

\* recordP2PSuccess and recordOriginBytes: the winner of a race is counted,
\* the loser never, and a failed fetch not at all.
THEOREM BytesCountedOnce == Spec => []CountedOnce
BY InductiveInvariant, PTL DEF IInv, FlightInv

\* recordPeerFailure: no peer is reported for being cut off, and none for its
\* data unless they did not match.
THEOREM PeersBlamedJustly == Spec => []NoFalseBlame
BY InductiveInvariant, PTL DEF IInv, FlightInv

\* consumeInFlightSegment: one consumer's signal never takes a shared flight
\* away from the others, and a flight that nobody waits for is aborted.
THEOREM SharedFlightsSurvive == Spec => [](AbortsArePrivate /\ NobodyWaitsAborted)
BY InductiveInvariant, PTL DEF IInv, ConsumerInv
=============================================================================
