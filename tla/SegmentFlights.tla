--------------------------- MODULE SegmentFlights ---------------------------
(***************************************************************************)
(* The peer's segment fetcher (peer/src/fetcher.ts): requests in flight,   *)
(* the consumers that share them, and the race of a peer against the       *)
(* origin in a hedged request.                                             *)
(*                                                                         *)
(* A flight is an InFlightSegment together with the call of                *)
(* fetchUncachedSegment or fetchAssignedSegment that serves it.  The       *)
(* requests it sends may outlive it: the loser of a hedge answers when the *)
(* flight is long over, so a flight is used again only when both are done. *)
(*                                                                         *)
(* External: what peers, origin and tracker answer, and the scheduler's    *)
(* plan, which is any plan.  Of the verifier only the outcome is modelled: *)
(* the data match, do not match, or the origin's .sha256 cannot be had.    *)
(* The cache is a set of names here; SegmentCache models it.               *)
(***************************************************************************)
EXTENDS Naturals, FiniteSets

CONSTANTS
  Segments,
  Flights,    \* bound: flights and late answers at a time
  NoFlight,
  Consumers,  \* calls of fetchSegment and entries of a fetchSegments wave
  Signalled   \* the consumers that have an AbortSignal

ASSUME FlightAssumption ==
  /\ NoFlight \notin Flights
  /\ Signalled \subseteq Consumers

VARIABLES
  cached,      \* names in the segment cache
  inFlight,    \* inFlightSegments
  phase,       \* of a flight: free, listing, peer, origin, hedged, fulfilled, rejected
  target,      \* the segment a flight is for
  aborted,     \* internalController.signal.aborted
  peer,        \* request to the peer: none, running, ok, bad, or lost (a bad one seen by the race)
  origin,      \* the same of the origin, and waiting (for the hedge delay)
  waits,       \* the flight a consumer waits for
  stopped,     \* shutdownController.signal.aborted
  p2pBytes,    \* history: answers of the flight counted by recordP2PSuccess
  originBytes, \* history: answers of the flight counted by recordOriginBytes
  failure,     \* history: why fetchFromPeer threw, or none
  blamed,      \* history: the reason recordPeerFailure reported, or none
  late         \* history: the consumer joined a flight already aborted

requestVars == <<peer, origin>>
countVars   == <<p2pBytes, originBytes, failure, blamed>>
flightVars  == <<phase, target, aborted, requestVars, countVars>>
vars == <<cached, inFlight, flightVars, waits, stopped, late>>

Running(f) == phase[f] \in {"listing", "peer", "origin", "hedged"}
Settled(f) == phase[f] \in {"fulfilled", "rejected"}
Waiting(f) == {c \in Consumers : waits[c] = f}

\* The signals of a flight's requests: its own, the shutdown, and in a hedge
\* those that the end of the race aborts.
Cut(f) == aborted[f] \/ stopped \/ Settled(f)

Unused(f) ==
  /\ ~Running(f)
  /\ Waiting(f) = {}
  /\ peer[f] # "running" /\ origin[f] \notin {"waiting", "running"}

Init ==
  /\ cached = {}
  /\ inFlight = [s \in Segments |-> NoFlight]
  /\ phase = [f \in Flights |-> "free"]
  /\ target \in [Flights -> Segments]
  /\ aborted = [f \in Flights |-> FALSE]
  /\ peer = [f \in Flights |-> "none"]
  /\ origin = [f \in Flights |-> "none"]
  /\ waits = [c \in Consumers |-> NoFlight]
  /\ stopped = FALSE
  /\ p2pBytes = [f \in Flights |-> 0]
  /\ originBytes = [f \in Flights |-> 0]
  /\ failure = [f \in Flights |-> "none"]
  /\ blamed = [f \in Flights |-> "none"]
  /\ late = [c \in Consumers |-> FALSE]

-----------------------------------------------------------------------------
(* Consumers.  A call for a cached segment returns at once and changes      *)
(* nothing.                                                                 *)

\* A segment in flight is waited for.
Join(c, s) ==
  /\ waits[c] = NoFlight
  /\ s \notin cached
  /\ inFlight[s] # NoFlight
  /\ waits' = [waits EXCEPT ![c] = inFlight[s]]
  /\ late' = [late EXCEPT ![c] = aborted[inFlight[s]]]
  /\ UNCHANGED <<cached, inFlight, flightVars, stopped>>

\* How a new flight begins: fetchSegment asks the tracker for peers; a wave of
\* fetchSegments, whose entries have no signal, has planned already.
Beginnings(c) == {"listing"} \cup (IF c \in Signalled THEN {} ELSE {"peer", "origin"})

\* startUncachedSegment, startSegmentFetch.
Start(c, s, f) ==
  /\ waits[c] = NoFlight
  /\ s \notin cached
  /\ inFlight[s] = NoFlight
  /\ Unused(f)
  /\ \E begin \in Beginnings(c) :
       /\ phase' = [phase EXCEPT ![f] = begin]
       /\ peer' = [peer EXCEPT ![f] = IF begin = "peer" THEN "running" ELSE "none"]
       /\ origin' = [origin EXCEPT ![f] = IF begin = "origin" THEN "running" ELSE "none"]
  /\ target' = [target EXCEPT ![f] = s]
  /\ aborted' = [aborted EXCEPT ![f] = FALSE]
  /\ p2pBytes' = [p2pBytes EXCEPT ![f] = 0]
  /\ originBytes' = [originBytes EXCEPT ![f] = 0]
  /\ failure' = [failure EXCEPT ![f] = "none"]
  /\ blamed' = [blamed EXCEPT ![f] = "none"]
  /\ inFlight' = [inFlight EXCEPT ![s] = f]
  /\ waits' = [waits EXCEPT ![c] = f]
  /\ late' = [late EXCEPT ![c] = FALSE]
  /\ UNCHANGED <<cached, stopped>>

\* Mutant of Deserted: a consumer takes the flight down with it.
DesertedByOne(c) == ~Settled(waits[c])

\* finish: the flight goes on unless this was its last consumer.
Abandoned(c) == Waiting(waits[c]) = {c} /\ ~Settled(waits[c])

\* The signal of a consumer aborts.
Abort(c) ==
  /\ c \in Signalled
  /\ waits[c] # NoFlight
  /\ aborted' = [aborted EXCEPT ![waits[c]] = @ \/ Abandoned(c)]
  /\ waits' = [waits EXCEPT ![c] = NoFlight]
  /\ late' = [late EXCEPT ![c] = FALSE]
  /\ UNCHANGED <<cached, inFlight, phase, target, requestVars, countVars, stopped>>

\* The flight is over; its consumers are told one by one.
Deliver(c) ==
  /\ waits[c] # NoFlight
  /\ Settled(waits[c])
  /\ waits' = [waits EXCEPT ![c] = NoFlight]
  /\ late' = [late EXCEPT ![c] = FALSE]
  /\ UNCHANGED <<cached, inFlight, flightVars, stopped>>

\* Mutant of Stop: the flights are forgotten, although they are not over.
StopForgetting ==
  /\ ~stopped
  /\ stopped' = TRUE
  /\ aborted' = [f \in Flights |-> aborted[f] \/ Running(f)]
  /\ waits' = [c \in Consumers |->
                 IF waits[c] # NoFlight /\ Running(waits[c]) THEN NoFlight ELSE waits[c]]
  /\ late' = [c \in Consumers |-> late[c] /\ waits'[c] # NoFlight]
  /\ inFlight' = [s \in Segments |-> NoFlight]
  /\ UNCHANGED <<cached, phase, target, requestVars, countVars>>

\* stop: every consumer of a flight in the map is rejected, the flights abort.
Stop ==
  /\ ~stopped
  /\ stopped' = TRUE
  /\ LET all == {inFlight[s] : s \in Segments} \ {NoFlight}
     IN  /\ aborted' = [f \in Flights |-> aborted[f] \/ f \in all]
         /\ waits' = [c \in Consumers |-> IF waits[c] \in all THEN NoFlight ELSE waits[c]]
         /\ late' = [c \in Consumers |-> late[c] /\ waits[c] \notin all]
  /\ UNCHANGED <<cached, inFlight, phase, target, requestVars, countVars>>

-----------------------------------------------------------------------------
(* Flights *)

\* A flight ends: the cache, the result, and the finally block.
Settle(f, outcome) ==
  /\ phase' = [phase EXCEPT ![f] = outcome]
  /\ cached' = IF outcome = "fulfilled" THEN cached \cup {target[f]} ELSE cached
  /\ inFlight' = [inFlight EXCEPT ![target[f]] = IF @ = f THEN NoFlight ELSE @]

Continue == UNCHANGED <<cached, inFlight>>

\* listPeers and planPeers: the plan, or the origin if the tracker fails.
Planned(f) ==
  /\ phase[f] = "listing"
  /\ \/ /\ phase' = [phase EXCEPT ![f] = "hedged"]
        /\ peer' = [peer EXCEPT ![f] = "running"]
        /\ origin' = [origin EXCEPT ![f] = "waiting"]
     \/ /\ phase' = [phase EXCEPT ![f] = "peer"]
        /\ peer' = [peer EXCEPT ![f] = "running"]
        /\ UNCHANGED origin
     \/ /\ phase' = [phase EXCEPT ![f] = "origin"]
        /\ origin' = [origin EXCEPT ![f] = "running"]
        /\ UNCHANGED peer
  /\ Continue
  /\ UNCHANGED <<target, aborted, countVars, waits, stopped, late>>

\* Mutant of Accounts: the hedged request counts its success by itself, too.
AccountsAlways(f) == TRUE

\* fetchFromPeer counts a success unless accountSuccess is FALSE, in a hedge.
Accounts(f) == phase[f] = "peer"

\* Why fetchFromPeer throws: the flight was cut off before it did; the peer
\* failed or ran into its timeout; its data do not match the published hash; or
\* verify() could not get that hash from the origin.
Causes == {"cut", "peer", "mismatch", "hash"}

\* fetchFromPeer ends: verified data, or an error.  The check of the data does
\* not look at the signal, and may end either way after an abort.
PeerEnds(f) ==
  /\ peer[f] = "running"
  /\ \/ /\ peer' = [peer EXCEPT ![f] = "ok"]
        /\ p2pBytes' = [p2pBytes EXCEPT ![f] = IF Accounts(f) THEN @ + 1 ELSE @]
        /\ UNCHANGED failure
     \/ /\ peer' = [peer EXCEPT ![f] = "bad"]
        /\ \E cause \in IF Cut(f) THEN {"cut"} ELSE Causes \ {"cut"} :
             failure' = [failure EXCEPT ![f] = cause]
        /\ UNCHANGED p2pBytes
  /\ Continue
  /\ UNCHANGED <<phase, target, aborted, origin, originBytes, blamed, waits, stopped, late>>

\* The hedge delay is over; or its wait ends with the signal.
HedgeDelay(f) ==
  /\ origin[f] = "waiting"
  /\ origin' = [origin EXCEPT ![f] = IF Cut(f) THEN "bad" ELSE "running"]
  /\ Continue
  /\ UNCHANGED <<phase, target, aborted, peer, countVars, waits, stopped, late>>

\* fetchFromOrigin ends.
OriginEnds(f) ==
  /\ origin[f] = "running"
  /\ \E answer \in {"ok", "bad"} : origin' = [origin EXCEPT ![f] = answer]
  /\ Continue
  /\ UNCHANGED <<phase, target, aborted, peer, countVars, waits, stopped, late>>

\* The reason of a PeerFetchError (http and timeout are "connection" here), and
\* "connection" for any other error: also for the hash the origin did not give.
ReportedReason(f) == IF failure[f] = "mismatch" THEN "integrity" ELSE "connection"

\* recordPeerFailure: the tracker is told.
Blame(f) == blamed' = [blamed EXCEPT ![f] = ReportedReason(f)]

\* The peer alone was asked: done, or on to the origin.
AfterPeer(f) ==
  /\ phase[f] = "peer"
  /\ \/ /\ peer[f] = "ok"
        /\ Settle(f, "fulfilled")
        /\ UNCHANGED <<origin, blamed>>
     \/ /\ peer[f] = "bad"
        /\ aborted[f] \/ stopped
        /\ Settle(f, "rejected")
        /\ UNCHANGED <<origin, blamed>>
     \/ /\ peer[f] = "bad"
        /\ ~aborted[f] /\ ~stopped
        /\ Blame(f)
        /\ phase' = [phase EXCEPT ![f] = "origin"]
        /\ origin' = [origin EXCEPT ![f] = "running"]
        /\ Continue
  /\ UNCHANGED <<target, aborted, peer, p2pBytes, originBytes, failure, waits, stopped, late>>

\* The origin alone was asked, or is asked after the peer.
AfterOrigin(f) ==
  /\ phase[f] = "origin"
  /\ \/ /\ origin[f] = "ok"
        /\ Settle(f, "fulfilled")
        /\ originBytes' = [originBytes EXCEPT ![f] = @ + 1]
     \/ /\ origin[f] = "bad"
        /\ Settle(f, "rejected")
        /\ UNCHANGED originBytes
  /\ UNCHANGED <<target, aborted, requestVars, p2pBytes, failure, blamed, waits, stopped, late>>

\* Mutant of Ended: the race does not look at the signals.
EndedNever(f) == FALSE

\* The race ends without a winner, whatever was answered.
Ended(f) == aborted[f] \/ stopped

\* hedgedFetch takes the peer's answer.
RacePeer(f) ==
  /\ phase[f] = "hedged"
  /\ peer[f] \in {"ok", "bad"}
  /\ \/ /\ Ended(f)
        /\ Settle(f, "rejected")
        /\ UNCHANGED <<requestVars, p2pBytes, blamed>>
     \/ /\ ~Ended(f) /\ peer[f] = "ok"
        /\ Settle(f, "fulfilled")
        /\ p2pBytes' = [p2pBytes EXCEPT ![f] = @ + 1]
        /\ UNCHANGED <<requestVars, blamed>>
     \/ /\ ~Ended(f) /\ peer[f] = "bad"
        /\ Blame(f)
        /\ peer' = [peer EXCEPT ![f] = "lost"]
        /\ IF origin[f] = "lost"
           THEN Settle(f, "rejected") /\ UNCHANGED origin
           ELSE /\ origin' = [origin EXCEPT ![f] = IF @ = "waiting" THEN "running" ELSE @]
                /\ Continue
                /\ UNCHANGED phase
        /\ UNCHANGED p2pBytes
  /\ UNCHANGED <<target, aborted, originBytes, failure, waits, stopped, late>>

\* Mutant of OriginLost: the race waits on when nobody is left.
OriginLostAlone(f) == Continue /\ UNCHANGED phase

\* The origin failed: that is the end if the peer has failed before.
OriginLost(f) ==
  IF peer[f] = "lost" THEN Settle(f, "rejected") ELSE Continue /\ UNCHANGED phase

\* hedgedFetch takes the origin's answer.
RaceOrigin(f) ==
  /\ phase[f] = "hedged"
  /\ origin[f] \in {"ok", "bad"}
  /\ \/ /\ Ended(f)
        /\ Settle(f, "rejected")
        /\ UNCHANGED <<origin, originBytes>>
     \/ /\ ~Ended(f) /\ origin[f] = "ok"
        /\ Settle(f, "fulfilled")
        /\ originBytes' = [originBytes EXCEPT ![f] = @ + 1]
        /\ UNCHANGED origin
     \/ /\ ~Ended(f) /\ origin[f] = "bad"
        /\ origin' = [origin EXCEPT ![f] = "lost"]
        /\ OriginLost(f)
        /\ UNCHANGED originBytes
  /\ UNCHANGED <<target, aborted, peer, p2pBytes, failure, blamed, waits, stopped, late>>

\* The cache evicts a segment, or expires it, or is too small to hold it.
Evict(s) ==
  /\ s \in cached
  /\ cached' = cached \ {s}
  /\ UNCHANGED <<inFlight, flightVars, waits, stopped, late>>

Progress(f) ==
  \/ Planned(f) \/ PeerEnds(f) \/ HedgeDelay(f) \/ OriginEnds(f)
  \/ AfterPeer(f) \/ AfterOrigin(f) \/ RacePeer(f) \/ RaceOrigin(f)

Next ==
  \/ \E c \in Consumers, s \in Segments : Join(c, s) \/ \E f \in Flights : Start(c, s, f)
  \/ \E c \in Consumers : Abort(c) \/ Deliver(c)
  \/ Stop
  \/ \E f \in Flights : Progress(f)
  \/ \E s \in Segments : Evict(s)

\* Every request and the hedge delay have a timer, and what is ready to run
\* runs.  Nobody needs to abort.
Fairness ==
  /\ \A f \in Flights : WF_vars(Progress(f))
  /\ \A c \in Consumers : WF_vars(Deliver(c))

Spec == Init /\ [][Next]_vars /\ Fairness

-----------------------------------------------------------------------------
(* Properties *)

\* The type of every variable; each source is counted at most once.
TypeOK ==
  /\ cached \subseteq Segments
  /\ inFlight \in [Segments -> Flights \cup {NoFlight}]
  /\ phase \in [Flights -> {"free", "listing", "peer", "origin", "hedged",
                            "fulfilled", "rejected"}]
  /\ target \in [Flights -> Segments]
  /\ aborted \in [Flights -> BOOLEAN]
  /\ peer \in [Flights -> {"none", "running", "ok", "bad", "lost"}]
  /\ origin \in [Flights -> {"none", "waiting", "running", "ok", "bad", "lost"}]
  /\ waits \in [Consumers -> Flights \cup {NoFlight}]
  /\ stopped \in BOOLEAN
  /\ p2pBytes \in [Flights -> 0..1] /\ originBytes \in [Flights -> 0..1]
  /\ failure \in [Flights -> Causes \cup {"none"}]
  /\ blamed \in [Flights -> {"none", "connection", "integrity"}]
  /\ late \in [Consumers -> BOOLEAN]

\* A segment is fetched once at a time: also after aborts, evictions and
\* stop(), a flight stays in the map exactly until it is over.
OneFlight ==
  /\ \A f \in Flights : Running(f) => inFlight[target[f]] = f
  /\ \A s \in Segments : inFlight[s] # NoFlight =>
       Running(inFlight[s]) /\ target[inFlight[s]] = s

\* The bytes of a segment are counted once, for the source they came from,
\* although two sources may answer, one of them after the race is over; and
\* nothing is counted for a fetch that failed.
CountedOnce ==
  \A f \in Flights :
    /\ phase[f] = "fulfilled" => p2pBytes[f] + originBytes[f] = 1
    /\ phase[f] = "rejected"  => p2pBytes[f] + originBytes[f] = 0

\* A peer is reported to the tracker only when its attempt failed by itself,
\* not because the origin was faster, nobody wanted the segment any more or
\* the fetcher stopped; and for its data, which costs it its trust, only when
\* they did not match.  It may be reported for a hash that the origin did not
\* give, but then as a failed connection.
NoFalseBlame ==
  \A f \in Flights : blamed[f] # "none" =>
    /\ failure[f] \in {"peer", "mismatch", "hash"}
    /\ blamed[f] = "integrity" <=> failure[f] = "mismatch"

\* fetcher.test.ts:537, "keeps a coalesced request alive when one consumer
\* aborts": who waits for a flight loses it to no other consumer's signal,
\* unless the flight was already aborted when it joined.
AbortsArePrivate ==
  \A c \in Consumers : waits[c] # NoFlight /\ Running(waits[c]) /\ aborted[waits[c]] => late[c]

\* fetcher.test.ts:584, "aborts coalesced work after all consumers abort": no
\* flight goes on for nobody.
NobodyWaitsAborted ==
  \A f \in Flights : Running(f) /\ Waiting(f) = {} => aborted[f]
=============================================================================
