--------------------------- MODULE FailureReports ---------------------------
(***************************************************************************)
(* How reports of other peers lower the global trust in a peer: the        *)
(* PeerFailureConsensus of a tracker store, kept in memory, over the trust *)
(* scores the store keeps.  Reports count for a while, once per reporter,  *)
(* and a quorum of them costs the reported peer a penalty.                 *)
(***************************************************************************)
EXTENDS Integers, FiniteSets

CONSTANTS Peer, Reason, Quorum,
          Lowest           \* bound: peers are reported down to this trust

VARIABLES trust,           \* of each peer, in units of 0.05
          joined,          \* the peers of the broadcast
          observations,    \* <<reporter, reported, reason>> that count
          recent           \* history: the same, of the whole last window

vars == <<trust, joined, observations, recent>>

FullTrust == 20
Penalty(reason) == IF reason = "integrity" THEN 7 ELSE 2

\* clampUnitInterval(trustScore - penalty)
Lowered(score, reason) ==
  IF score > Penalty(reason) THEN score - Penalty(reason) ELSE 0

Reporters(p, reason) == {r \in Peer : <<r, p, reason>> \in observations}

Init == /\ trust = [p \in Peer |-> FullTrust] /\ joined = {}
        /\ observations = {} /\ recent = {}
----
Join(p) == p \notin joined /\ joined' = joined \cup {p}
           /\ UNCHANGED <<trust, observations, recent>>

\* The row of a peer goes with it; what was reported about it or by it does not.
Leave(p) ==
  /\ p \in joined /\ joined' = joined \ {p}
  /\ trust' = [trust EXCEPT ![p] = FullTrust]
  /\ UNCHANGED <<observations, recent>>

\* observe: a report about oneself and a second report of the same reporter
\* within the window do not count; a quorum uses up the reports it is made of.
QuorumWith(r, p, reason) == Cardinality(Reporters(p, reason) \cup {r}) >= Quorum

\* Mutant of Counts: a peer may report itself.
CountsOwn(r, p, reason) == r \notin Reporters(p, reason)

Counts(r, p, reason) == r # p /\ r \notin Reporters(p, reason)

\* reportPeerFailure
Report(r, p, reason) ==
  /\ {r, p} \subseteq joined /\ trust[p] > Lowest
  /\ recent' = recent \cup {<<r, p, reason>>}
  /\ IF ~Counts(r, p, reason) THEN UNCHANGED <<trust, observations>>
     ELSE IF QuorumWith(r, p, reason)
     THEN /\ trust' = [trust EXCEPT ![p] = Lowered(@, reason)]
          /\ observations' = {o \in observations : <<o[2], o[3]>> # <<p, reason>>}
     ELSE /\ observations' = observations \cup {<<r, p, reason>>}
          /\ UNCHANGED trust
  /\ UNCHANGED joined

\* The window of a report has passed: the next observe() drops it.
Expire(o) ==
  /\ recent' = recent \ {o} /\ observations' = observations \ {o}
  /\ UNCHANGED <<trust, joined>>

\* The tracker starts again on the same database.
Restart == observations' = {} /\ UNCHANGED <<trust, joined, recent>>

Next ==
  \/ \E p \in Peer : Join(p) \/ Leave(p)
  \/ \E r, p \in Peer, reason \in Reason : Report(r, p, reason)
  \/ \E o \in recent : Expire(o)
  \/ Restart

Spec == Init /\ [][Next]_vars
----
\* The types; what the consensus remembers was reported within the window.
TypeOK ==
  /\ trust \in [Peer -> 0..FullTrust] /\ joined \subseteq Peer
  /\ observations \subseteq recent /\ recent \subseteq Peer \X Peer \X Reason

\* "Requires independent, recent observations before changing global peer
\* trust": a peer that stays loses trust only when as many different other
\* peers as the quorum asks for reported it, for one reason, within one window.
Justified ==
  \A p \in Peer : trust'[p] < trust[p] =>
    \E reason \in Reason :
      Cardinality({r \in Peer \ {p} : <<r, p, reason>> \in recent'}) >= Quorum

\* Every step is justified, whatever is reported, forgotten or restarted.
TrustJustified == [][Justified]_vars
=============================================================================
