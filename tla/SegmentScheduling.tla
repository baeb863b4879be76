------------------------- MODULE SegmentScheduling -------------------------
(* Segment scheduling: planBatch (common/src/scheduler.ts) cuts a playlist  *)
(* into waves and asks a policy about one segment after the other, behind   *)
(* planSegmentSafely, which replaces a plan that is not valid, or an        *)
(* exception, by a fallback to the origin.  The policies are those of the   *)
(* Node peer and of the browser, each alone or below the deadline-aware     *)
(* scheduler, and a custom one that may return anything.  Scores, trust and *)
(* latencies are abstracted to any ranking of the eligible peers.           *)
EXTENDS Integers, SequencesExt

CONSTANTS
  Peer,          \* the candidates of the tracker
  Self,          \* selfPeerId, which the tracker may list as well
  Segment,
  MaxRequests,   \* bound: the length of a playlist's work
  Distances,     \* segmentsAhead of the last entry, the most urgent
  Inventories,   \* what a candidate may advertise
  None,          \* undefined
  MaxParallel,   \* maximumParallelism
  Duration,      \* segmentDurationMs of the synthetic deadline
  Estimate,      \* originLatencyEstimator.estimateMs
  Margin,        \* safetyMarginMs
  ProbeWindow,   \* maximumPeerProbeWindowMs
  MaxHedge       \* maximumHedgeDelayMs

VARIABLES
  policy,       \* the base policy: weighted, probe, custom
  deadlines,    \* it stands below a deadline-aware scheduler
  synthetic,    \* deadlineConfig is given
  offers,       \* the segments each candidate advertises
  requests,     \* the argument of planBatch
  assignments,  \* what it has assigned so far
  hedge         \* of the last plan: when the origin starts, None unless hedged

schedulingVars == <<policy, deadlines, synthetic, offers, requests, assignments, hedge>>

Urgent == 2        \* urgentThresholdSegments
MaxProbes == 3     \* MAX_PARALLEL_PEER_PROBES
Candidates == Peer \cup {Self}
PeerLists == UNION {[1..n -> Candidates] : n \in 0..MaxParallel}

\* A plan; hedge is originHedgeDelayMs.
Plan(mode, peers, strategy, delay) ==
  [mode |-> mode, peers |-> peers, strategy |-> strategy, hedge |-> delay]
OriginOnly == Plan("origin", <<>>, "origin-only", None)

\* The last request for each segment, the segments in reverse order.
Prioritized(batch) ==
  LET SameAs(i) == {j \in DOMAIN batch : batch[j].segment = batch[i].segment}
      first == {i \in DOMAIN batch : i = Min(SameAs(i))}
      newestFirst == CHOOSE f \in SetToSeqs(first) : \A k, l \in DOMAIN f : k < l => f[k] > f[l]
  IN [k \in DOMAIN newestFirst |-> batch[Max(SameAs(newestFirst[k]))]]

Wave(i) == (i - 1) \div MaxParallel
Busy(i) == {assignments[j].peer : j \in {j \in DOMAIN assignments : Wave(j) = Wave(i)}} \ {None}

\* The slack of a request: None when it has no deadline.
Slack(request) == IF synthetic THEN request.ahead * Duration ELSE None

-----------------------------------------------------------------------------
(* validateSchedulerPlan.  Whether the fields of a plan have their types is *)
(* abstracted to a plan being an object or Malformed.                       *)
Malformed == Plan("other", <<>>, "other", None)

CountFits(plan) ==
  CASE plan.mode = "origin" -> Len(plan.peers) = 0
    [] plan.mode = "single-peer" -> Len(plan.peers) = 1
    [] plan.mode = "parallel-peers" -> Len(plan.peers) >= 1
    [] OTHER -> FALSE

ServableBy(peers, segment, candidates) ==
  \A i \in DOMAIN peers :
     peers[i] \in candidates \ {Self} /\ segment \in offers[peers[i]]

HintsFit(plan, slack) ==
  plan.hedge # None =>
     /\ plan.strategy # "origin-only" /\ plan.mode # "origin"
     /\ slack = None \/ plan.hedge <= slack

ValidUnserved(plan, request, candidates) ==
  /\ plan # Malformed
  /\ CountFits(plan)
  /\ Len(plan.peers) <= MaxParallel
  /\ IsInjective(plan.peers)
  /\ HintsFit(plan, Slack(request))

ValidPlan(plan, request, candidates) ==
  /\ plan # Malformed
  /\ CountFits(plan)
  /\ Len(plan.peers) <= MaxParallel
  /\ IsInjective(plan.peers)
  /\ ServableBy(plan.peers, request.segment, candidates)
  /\ HintsFit(plan, Slack(request))

-----------------------------------------------------------------------------
(* The policies: the plans each may return.                                 *)

\* WeightedScoreScheduler: an urgent segment comes from the origin; otherwise
\* the peer of the best score among those that are trusted and advertise it.
WeightedPlans(request, candidates) ==
  LET eligible == {p \in candidates \ {Self} : request.segment \in offers[p]}
  IN {OriginOnly} \cup
     (IF request.ahead < Urgent THEN {}
      ELSE {Plan("single-peer", <<p>>, "legacy-p2p-first", None) : p \in eligible})

\* TrustLatencyProbeScheduler: the first few of all candidates, whatever they
\* advertise.
ProbePlans(request, candidates) ==
  LET others == candidates \ {Self}
      size == Min({MaxProbes, MaxParallel, Cardinality(others)})
  IN IF size = 0 THEN {OriginOnly}
     ELSE {Plan("parallel-peers", peers, "legacy-p2p-first", None) :
              peers \in {s \in [1..size -> others] : IsInjective(s)}}

\* A custom policy: any plan, or none.
Hints == {<<"legacy-p2p-first", None>>, <<"hedged-origin", Margin>>,
          <<"hedged-origin", 100 * Duration>>, <<"origin-only", Margin>>}
CustomPlans(request, candidates) ==
  {Malformed} \cup
  {Plan(mode, peers, hint[1], hint[2]) :
     mode \in {"single-peer", "parallel-peers"}, peers \in PeerLists, hint \in Hints} \cup
  {Plan("origin", peers, "origin-only", None) : peers \in PeerLists}

BasePlans(request, candidates) ==
  CASE policy = "weighted" -> WeightedPlans(request, candidates)
    [] policy = "probe" -> ProbePlans(request, candidates)
    [] policy = "custom" -> CustomPlans(request, candidates)

\* planSegmentSafely
Safely(plan, request, candidates) ==
  IF ValidPlan(plan, request, candidates) THEN plan ELSE OriginOnly

-----------------------------------------------------------------------------
(* DeadlineAwareScheduler, of the peer and of the browser.                  *)
LatestSafeOriginStart(request) == Slack(request) - Estimate - Margin

\* decorateBasePlan: a plan for peers gets its strategy.
Decorated(plan, strategy, delay) ==
  IF plan.mode = "origin" THEN OriginOnly
  ELSE [plan EXCEPT !.strategy = strategy, !.hedge = delay]

DeadlinePlanLate(plan, request) ==
  LET latest == LatestSafeOriginStart(request)
  IN CASE Slack(request) = None -> Decorated(plan, "legacy-p2p-first", None)
       [] Slack(request) # None /\ latest <= 0 -> OriginOnly
       [] Slack(request) # None /\ latest > ProbeWindow ->
            Decorated(plan, "legacy-p2p-first", None)
       [] OTHER -> Decorated(plan, "hedged-origin", MaxHedge)

DeadlinePlan(plan, request) ==
  LET latest == LatestSafeOriginStart(request)
  IN CASE Slack(request) = None -> Decorated(plan, "legacy-p2p-first", None)
       [] Slack(request) # None /\ latest <= 0 -> OriginOnly
       [] Slack(request) # None /\ latest > ProbeWindow ->
            Decorated(plan, "legacy-p2p-first", None)
       [] OTHER -> Decorated(plan, "hedged-origin", Min({MaxHedge, latest}))

-----------------------------------------------------------------------------
(* planBatch                                                                *)
\* The last entries of a playlist are the most urgent.
Batches ==
  UNION {{[i \in 1..n |-> [segment |-> names[i], ahead |-> distance + n - i]] :
             names \in [1..n -> Segment], distance \in Distances} : n \in 1..MaxRequests}

Init ==
  /\ policy \in {"weighted", "probe", "custom"}
  /\ deadlines \in BOOLEAN
  /\ synthetic \in BOOLEAN
  /\ offers \in [Candidates -> Inventories]
  /\ requests \in Batches
  /\ assignments = <<>>
  /\ hedge = None

\* availableCandidates: no peer twice in a wave.
Available(i) == Candidates \ Busy(i)

\* One turn of the inner loop: the next request is planned and assigned.
PlanNext ==
  LET i == Len(assignments) + 1
      work == Prioritized(requests)
  IN /\ i <= Len(work)
     /\ \E safe \in {Safely(base, work[i], Available(i)) :
                      base \in BasePlans(work[i], Available(i))} :
          LET plan == IF deadlines
                      THEN Safely(DeadlinePlan(safe, work[i]), work[i], Available(i))
                      ELSE safe
          IN /\ assignments' = Append(assignments,
                  [segment |-> work[i].segment,
                   peer |-> IF plan.mode = "origin" THEN None ELSE plan.peers[1]])
             /\ hedge' = plan.hedge
     /\ UNCHANGED <<policy, deadlines, synthetic, offers, requests>>

Next == PlanNext
Spec == Init /\ [][Next]_schedulingVars

-----------------------------------------------------------------------------
Planned == Len(assignments) = Len(Prioritized(requests))

\* Assignments are of requested segments, to candidates or the origin.
TypeOK ==
  /\ offers \in [Candidates -> Inventories]
  /\ \A i \in DOMAIN assignments :
        /\ assignments[i].segment \in {requests[j].segment : j \in DOMAIN requests}
        /\ assignments[i].peer \in Candidates \cup {None}
  /\ hedge \in Nat \cup {None}

\* Whatever the policy returns, a batch gives every requested segment to
\* exactly one source, that source can serve it and is not the peer itself,
\* and no peer is given two segments of one wave.
BatchPlanned ==
  /\ \A i, j \in DOMAIN assignments : i # j => assignments[i].segment # assignments[j].segment
  /\ \A i \in DOMAIN assignments : assignments[i].peer # None =>
        /\ assignments[i].segment \in offers[assignments[i].peer]
        /\ assignments[i].peer # Self
        /\ \A j \in DOMAIN assignments :
              i # j /\ Wave(i) = Wave(j) => assignments[i].peer # assignments[j].peer
  /\ Planned => {assignments[i].segment : i \in DOMAIN assignments} =
                {requests[i].segment : i \in DOMAIN requests}

\* A deadline-aware plan that waits for peers starts the origin early enough
\* for its answer to be expected before the deadline, margin included.
OriginInTime ==
  LET last == Prioritized(requests)[Len(assignments)]
  IN deadlines /\ assignments # <<>> /\ hedge # None =>
       Slack(last) # None /\ hedge + Estimate + Margin <= Slack(last)
=============================================================================
