----------------------------- MODULE PluginLoads -----------------------------
(***************************************************************************)
(* How the browser plugin loads one media segment for the loaders of a     *)
(* player (sdk/src/hls-plugin.ts): the cache, the shared request in        *)
(* flight, peers first or hedged against the origin or the origin alone,   *)
(* the check against the published hash, and the segment put together from *)
(* the LL-HLS parts a player has loaded.  Loaders are started, aborted,    *)
(* destroyed and time out at any moment, and the plugin is detached.       *)
(*                                                                         *)
(* Of bytes only this is told apart: good, those that were published; bad, *)
(* any others; and raw, those of an origin that had no hash to check them. *)
(***************************************************************************)
EXTENDS Naturals, FiniteSets

CONSTANTS Loader,
          Parts          \* how many parts the segment has

VARIABLES verifying,     \* the plugin has a verifier: not with verifySegments: false
          active,        \* the grid runs
          cached,        \* the cache's bytes, or none
          loader,        \* state of each loader
          holds,         \* the bytes it is about to hand to the player, or none
          request,       \* the shared request in flight
          consumers,     \* the loaders that wait for it
          parts, assembly, \* the parts loaded, and what became of them
          listed         \* parts the playlist lists of the complete segment

assembling == <<verifying, parts, assembly, listed>>
vars == <<active, cached, loader, holds, request, consumers, assembling>>

\* hit: the cache had it; got, lost: the shared request ended; done: the
\* player's callback was called, or will not be.
LoaderState == {"idle", "hit", "waiting", "got", "lost", "done"}

NoRequest == [plan |-> "none", peers |-> "off", origin |-> "off", aborted |-> FALSE]

Init ==
  /\ verifying \in BOOLEAN
  /\ active = FALSE /\ cached = "none"
  /\ loader = [l \in Loader |-> "idle"] /\ holds = [l \in Loader |-> "none"]
  /\ request = NoRequest /\ consumers = {}
  /\ parts = {} /\ assembly = "open" /\ listed = 0
----
(***************************************************************************)
(* Loaders.                                                                *)
(***************************************************************************)
\* loadUncachedSegment with each plan the scheduler may make.
Started == {[plan |-> "origin", peers |-> "off", origin |-> "running", aborted |-> FALSE],
            [plan |-> "peers", peers |-> "running", origin |-> "off", aborted |-> FALSE],
            [plan |-> "hedged", peers |-> "running", origin |-> "delayed", aborted |-> FALSE]}

\* A request stays in the table until it has settled, aborted or not; a loader
\* that comes in between joins it.
Load(l) ==
  /\ loader[l] = "idle"
  /\ IF cached # "none"
     THEN /\ loader' = [loader EXCEPT ![l] = "hit"]
          /\ holds' = [holds EXCEPT ![l] = cached]
          /\ UNCHANGED <<request, consumers>>
     ELSE /\ loader' = [loader EXCEPT ![l] = "waiting"]
          /\ consumers' = consumers \cup {l}
          /\ UNCHANGED holds
          /\ IF request = NoRequest THEN request' \in Started ELSE UNCHANGED request
  /\ UNCHANGED <<active, cached, assembling>>

\* The continuation of the load, a microtask later.
Deliver(l) ==
  /\ loader[l] \in {"hit", "got", "lost"} /\ loader' = [loader EXCEPT ![l] = "done"]
  /\ holds' = [holds EXCEPT ![l] = "none"]
  /\ UNCHANGED <<active, cached, request, consumers, assembling>>

\* Mutant of Without: whoever leaves takes the request down.
WithoutAny(l) == [request EXCEPT !.aborted = TRUE]

\* The last consumer that leaves aborts the request.
Without(l) ==
  [request EXCEPT !.aborted = @ \/ (request # NoRequest /\ consumers = {l})]

\* abort(), a time-out of the loader, or destroy(): the loader stops waiting.
\* Only the first two keep a callback from being called: destroy() alone lets
\* the failure through.
Leave(l) ==
  /\ loader[l] \in {"hit", "waiting", "got", "lost"}
  /\ \/ loader' = [loader EXCEPT ![l] = "done"]
     \/ loader[l] = "waiting" /\ loader' = [loader EXCEPT ![l] = "lost"]
  /\ holds' = [holds EXCEPT ![l] = "none"]
  /\ IF l \in consumers
     THEN consumers' = consumers \ {l} /\ request' = Without(l)
     ELSE UNCHANGED <<consumers, request>>
  /\ UNCHANGED <<active, cached, assembling>>

\* The player makes another loader.
Renew(l) ==
  /\ loader[l] = "done" /\ loader' = [loader EXCEPT ![l] = "idle"]
  /\ UNCHANGED <<active, cached, holds, request, consumers, assembling>>
----
(***************************************************************************)
(* The shared request.                                                     *)
(***************************************************************************)
\* What verifySegment and verifyUrl say of bytes: nothing without a verifier,
\* and otherwise nothing certain, for the hash may not be had.
Check(bytes) ==
  IF ~verifying THEN {"skipped"}
  ELSE {IF bytes = "good" THEN "match" ELSE "mismatch", "nohash"}

\* Mutant of Keep: whatever was served is cached.
KeepAll(result) == result

\* completeSegmentLoad caches what is not flagged as unverified.
Keep(result) == IF result = "raw" THEN cached ELSE result

Settle(result) ==
  /\ request' = NoRequest /\ consumers' = {}
  /\ cached' = IF result = "error" THEN cached ELSE Keep(result)
  /\ loader' = [l \in Loader |->
       IF l \notin consumers THEN loader[l]
       ELSE IF result = "error" THEN "lost" ELSE "got"]
  /\ holds' = [l \in Loader |->
       IF l \notin consumers \/ result = "error" THEN holds[l] ELSE result]
  /\ UNCHANGED <<active, assembling>>

Continue(next) ==
  /\ request' = next /\ UNCHANGED <<active, cached, loader, holds, consumers, assembling>>

\* fetchPeerAttempt: a peer delivers any bytes, and its attempt counts unless the
\* check throws, also for want of a hash.
PeersDeliver ==
  /\ request.peers = "running" /\ ~request.aborted
  /\ \E bytes \in {"good", "bad"} :
       Check(bytes) \cap {"match", "skipped"} # {} /\ Settle(bytes)

\* All peers fail, or the deadline leaves only time for the origin.
PeersFail ==
  /\ request.peers = "running"
  /\ IF request.plan = "hedged" /\ request.origin = "lost" THEN Settle("error")
     ELSE Continue([request EXCEPT !.peers = "lost",
                      !.origin = IF request.plan = "peers" THEN "running" ELSE @])

HedgeFires ==
  request.origin = "delayed" /\ Continue([request EXCEPT !.origin = "running"])

\* fetchVerifiedOrigin: an abort comes too late for bytes that are there and
\* pass, except in a hedged load, which looks at the signal first.  Bytes with no
\* hash to compare with are served and flagged, if nobody has aborted.
OriginDelivers ==
  /\ request.origin = "running" /\ (request.plan = "hedged" => ~request.aborted)
  /\ \E bytes \in {"good", "bad"} :
       \/ Check(bytes) \cap {"match", "skipped"} # {} /\ Settle(bytes)
       \/ "nohash" \in Check(bytes) /\ ~request.aborted /\ Settle("raw")

\* The origin fails, or its bytes do not match.
OriginFails ==
  /\ request.origin \in {"running", "delayed"}
  /\ request.origin = "delayed" => request.aborted
  /\ IF request.plan = "hedged" /\ request.peers = "running"
     THEN Continue([request EXCEPT !.origin = "lost"])
     ELSE Settle("error")

\* A hedged load that is aborted ends with the first attempt that does.
HedgeAborted == request.plan = "hedged" /\ request.aborted /\ Settle("error")

Evict ==
  /\ cached # "none" /\ cached' = "none"
  /\ UNCHANGED <<active, loader, holds, request, consumers, assembling>>
----
(***************************************************************************)
(* The player, and the parts it loads.                                     *)
(***************************************************************************)
Attach ==
  /\ ~active /\ active' = TRUE
  /\ UNCHANGED <<cached, loader, holds, request, consumers, assembling>>

Detach ==
  /\ active /\ active' = FALSE
  /\ request' = [request EXCEPT !.aborted = request # NoRequest]
  /\ UNCHANGED <<cached, loader, holds, consumers, assembling>>

\* The playlist lists the complete segment, and all or some of its parts, and
\* drops them again.
List ==
  /\ listed' \in 0..Parts \ {listed}
  /\ UNCHANGED <<verifying, active, cached, loader, holds, request, consumers, parts, assembly>>

\* recordPart, then assembleSegment for all that are pending; without the
\* first, the part was another segment's.  Only with a verifier, and a player's
\* load may end when the plugin, and so its playlist, is gone.
Record(more) ==
  LET have == IF assembly = "open" THEN parts \cup more ELSE parts
      ready == /\ active /\ assembly = "open"
               /\ listed > 0 /\ Cardinality(have) >= listed
  IN  /\ verifying
      /\ IF ~ready THEN parts' = have /\ UNCHANGED assembly
         ELSE IF have = 1..Cardinality(have)
         THEN parts' = have /\ assembly' = "verifying"
         ELSE parts' = {} /\ assembly' = "closed"
      /\ UNCHANGED <<verifying, active, cached, loader, holds, request, consumers, listed>>

\* What parts join into: the segment, if they are all and the packager cut it so.
Joined == IF parts = 1..Parts THEN {"good", "bad"} ELSE {"bad"}

\* assembleSegment goes on when the hash is there, or is not to be had.  A plugin
\* detached meanwhile shares nothing.
Verified ==
  /\ assembly = "verifying" /\ assembly' = "closed" /\ parts' = {}
  /\ \E bytes \in Joined :
       \/ active /\ "match" \in Check(bytes) /\ cached' = bytes
       \/ UNCHANGED cached
  /\ UNCHANGED <<verifying, active, loader, holds, request, consumers, listed>>

\* The assembly makes room for those of newer segments.
Forget ==
  /\ assembly \in {"open", "closed"} /\ parts' = {} /\ assembly' = "open"
  /\ UNCHANGED <<verifying, active, cached, loader, holds, request, consumers, listed>>

Next ==
  \/ \E l \in Loader : Load(l) \/ Deliver(l) \/ Leave(l) \/ Renew(l)
  \/ PeersDeliver \/ PeersFail \/ HedgeFires \/ OriginDelivers \/ OriginFails
  \/ HedgeAborted \/ Evict \/ Attach \/ Detach \/ List \/ Verified \/ Forget
  \/ \E more \in {{}} \cup {{i} : i \in 1..Parts} : Record(more)

Spec == Init /\ [][Next]_vars
----
\* The types; nobody waits where no request is in flight.
TypeOK ==
  /\ verifying \in BOOLEAN /\ active \in BOOLEAN
  /\ cached \in {"none", "good", "bad", "raw"}
  /\ holds \in [Loader -> {"none", "good", "bad", "raw"}]
  /\ loader \in [Loader -> LoaderState] /\ consumers \subseteq Loader
  /\ request.plan \in {"none", "origin", "peers", "hedged"}
  /\ request = NoRequest => consumers = {}
  /\ parts \subseteq 1..Parts /\ assembly \in {"open", "verifying", "closed"}
  /\ listed \in 0..Parts

\* SECURITY.md:68, "Peers share only segments that matched a sidecar": with a
\* verifier, and whatever bytes peers, the origin and a player's parts bring in
\* whichever order, the cache that other viewers are served from holds the
\* published segment or nothing, and no loader is handed other bytes than the
\* published ones, but for those of an origin that had no hash.  Without a
\* verifier whatever was delivered is played and shared.
OnlyVerifiedIsShared ==
  verifying =>
    /\ cached \in {"none", "good"}
    /\ \A l \in Loader : holds[l] # "bad"

\* While the plugin is attached, loaders that give up do not take down a request
\* that others wait for.
TakesNoneDown ==
  request # NoRequest /\ ~request.aborted /\ request'.aborted /\ active'
    => consumers' = {}

\* No step of a loader that leaves takes the others down.
OthersKeepLoading == [][TakesNoneDown]_vars
=============================================================================
