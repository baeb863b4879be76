--------------------------- MODULE BroadcastLease ---------------------------
(* The registration of a broadcast: the origin (run, registerBroadcast and  *)
(* unregisterBroadcasts of origin/src/server.ts) registers it with a lease  *)
(* of three refresh intervals and registers it again on every interval; the *)
(* sweep of the tracker (removeStalePeers of tracker/src/server.ts) removes *)
(* it when the lease has run out.  Time is counted in refresh intervals and *)
(* a lease by what is left of it.                                           *)
EXTENDS Naturals

CONSTANTS
  Lease,        \* the lease given to a registration, in refresh intervals
  Unlisted,     \* the tracker does not know the broadcast
  MaxOutages    \* bound: how often the tracker goes down

VARIABLES
  origin,    \* run: starting, registering, running, rejected, unregistering, stopping, gone
  loops,     \* what is left of the lease in each registration being retried
  stray,     \* the same of requests the origin no longer waits for
  record,    \* the same of the broadcast the tracker has, or Unlisted
  up,        \* the tracker answers
  outages    \* how often it has been down

leaseVars == <<origin, loops, stray, record, up, outages>>

Left == 0..Lease
Aged(left) == IF left = 0 THEN 0 ELSE left - 1

Init ==
  /\ origin = "starting"
  /\ loops = {Lease}      \* createRegistrations, before the server starts
  /\ stray = {}
  /\ record \in {Unlisted} \cup Left    \* of an origin that crashed before
  /\ up \in BOOLEAN
  /\ outages = 0

\* server.start has resolved: the registrations are sent.
Started ==
  /\ origin = "starting"
  /\ origin' = "registering"
  /\ UNCHANGED <<loops, stray, record, up, outages>>

Sending == origin \in {"registering", "running"}

\* The first registration has ended well: the refresh interval starts.
Registered(rest) == IF origin = "registering" /\ rest = {} THEN "running" ELSE origin

\* registerBroadcast: the tracker stores the registration and says so.
Answered(left) ==
  /\ Sending /\ up /\ left \in loops
  /\ record' = left
  /\ loops' = loops \ {left}
  /\ origin' = Registered(loops')
  /\ UNCHANGED <<stray, up, outages>>

\* The request times out: it is sent again, and may still arrive.
TimedOut(left) ==
  /\ Sending /\ left \in loops
  /\ stray' = stray \cup {left}
  /\ UNCHANGED <<origin, loops, record, up, outages>>

\* The tracker refuses the first registration for good: run rejects, the
\* process stays.  A later one refused for good is only logged.
Rejected(left) ==
  /\ Sending /\ up /\ left \in loops
  /\ loops' = loops \ {left}
  /\ origin' = IF origin = "registering" THEN "rejected" ELSE origin
  /\ UNCHANGED <<stray, record, up, outages>>

\* A request that nobody waits for arrives, or does not.
StrayArrives(left) ==
  /\ left \in stray
  /\ stray' = stray \ {left}
  /\ \/ up /\ record' = left
     \/ UNCHANGED record
  /\ UNCHANGED <<origin, loops, up, outages>>

\* shutdown: the loops end, what they have sent may arrive.
Shutdown ==
  /\ origin \in {"starting", "registering", "running", "rejected"}
  /\ origin' = "unregistering"
  /\ loops' = {}
  /\ \E sent \in SUBSET loops : stray' = stray \cup sent
  /\ UNCHANGED <<record, up, outages>>

\* unregisterBroadcasts has an answer, or gives up on one.
Unregistered ==
  /\ origin = "unregistering"
  /\ \/ up /\ record' = Unlisted
     \/ UNCHANGED record
  /\ origin' = "stopping"
  /\ UNCHANGED <<loops, stray, up, outages>>

\* server.stop has resolved.
Stopped ==
  /\ origin = "stopping"
  /\ origin' = "gone"
  /\ UNCHANGED <<loops, stray, record, up, outages>>

Crash ==
  /\ origin # "gone"
  /\ origin' = "gone"
  /\ loops' = {}
  /\ \E sent \in SUBSET loops : stray' = stray \cup sent
  /\ UNCHANGED <<record, up, outages>>

\* A refresh interval passes; one that runs starts another registration.
Tick ==
  /\ record' = IF record = Unlisted THEN Unlisted ELSE Aged(record)
  /\ loops' = {Aged(left) : left \in loops} \cup (IF origin = "running" THEN {Lease} ELSE {})
  /\ stray' = {Aged(left) : left \in stray}
  /\ UNCHANGED <<origin, up, outages>>

-----------------------------------------------------------------------------
StaleNever == FALSE
\* The lease of the record has run out.
Stale == record = 0

\* removeStalePeers: the broadcast is removed when its lease is over.
Sweep ==
  /\ up /\ Stale
  /\ record' = Unlisted
  /\ UNCHANGED <<origin, loops, stray, up, outages>>

GoesDown ==
  /\ up /\ outages < MaxOutages
  /\ up' = FALSE
  /\ outages' = outages + 1
  /\ UNCHANGED <<origin, loops, stray, record>>

\* It comes back with its database, or without (STORE_TYPE=memory).
ComesUp ==
  /\ ~up
  /\ up' = TRUE
  /\ record' \in {record, Unlisted}
  /\ UNCHANGED <<origin, loops, stray, outages>>

Next ==
  \/ Started \/ Shutdown \/ Unregistered \/ Stopped \/ Crash \/ Tick
  \/ Sweep \/ GoesDown \/ ComesUp
  \/ \E left \in Left : \/ Answered(left) \/ TimedOut(left) \/ Rejected(left)
                        \/ StrayArrives(left)

Spec == Init /\ [][Next]_leaseVars

\* Timers fire, the tracker comes back, and of the requests just sent one is
\* answered some day.
Fairness ==
  /\ WF_leaseVars(Tick) /\ WF_leaseVars(Sweep)
  /\ WF_leaseVars(ComesUp) /\ WF_leaseVars(Started)
  /\ SF_leaseVars(Answered(Lease))

FairSpec == Spec /\ Fairness

-----------------------------------------------------------------------------
\* The types: what is left of each lease never exceeds one.
TypeOK ==
  /\ origin \in {"starting", "registering", "running", "rejected",
                 "unregistering", "stopping", "gone"}
  /\ loops \subseteq Left /\ stray \subseteq Left
  /\ record \in {Unlisted} \cup Left
  /\ up \in BOOLEAN
  /\ outages \in 0..MaxOutages
=============================================================================
