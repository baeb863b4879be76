--------------------------- MODULE MachineProofs ---------------------------
(***************************************************************************)
(* What is proved of the machines of MCMachines, for every value of their  *)
(* constants: of failure reports, the origin's stream, the hub with        *)
(* clients of every mode, the store on SQLite, the scheduling of batches   *)
(* and the browser's plugin; and, for TransferProofs, of the peer's run(). *)
(*                                                                         *)
(* One machine takes the steps and the others keep their first state       *)
(* (OneRuns), so that what a machine's own steps keep is kept              *)
(* (MachineSteps) and its invariant holds whichever machine runs.          *)
(***************************************************************************)
EXTENDS MCMachines, FiniteSetTheorems, WellFoundedInduction, TLAPS

\* A step is one machine's, and the others take none.
LEMMA OneRuns ==
  ASSUME [MachineNext]_machineVars
  PROVE  /\ TransferStep \/ UNCHANGED transferVars
         /\ RunStep \/ UNCHANGED runVars
         /\ (On("SS") /\ SS!PlanNext) \/ UNCHANGED planVars
         /\ ViewerStep \/ UNCHANGED viewerVars
         /\ LoadStep \/ UNCHANGED loadVars
         /\ HubStep \/ UNCHANGED hubVars
         /\ StoreStep \/ UNCHANGED storeVars
         /\ TrustStep \/ UNCHANGED trustVars
         /\ StreamStep \/ UNCHANGED streamVars
         /\ UNCHANGED machine
<1>1. FetchStep => Only("SF")
  BY DEF FetchStep
<1>2. SessionStep => Only("TS")
  BY DEF SessionStep
<1>3. TransferStep => Only("WT")
  BY DEF TransferStep
<1>4. RunStep => Only("PA")
  BY DEF RunStep
<1>5. ViewerStep => Only("PS")
  BY DEF ViewerStep
<1>6. LoadStep => Only("PL")
  BY DEF LoadStep
<1>7. HubStep => Only("TH")
  BY DEF HubStep
<1>8. StoreStep => Only("SQ")
  BY DEF StoreStep
<1>9. TrustStep => Only("FR")
  BY DEF TrustStep
<1>10. LeaseStep => Only("BL")
  BY DEF LeaseStep
<1>11. StreamStep => Only("HS")
  BY DEF StreamStep
<1>12. CASE UNCHANGED machineVars
  BY <1>12 DEF machineVars
<1>13. ASSUME NEW m, Only(m) PROVE
         /\ UNCHANGED machine
         /\ m = "WT" \/ UNCHANGED transferVars
         /\ m = "PA" \/ UNCHANGED runVars
         /\ m = "SS" \/ UNCHANGED planVars
         /\ m = "PS" \/ UNCHANGED viewerVars
         /\ m = "PL" \/ UNCHANGED loadVars
         /\ m = "TH" \/ UNCHANGED hubVars
         /\ m = "SQ" \/ UNCHANGED storeVars
         /\ m = "FR" \/ UNCHANGED trustVars
         /\ m = "HS" \/ UNCHANGED streamVars
  BY <1>13 DEF Only
<1> QED
  BY <1>1, <1>2, <1>3, <1>4, <1>5, <1>6, <1>7, <1>8, <1>9, <1>10, <1>11, <1>12, <1>13
     DEF MachineNext

\* What each machine takes are its own steps.
LEMMA MachineSteps ==
  ASSUME [MachineNext]_machineVars
  PROVE  /\ [WT!Next]_(WT!vars) /\ [PA!Next]_(PA!vars) /\ [SS!Next]_(SS!schedulingVars)
         /\ [PS!Next]_(PS!vars) /\ [PL!Next]_(PL!vars)
         /\ [FR!Next]_(FR!vars) /\ [HS!Next]_(HS!streamVars)
<1>1. [WT!Next]_(WT!vars)
  BY OneRuns DEF TransferStep, transferVars, WT!Next, WT!vars, WT!signalVars, WT!clientVars,
                 WT!serverVars, WT!channelVars
<1>2. [PA!Next]_(PA!vars)
  BY OneRuns DEF RunStep, runVars, PA!Next, PA!vars, PA!managerVars, PA!loopVars
<1>3. [SS!Next]_(SS!schedulingVars)
  BY OneRuns DEF planVars, SS!Next, SS!schedulingVars
<1>4. [PS!Next]_(PS!vars)
  BY OneRuns DEF ViewerStep, viewerVars, PS!Next, PS!vars, PS!session, PS!timers, PS!client
<1>5. [PL!Next]_(PL!vars)
  BY OneRuns DEF LoadStep, loadVars, PL!Next, PL!vars, PL!assembling
<1>6. [FR!Next]_(FR!vars)
  BY OneRuns DEF TrustStep, trustVars, FR!Next, FR!vars
<1>7. [HS!Next]_(HS!streamVars)
  BY OneRuns DEF StreamStep, streamVars, HS!Next, HS!streamVars, HS!procVars, HS!hashVars
<1> QED
  BY <1>1, <1>2, <1>3, <1>4, <1>5, <1>6, <1>7

-----------------------------------------------------------------------------
\* What is remembered was reported within the window, by others.
TrustInv ==
  /\ FR!TypeOK
  /\ \A o \in observations : o[1] # o[2]

LEMMA TrustInit == FR!Init => TrustInv
BY DEF FR!Init, TrustInv, FR!TypeOK, FR!FullTrust

\* A penalty leaves a score a score.
LEMMA LoweredTyped ==
  ASSUME NEW score \in 0..FR!FullTrust, NEW reason
  PROVE  FR!Lowered(score, reason) \in 0..FR!FullTrust
BY DEF FR!Lowered, FR!Penalty, FR!FullTrust

LEMMA TrustKept ==
  ASSUME TrustInv, [FR!Next]_(FR!vars)
  PROVE  TrustInv'
<1> USE DEF TrustInv, FR!TypeOK
<1>1. ASSUME NEW p \in Reporter, FR!Join(p) \/ FR!Leave(p) PROVE TrustInv'
  <2>1. UNCHANGED <<observations, recent>> /\ joined' \subseteq joined \cup {p}
    BY <1>1 DEF FR!Join, FR!Leave
  <2>2. trust' = trust \/ trust' = [trust EXCEPT ![p] = FR!FullTrust]
    BY <1>1 DEF FR!Join, FR!Leave
  <2>3. FR!FullTrust \in 0..FR!FullTrust
    BY DEF FR!FullTrust
  <2> QED
    BY <2>1, <2>2, <2>3
<1>2. ASSUME NEW r \in Reporter, NEW p \in Reporter, NEW reason \in Reason, FR!Report(r, p, reason)
      PROVE  TrustInv'
  <2>1. joined' = joined /\ recent' = recent \cup {<<r, p, reason>>}
    BY <1>2 DEF FR!Report
  <2>2. \/ UNCHANGED <<trust, observations>>
        \/ /\ trust' = [trust EXCEPT ![p] = FR!Lowered(@, reason)]
           /\ observations' \subseteq observations
        \/ /\ r # p /\ trust' = trust
           /\ observations' = observations \cup {<<r, p, reason>>}
    BY <1>2 DEF FR!Report, FR!Counts
  <2>3. FR!Lowered(trust[p], reason) \in 0..FR!FullTrust
    BY LoweredTyped
  <2> QED
    BY <2>1, <2>2, <2>3
<1>3. ASSUME NEW o \in recent, FR!Expire(o) PROVE TrustInv'
  BY <1>3 DEF FR!Expire
<1>4. CASE FR!Restart
  BY <1>4 DEF FR!Restart
<1>5. CASE UNCHANGED (FR!vars)
  BY <1>5 DEF FR!vars
<1> QED
  BY <1>1, <1>2, <1>3, <1>4, <1>5 DEF FR!Next

\* FiniteSets is reached on two ways.
LEMMA SameCardinality == ASSUME NEW S PROVE FR!Cardinality(S) = Cardinality(S)
BY DEF FR!Cardinality, FR!IsFiniteSet, Cardinality, IsFiniteSet

\* Only a quorum of other peers costs trust.
LEMMA StepJustified ==
  ASSUME IsFiniteSet(Reporter), Quorum \in Nat, TrustInv, [FR!Next]_(FR!vars)
  PROVE  FR!Justified
<1> SUFFICES ASSUME NEW q \in Reporter, trust'[q] < trust[q]
             PROVE  \E reason \in Reason :
               Cardinality({r \in Reporter \ {q} : <<r, q, reason>> \in recent'}) >= Quorum
  BY SameCardinality DEF FR!Justified
<1>1. trust \in [Reporter -> 0..FR!FullTrust] /\ FR!FullTrust \in Nat
  BY DEF TrustInv, FR!TypeOK, FR!FullTrust
<1>2. CASE UNCHANGED trust
  BY <1>1, <1>2
<1>3. ASSUME NEW p \in Reporter, FR!Leave(p) PROVE FALSE
  <2>1. trust'[q] = FR!FullTrust \/ trust'[q] = trust[q]
    BY <1>1, <1>3 DEF FR!Leave
  <2> QED
    BY <1>1, <2>1
<1>4. ASSUME NEW r \in Reporter, NEW p \in Reporter, NEW reason \in Reason, FR!Report(r, p, reason)
      PROVE  \E why \in Reason :
               Cardinality({x \in Reporter \ {q} : <<x, q, why>> \in recent'}) >= Quorum
  <2> DEFINE others == {x \in Reporter \ {p} : <<x, p, reason>> \in recent'}
  <2>1. CASE UNCHANGED trust
    BY <1>1, <2>1
  <2>2. CASE ~UNCHANGED trust
    <3>1. /\ r # p /\ FR!QuorumWith(r, p, reason)
          /\ trust' = [trust EXCEPT ![p] = FR!Lowered(@, reason)]
          /\ recent' = recent \cup {<<r, p, reason>>}
      BY <1>4, <2>2 DEF FR!Report, FR!Counts
    <3>2. p = q
      BY <1>1, <3>1
    <3>3. FR!Reporters(p, reason) \cup {r} \subseteq others
      BY <3>1 DEF FR!Reporters, TrustInv, FR!TypeOK
    <3>4. IsFiniteSet(others)
      BY FS_Subset
    <3> HIDE DEF others
    <3>5. /\ Cardinality(FR!Reporters(p, reason) \cup {r}) <= Cardinality(others)
          /\ Cardinality(others) \in Nat
          /\ Cardinality(FR!Reporters(p, reason) \cup {r}) \in Nat
      BY <3>3, <3>4, FS_Subset, FS_CardinalityType
    <3>6. Cardinality(others) >= Quorum
      BY <3>1, <3>5, SameCardinality DEF FR!QuorumWith
    <3> QED
      BY <3>2, <3>6 DEF others
  <2> QED
    BY <2>1, <2>2
<1>5. CASE FR!Restart \/ (\E p \in Reporter : FR!Join(p)) \/ (\E o \in recent : FR!Expire(o)) \/ UNCHANGED (FR!vars)
  BY <1>2, <1>5 DEF FR!Restart, FR!Join, FR!Expire, FR!vars
<1> QED
  BY <1>3, <1>4, <1>5 DEF FR!Next

\* PeerFailureConsensus.observe and the reportPeerFailure of both stores: a peer
\* that stays loses trust only when a quorum of others reported it for one reason
\* within one window, however reports repeat, expire and are forgotten by restarts.
THEOREM TrustNeedsQuorum ==
  ASSUME IsFiniteSet(Reporter), Quorum \in Nat
  PROVE  SafeSpec => TrustJustified
<1>1. MachineInit => TrustInv
  BY TrustInit DEF MachineInit
<1>2. TrustInv /\ [MachineNext]_machineVars =>
         TrustInv' /\ [machine = "FR" => FR!Justified]_machineVars
  BY MachineSteps, TrustKept, StepJustified
<1> QED
  BY <1>1, <1>2, PTL DEF SafeSpec, TrustJustified

-----------------------------------------------------------------------------
(* The origin's stream.  Only one of ffmpeg, its start and the timer of the *)
(* next start exists, and each start has used up one attempt, or is the     *)
(* first.                                                                   *)

Supervised ==
  /\ (restart \/ start = "preparing") => child = "none"
  /\ start = "spawning" <=> child = "spawning"
  /\ restart => start = "none"
  /\ stopping \in BOOLEAN /\ restart \in BOOLEAN

Counted ==
  /\ life <= streamAttempts + (IF restart THEN 0 ELSE 1)
  /\ (restart \/ start # "none" \/ child # "none") => streamAttempts <= MaxRestarts
  /\ intervals + (IF start = "none" THEN 0 ELSE 1) <= life

\* The interval that is known is one of those that fire.
Ticking == tracked \in BOOLEAN /\ (tracked => intervals > 0)

\* What is listed is the file; until ffmpeg opens it, there is none of this start.
Filed ==
  /\ published # Nothing => published = file
  /\ file # Nothing => file <= life /\ (start = "preparing" => file < life)

\* A hash is of what was written in the epoch it is called by, and of all of this
\* start's, unless it was asked for early.
HashNamed(hash) ==
  /\ hash.name = HS!Epoch(hash.of)
  /\ hash.of <= life
  /\ start = "preparing" \/ file = Nothing => hash.of < life
  /\ hash.of = file /\ file # Nothing => hash.whole \/ early

HashesNamed == \A hash \in streamPending \cup sidecars : HashNamed(hash)

StreamInv == HS!TypeOK /\ Supervised /\ Counted /\ Ticking /\ Filed /\ HashesNamed

LEMMA StreamInit == ASSUME MaxRestarts \in Nat, HS!Init PROVE StreamInv
<1>0. early \in BOOLEAN /\ forsaken \in BOOLEAN /\ (awaited => generation # Nothing)
  BY Zenon DEF HS!Init
<1>1. HS!TypeOK
  BY <1>0 DEF HS!Init, HS!TypeOK, HS!Lives
<1>2. Supervised
  BY DEF HS!Init, Supervised
<1>2a. Counted
  BY DEF HS!Init, Counted
<1>3. Ticking
  BY DEF HS!Init, Ticking
<1>4. HashesNamed
  BY DEF HS!Init, HashesNamed
<1>5. Filed
  BY DEF HS!Init, Filed
<1> QED
  BY <1>1, <1>2, <1>2a, <1>3, <1>4, <1>5 DEF StreamInv

LEMMA ScheduleForms ==
  ASSUME restart \in BOOLEAN, NEW halted \in BOOLEAN, HS!Schedule(halted)
  PROVE  /\ restart' \in BOOLEAN
         /\ halted \/ restart => UNCHANGED <<restart, streamAttempts>>
         /\ ~halted /\ ~restart =>
              /\ streamAttempts' = streamAttempts + 1
              /\ restart' <=> streamAttempts' <= MaxRestarts
<1> DEFINE few == streamAttempts' <= MaxRestarts
<1>1. few \in BOOLEAN
  OBVIOUS
<1>2. IF halted \/ restart THEN UNCHANGED <<restart, streamAttempts>>
      ELSE streamAttempts' = streamAttempts + 1 /\ restart' = few
  BY DEF HS!Schedule
<1> HIDE DEF few
<1>3. restart' \in BOOLEAN /\ (~halted /\ ~restart => (restart' <=> few))
  BY <1>1, <1>2, Zenon
<1> QED
  BY <1>2, <1>3, Zenon DEF few

\* An exit leaves the start alone, and schedules the next or leaves that alone too.
LEMMA ExitForms ==
  ASSUME restart \in BOOLEAN, stopping \in BOOLEAN, NEW bySigterm \in BOOLEAN,
         HS!ChildExits(bySigterm)
  PROVE  child' = "none" /\ (UNCHANGED <<restart, streamAttempts>> \/ HS!Schedule(stopping))
BY DEF HS!ChildExits

\* What the process does to the files: a restart counts on, its preparation removes
\* them, and no other step touches them.
LEMMA ProcessFiles ==
  ASSUME MaxRestarts \in Nat, StreamInv,
         \/ HS!Prepared \/ HS!Spawned \/ HS!StartFails \/ HS!RestartFires \/ HS!Exits
         \/ HS!Bind \/ HS!Terminate \/ HS!Close
         \/ HS!StopChild \/ HS!Killed \/ HS!StopDone \/ HS!Closed
  PROVE  HashesNamed' /\ Filed'
<1>0. /\ life \in Nat /\ (file # Nothing => file \in Nat)
      /\ \A hash \in streamPending \cup sidecars : hash.of \in Nat
  BY DEF StreamInv, HS!TypeOK, HS!Lives, HS!Hashes
<1>1. CASE HS!Prepared
  <2>1. /\ start = "preparing" /\ start' = "spawning" /\ life' = life
        /\ file' = Nothing /\ published' = Nothing
        /\ streamPending' = streamPending /\ sidecars' = {}
    BY <1>1 DEF HS!Prepared
  <2> QED
    BY <1>0, <2>1 DEF StreamInv, Filed, HashesNamed, HashNamed, HS!Epoch
<1>2. CASE HS!RestartFires
  <2>1. /\ life' = life + 1
        /\ UNCHANGED <<file, published, streamPending, sidecars, early>>
    BY <1>2 DEF HS!RestartFires, HS!hashVars
  <2> QED
    BY <1>0, <2>1 DEF StreamInv, Filed, HashesNamed, HashNamed, HS!Epoch
<1>3. CASE \/ HS!Spawned \/ HS!StartFails \/ HS!Exits \/ HS!Bind \/ HS!Terminate \/ HS!Close
           \/ HS!StopChild \/ HS!Killed \/ HS!StopDone \/ HS!Closed
  <2>1. /\ start' = start \/ start' = "none"
        /\ UNCHANGED <<life, file, published, streamPending, sidecars, early>>
    BY <1>3 DEF HS!Spawned, HS!StartFails, HS!Exits, HS!Bind, HS!Terminate, HS!Close, HS!StopChild,
                HS!Killed, HS!StopDone, HS!Closed, HS!hashVars
  <2> QED
    BY <1>0, <2>1 DEF StreamInv, Filed, HashesNamed, HashNamed, HS!Epoch
<1> QED
  BY <1>1, <1>2, <1>3

\* A step of the process keeps the invariant.
LEMMA ProcessKeeps ==
  ASSUME MaxRestarts \in Nat, StreamInv,
         \/ HS!Prepared \/ HS!Spawned \/ HS!StartFails \/ HS!RestartFires \/ HS!Exits
         \/ HS!Bind \/ HS!Terminate \/ HS!Close
         \/ HS!StopChild \/ HS!Killed \/ HS!StopDone \/ HS!Closed
  PROVE  StreamInv'
<1> USE DEF HS!Lives
<1>1. HashesNamed' /\ Filed'
  BY ProcessFiles
<1>2. CASE HS!Prepared
  <2>1. HS!TypeOK'
    BY <1>2 DEF StreamInv, HS!TypeOK, Supervised, Counted, Ticking, HS!Prepared
  <2>2. Supervised'
    BY <1>2 DEF StreamInv, Supervised, HS!Prepared
  <2>3. Counted'
    BY <1>2 DEF StreamInv, HS!TypeOK, Supervised, Counted, Ticking, HS!Prepared
  <2>4. Ticking'
    BY <1>2 DEF StreamInv, HS!TypeOK, Ticking, HS!Prepared
  <2> QED
    BY <1>1, <2>1, <2>2, <2>3, <2>4 DEF StreamInv
<1>3. CASE HS!Spawned
  <2>1. HS!TypeOK'
    BY <1>3 DEF StreamInv, HS!TypeOK, Supervised, Counted, Ticking, HS!Spawned
  <2>2. Supervised'
    BY <1>3 DEF StreamInv, Supervised, HS!Spawned
  <2>3. Counted'
    BY <1>3 DEF StreamInv, HS!TypeOK, Supervised, Counted, Ticking, HS!Spawned
  <2>4. Ticking'
    BY <1>3 DEF StreamInv, HS!TypeOK, Ticking, HS!Spawned
  <2> QED
    BY <1>1, <2>1, <2>2, <2>3, <2>4 DEF StreamInv
<1>4. CASE HS!StartFails
  <2>1. HS!TypeOK'
    BY <1>4 DEF StreamInv, HS!TypeOK, Supervised, Counted, Ticking, HS!StartFails, HS!Schedule, HS!hashVars
  <2>2. Supervised'
    BY <1>4, ScheduleForms DEF StreamInv, Supervised, HS!StartFails, HS!hashVars
  <2>3. Counted'
    BY <1>4 DEF StreamInv, HS!TypeOK, Supervised, Counted, Ticking, HS!StartFails, HS!Schedule, HS!hashVars
  <2>4. Ticking'
    BY <1>4 DEF StreamInv, HS!TypeOK, Ticking, HS!StartFails, HS!Schedule, HS!hashVars
  <2> QED
    BY <1>1, <2>1, <2>2, <2>3, <2>4 DEF StreamInv
<1>5. CASE HS!RestartFires
  <2>1. HS!TypeOK'
    BY <1>5 DEF StreamInv, HS!TypeOK, Supervised, Counted, Ticking, HS!RestartFires, HS!hashVars
  <2>2. Supervised'
    BY <1>5 DEF StreamInv, Supervised, HS!RestartFires, HS!hashVars
  <2>3. Counted'
    BY <1>5 DEF StreamInv, HS!TypeOK, Supervised, Counted, Ticking, HS!RestartFires, HS!hashVars
  <2>4. Ticking'
    BY <1>5 DEF StreamInv, HS!TypeOK, Ticking, HS!RestartFires, HS!hashVars
  <2> QED
    BY <1>1, <2>1, <2>2, <2>3, <2>4 DEF StreamInv
<1>6. CASE HS!Exits
  <2>0. start = "none" /\ child = "running" /\ restart \in BOOLEAN /\ stopping \in BOOLEAN
    BY <1>6 DEF StreamInv, HS!TypeOK, Supervised, HS!Exits
  <2>a. PICK bySigterm \in BOOLEAN :
          HS!ChildExits(bySigterm) /\ forsaken' = (forsaken \/ (bySigterm /\ ~stopping))
    BY <1>6 DEF HS!Exits
  <2>b. /\ child' = "none"
        /\ UNCHANGED <<restart, streamAttempts>> \/ HS!Schedule(stopping)
    BY <2>0, <2>a, ExitForms
  <2>c. UNCHANGED <<server, start, stop, stopping, life>> /\ UNCHANGED (HS!hashVars)
    BY <1>6 DEF HS!Exits
  <2>d. forsaken' \in BOOLEAN
    BY <2>a, Zenon
  <2>e. restart' \in BOOLEAN /\ streamAttempts' \in 0..(MaxRestarts + 1)
    BY <2>0, <2>b, ScheduleForms DEF StreamInv, HS!TypeOK, Counted
  <2>1. HS!TypeOK'
    BY <2>b, <2>c, <2>d, <2>e DEF StreamInv, HS!TypeOK, HS!hashVars
  <2>2. Supervised'
    BY <2>0, <2>b, <2>c, <2>e DEF StreamInv, Supervised
  <2>3. Counted'
    BY <2>0, <2>b, <2>c DEF StreamInv, HS!TypeOK, Supervised, Counted, HS!Schedule, HS!hashVars
  <2>4. Ticking'
    BY <2>c DEF StreamInv, Ticking, HS!hashVars
  <2> QED
    BY <1>1, <2>1, <2>2, <2>3, <2>4 DEF StreamInv
<1>7. CASE HS!Bind
  <2>1. HS!TypeOK'
    BY <1>7 DEF StreamInv, HS!TypeOK, Supervised, Counted, Ticking, HS!Bind, HS!CallStop, HS!hashVars
  <2>0. /\ start' = start /\ child' = child /\ (restart' => restart)
        /\ stopping' \in BOOLEAN /\ restart' \in BOOLEAN
    <3>1. /\ start' = start /\ child' = child
          /\ \/ stopping' = stopping /\ restart' = restart
             \/ stopping' = TRUE /\ restart' = FALSE
      BY <1>7 DEF HS!Bind, HS!CallStop
    <3>2. stopping \in BOOLEAN /\ restart \in BOOLEAN
      BY DEF StreamInv, Supervised
    <3> QED
      <4>1. CASE stopping' = stopping /\ restart' = restart
        BY <3>1, <3>2, <4>1
      <4>2. CASE stopping' = TRUE /\ restart' = FALSE
        BY <3>1, <4>2
      <4> QED
        BY <3>1, <4>1, <4>2
  <2>2. Supervised'
    BY <2>0 DEF StreamInv, Supervised
  <2>3. Counted'
    BY <1>7 DEF StreamInv, HS!TypeOK, Supervised, Counted, Ticking, HS!Bind, HS!CallStop, HS!hashVars
  <2>4. Ticking'
    BY <1>7 DEF StreamInv, HS!TypeOK, Ticking, HS!Bind, HS!CallStop, HS!hashVars
  <2> QED
    BY <1>1, <2>1, <2>2, <2>3, <2>4 DEF StreamInv
<1>8. CASE HS!Close
  <2>1. HS!TypeOK'
    BY <1>8 DEF StreamInv, HS!TypeOK, Supervised, Counted, Ticking, HS!Close, HS!CallStop, HS!hashVars
  <2>2. Supervised'
    BY <1>8 DEF StreamInv, Supervised, HS!Close, HS!CallStop, HS!hashVars
  <2>3. Counted'
    BY <1>8 DEF StreamInv, HS!TypeOK, Supervised, Counted, Ticking, HS!Close, HS!CallStop, HS!hashVars
  <2>4. Ticking'
    BY <1>8 DEF StreamInv, HS!TypeOK, Ticking, HS!Close, HS!CallStop, HS!hashVars
  <2> QED
    BY <1>1, <2>1, <2>2, <2>3, <2>4 DEF StreamInv
<1>9. CASE HS!StopChild
  <2>0. intervals' = (IF tracked THEN intervals - 1 ELSE intervals)
    BY <1>9 DEF HS!StopChild
  <2>a. intervals' \in 0..(MaxRestarts + 1)
    BY <2>0 DEF StreamInv, HS!TypeOK, Ticking
  <2>b. awaited' => generation # Nothing
    BY <1>9 DEF HS!StopChild
  <2>1. HS!TypeOK'
    BY <1>9, <2>a, <2>b DEF StreamInv, HS!TypeOK, HS!StopChild
  <2>2. Supervised'
    BY <1>9 DEF StreamInv, Supervised, HS!StopChild
  <2>3. Counted'
    BY <1>9 DEF StreamInv, HS!TypeOK, Supervised, Counted, Ticking, HS!StopChild
  <2>4. Ticking'
    BY <1>9 DEF StreamInv, HS!TypeOK, Ticking, HS!StopChild
  <2> QED
    BY <1>1, <2>1, <2>2, <2>3, <2>4 DEF StreamInv
<1>10. CASE HS!Killed
  <2>0. start = "none" /\ child = "terminating" /\ restart \in BOOLEAN /\ stopping \in BOOLEAN
    BY <1>10 DEF StreamInv, HS!TypeOK, Supervised, HS!Killed
  <2>a. PICK bySigterm \in BOOLEAN : HS!ChildExits(bySigterm)
    BY <1>10 DEF HS!Killed
  <2>b. /\ child' = "none"
        /\ UNCHANGED <<restart, streamAttempts>> \/ HS!Schedule(stopping)
    BY <2>0, <2>a, ExitForms
  <2>c. /\ UNCHANGED <<server, start, stopping, life, forsaken>> /\ UNCHANGED (HS!hashVars)
        /\ stop' = "hashing"
    BY <1>10 DEF HS!Killed
  <2>e. restart' \in BOOLEAN /\ streamAttempts' \in 0..(MaxRestarts + 1)
    BY <2>0, <2>b, ScheduleForms DEF StreamInv, HS!TypeOK, Counted
  <2>1. HS!TypeOK'
    BY <2>b, <2>c, <2>e DEF StreamInv, HS!TypeOK, HS!hashVars
  <2>2. Supervised'
    BY <2>0, <2>b, <2>c, <2>e DEF StreamInv, Supervised
  <2>3. Counted'
    BY <2>0, <2>b, <2>c DEF StreamInv, HS!TypeOK, Supervised, Counted, HS!Schedule, HS!hashVars
  <2>4. Ticking'
    BY <2>c DEF StreamInv, Ticking, HS!hashVars
  <2> QED
    BY <1>1, <2>1, <2>2, <2>3, <2>4 DEF StreamInv
<1>11. CASE HS!Terminate \/ HS!StopDone \/ HS!Closed
  <2>1. UNCHANGED <<start, stopping, child, restart, streamAttempts, life>> /\ UNCHANGED (HS!hashVars)
    BY <1>11 DEF HS!Terminate, HS!StopDone, HS!Closed
  <2>2. HS!TypeOK'
    BY <1>11, <2>1 DEF StreamInv, HS!TypeOK, HS!Terminate, HS!StopDone, HS!Closed, HS!hashVars
  <2> QED
    BY <1>1, <2>1, <2>2 DEF StreamInv, Supervised, Counted, Ticking, HS!hashVars
<1> QED
  BY <1>2, <1>3, <1>4, <1>5, <1>6, <1>7, <1>8, <1>9, <1>10, <1>11

\* A new hash is named and is of the file, in part only if it was asked for early.
LEMMA HashBegun ==
  ASSUME MaxRestarts \in Nat, StreamInv, HS!IntervalFires \/ HS!RequestHash
  PROVE  HS!TypeOK' /\ HashesNamed'
<1>1. PICK segment \in {published, file} :
        /\ segment # Nothing /\ HS!EnsureHash(segment)
        /\ (segment = published /\ early' = early) \/ early' = (early \/ file # published)
  BY DEF HS!IntervalFires, HS!RequestHash, HS!NeedsHash
<1>2. segment = file /\ segment \in HS!Lives
  BY <1>1 DEF StreamInv, HS!TypeOK, Filed
<1>3. PICK new \in HS!Hashes :
        /\ new.name = HS!Epoch(segment) /\ new.of = segment /\ (new.whole <=> segment = published)
        /\ streamPending' \subseteq streamPending \cup {new}
  <2> DEFINE begun == [name |-> HS!Epoch(segment), of |-> segment, whole |-> segment = published]
  <2>1. begun \in HS!Hashes
    BY <1>2 DEF HS!Hashes, HS!Epoch
  <2>2. streamPending' \subseteq streamPending \cup {begun}
    BY <1>1 DEF HS!EnsureHash
  <2>3. begun.name = HS!Epoch(segment) /\ begun.of = segment /\ (begun.whole <=> segment = published)
    OBVIOUS
  <2> HIDE DEF begun
  <2> QED
    BY <2>1, <2>2, <2>3
<1>6. /\ UNCHANGED <<HS!procVars, intervals, tracked, awaited, file, published, sidecars>>
      /\ generation' = generation \/ (generation = Nothing /\ generation' = published /\ published # Nothing)
  BY DEF HS!IntervalFires, HS!RequestHash, HS!Epoch, HS!NeedsHash
<1>7. early' \in BOOLEAN /\ (early => early') /\ (file # published => early')
  <2>1. early \in BOOLEAN
    BY DEF StreamInv, HS!TypeOK
  <2>2. CASE segment = published /\ early' = early
    BY <1>2, <2>1, <2>2
  <2>3. CASE early' = (early \/ file # published)
    BY <2>1, <2>3, Zenon
  <2> QED
    BY <1>1, <2>2, <2>3
<1>8. HashNamed(new)'
  <2>1. new.whole \/ early'
    BY <1>2, <1>3, <1>7
  <2>2. new.of <= life /\ (start = "preparing" => new.of < life) /\ file # Nothing
    BY <1>1, <1>2, <1>3 DEF StreamInv, Filed
  <2> QED
    BY <1>2, <1>3, <1>6, <2>1, <2>2 DEF HashNamed, HS!procVars, HS!Epoch
<1>9. ASSUME NEW hash \in streamPending \cup sidecars PROVE HashNamed(hash)'
  <2>1. HashNamed(hash) /\ (hash.whole \/ early => hash.whole \/ early')
    BY <1>7 DEF HashesNamed, StreamInv
  <2> QED
    BY <1>6, <2>1 DEF HashNamed, HS!procVars, HS!Epoch
<1>10. HashesNamed'
  BY <1>3, <1>6, <1>8, <1>9 DEF HashesNamed
<1>11. HS!TypeOK'
  BY <1>3, <1>6, <1>7 DEF StreamInv, HS!TypeOK, HS!procVars
<1> QED
  BY <1>10, <1>11

LEMMA StreamKept ==
  ASSUME MaxRestarts \in Nat, StreamInv, [HS!Next]_(HS!streamVars)
  PROVE  StreamInv'
<1> USE DEF HS!procVars, HS!hashVars
<1>1. ASSUME UNCHANGED (HS!procVars), UNCHANGED <<intervals, tracked>>, StreamInv
      PROVE  Supervised' /\ Counted' /\ Ticking'
  BY <1>1 DEF StreamInv, Supervised, Counted, Ticking
<1>2. CASE HS!Write
  <2>1. /\ start # "preparing" /\ file = Nothing /\ file' = life /\ published = Nothing
        /\ UNCHANGED <<start, life, published, streamPending, sidecars, early>>
    BY <1>2 DEF HS!Write, StreamInv, Supervised, Filed
  <2>2. life \in HS!Lives /\ \A hash \in streamPending \cup sidecars : hash.of \in HS!Lives
    BY DEF StreamInv, HS!TypeOK, HS!Hashes
  <2>3. HashesNamed'
    BY <2>1, <2>2 DEF StreamInv, HashesNamed, HashNamed, HS!Epoch, HS!Lives
  <2>4. Filed'
    BY <2>1, <2>2 DEF StreamInv, Filed, HS!Lives
  <2>5. HS!TypeOK'
    BY <1>2, <2>2 DEF StreamInv, HS!TypeOK, HS!Write
  <2> QED
    BY <1>1, <1>2, <2>3, <2>4, <2>5 DEF HS!Write, StreamInv
<1>3. CASE HS!Publish
  <2>1. HashesNamed' /\ Filed'
    BY <1>3 DEF HS!Publish, StreamInv, HashesNamed, HashNamed, Filed, HS!Epoch
  <2>2. HS!TypeOK'
    BY <1>3 DEF HS!Publish, StreamInv, HS!TypeOK
  <2> QED
    BY <1>1, <1>3, <2>1, <2>2 DEF HS!Publish, StreamInv
<1>4. CASE HS!IntervalFires \/ HS!RequestHash
  <2>1. UNCHANGED <<HS!procVars, intervals, tracked, file, published>>
    BY <1>4 DEF HS!IntervalFires, HS!RequestHash
  <2>2. Filed'
    BY <2>1 DEF Filed, StreamInv
  <2>3. Supervised' /\ Counted' /\ Ticking'
    BY <1>1, <2>1
  <2> QED
    BY <1>4, <2>2, <2>3, HashBegun DEF StreamInv
<1>5. ASSUME NEW hash \in HS!Hashes, HS!HashEnds(hash) PROVE StreamInv'
  <2>1. HashesNamed' /\ Filed'
    BY <1>5 DEF HS!HashEnds, HashesNamed, HashNamed, Filed, StreamInv, HS!Epoch
  <2>2. HS!TypeOK'
    BY <1>5 DEF HS!HashEnds, StreamInv, HS!TypeOK
  <2> QED
    BY <1>1, <1>5, <2>1, <2>2 DEF HS!HashEnds, StreamInv
<1>6. CASE UNCHANGED (HS!streamVars)
  BY <1>1, <1>6 DEF HS!streamVars, StreamInv, HS!TypeOK, Filed, HashesNamed, HashNamed, HS!Epoch
<1> QED
  BY <1>2, <1>3, <1>4, <1>5, <1>6, ProcessKeeps DEF HS!Next

\* createHashFile renames a sidecar into place without knowing whether ffmpeg was
\* started again meanwhile: the epoch in the name is what keeps the hash of a
\* former start from being served for a segment of this one.  Of this one's it
\* may be a part only if a request came before ffmpeg had listed it.
THEOREM SidecarsAreCurrent ==
  ASSUME MaxRestarts \in Nat
  PROVE  SafeSpec => []SidecarsMatch
<1>1. MachineInit => StreamInv
  BY StreamInit DEF MachineInit
<1>2. StreamInv /\ [MachineNext]_machineVars => StreamInv'
  BY MachineSteps, StreamKept
<1>3. StreamInv => SidecarsMatch
  BY DEF StreamInv, HashesNamed, HashNamed, Filed, SidecarsMatch, HS!SidecarsMatch, HS!Epoch
<1> QED
  BY <1>1, <1>2, <1>3, PTL DEF SafeSpec

-----------------------------------------------------------------------------
(* The Node peer's run().                                                   *)

\* What run() has started, and when.
Underway ==
  /\ signaling = "connecting" <=> manager \in {"starting", "stopping"}
  /\ manager \in {"idle", "stopped"} => signaling = "off"
  /\ pc \in {"uploading", "failed"} => uploader = "down" /\ manager = "idle" /\ runTracker = "out"
  /\ pc = "joining" => runTracker = "out"
  /\ pc \in {"leaving", "returned"} => uploader = "down" /\ manager \in {"stopping", "stopped"}
  /\ pc = "returned" => manager = "stopped" /\ runTracker # "joined"
  /\ pc # "fetching" => \A s \in PA!Numbers : route[s] = "none"

\* A segment that is not given up has been tried as often as it failed, and
\* once more if it is being fetched.
TriedOnce(s) ==
  /\ tries[s] <= MaxAttempts
  /\ s \notin processed =>
       /\ runAttempts[s] < MaxAttempts
       /\ tries[s] = runAttempts[s] + (IF route[s] = "none" THEN 0 ELSE 1)
  /\ route[s] # "none" => s \in runCurrent \ (processed \cup runPending)
  /\ s \in runPending => s \notin processed

Tried == \A s \in PA!Numbers : TriedOnce(s)

RunInv == PA!TypeOK /\ Underway /\ Tried

\* Sets of numbers have a least element.
LEMMA SmallestIn ==
  ASSUME NEW S, S \subseteq Nat, S # {}
  PROVE  PA!Smallest(S) \in S
<1>1. PICK x \in S : \A y \in S : ~(<<y, x>> \in OpToRel(<, Nat))
  BY WFMin, NatLessThanWellFounded, Zenon
<1>2. ASSUME NEW y \in S PROVE x <= y
  <2>1. <<y, x>> \in Nat \X Nat /\ ~(<<y, x>> \in OpToRel(<, Nat))
    BY <1>1
  <2>2. ~(y < x)
    BY <2>1 DEF OpToRel
  <2> QED
    BY <2>2
<1> QED
  BY <1>2 DEF PA!Smallest

LEMMA RunInit ==
  ASSUME LastSegment \in Nat \ {0}, MaxAttempts \in Nat \ {0}, PA!Init
  PROVE  RunInv
<1>1. PA!TypeOK
  <2>1. 1 \in PA!Numbers /\ 0 \in 0..MaxAttempts
    BY DEF PA!Numbers
  <2> QED
    BY <2>1 DEF PA!Init, PA!TypeOK, PA!Places
<1>2. Underway
  BY DEF PA!Init, Underway
<1>3. Tried
  BY DEF PA!Init, Tried, TriedOnce
<1> QED
  BY <1>1, <1>2, <1>3 DEF RunInv

\* Who stops what: steps that leave the loop alone.
LEMMA ControlKeeps ==
  ASSUME LastSegment \in Nat \ {0}, RunInv,
         \/ PA!Publish \/ PA!ManagerStarts \/ PA!Uploading \/ PA!Joined \/ PA!Started
         \/ PA!Shutdown \/ PA!Leave \/ PA!RoundOver \/ PA!Wait
  PROVE  RunInv'
<1> USE DEF RunInv, PA!TypeOK, PA!Places, PA!managerVars, PA!loopVars, PA!StartManager, PA!StopManager
<1>1. UNCHANGED (PA!loopVars)
  BY DEF PA!Publish, PA!ManagerStarts, PA!Uploading, PA!Joined, PA!Started, PA!Shutdown, PA!Leave,
         PA!RoundOver, PA!Wait
<1>2. Tried'
  BY <1>1 DEF Tried, TriedOnce
<1>3. CASE PA!Publish
  BY <1>2, <1>3 DEF PA!Publish, Underway, PA!Numbers
<1>4. CASE PA!ManagerStarts
  BY <1>2, <1>4 DEF PA!ManagerStarts, Underway
<1>5. CASE PA!Uploading
  BY <1>2, <1>5 DEF PA!Uploading, Underway
<1>6. CASE PA!Joined
  BY <1>2, <1>6 DEF PA!Joined, Underway
<1>7. CASE PA!Started
  BY <1>2, <1>7 DEF PA!Started, Underway
<1>8. CASE PA!Shutdown
  BY <1>2, <1>8 DEF PA!Shutdown, Underway
<1>9. CASE PA!Leave
  BY <1>2, <1>9 DEF PA!Leave, Underway
<1>10. CASE PA!RoundOver \/ PA!Wait
  BY <1>2, <1>10 DEF PA!RoundOver, PA!Wait, Underway
<1> QED
  BY <1>3, <1>4, <1>5, <1>6, <1>7, <1>8, <1>9, <1>10

LEMMA AbortKeeps == ASSUME RunInv, PA!Abort PROVE RunInv'
<1>1. /\ route' = route \/ route' = PA!CutOff
      /\ UNCHANGED <<pc, runTracker, newest, runCurrent, runPending, processed, runAttempts, tries>>
  BY DEF PA!Abort, PA!StopActiveWork
<1>2. /\ route' \in [PA!Numbers -> {"none", "webrtc", "http", "origin", "ok", "failed"}]
      /\ \A s \in PA!Numbers : route'[s] = "none" <=> route[s] = "none"
  BY <1>1 DEF PA!CutOff, RunInv, PA!TypeOK
<1>3. Tried'
  BY <1>1, <1>2 DEF RunInv, Tried, TriedOnce
<1>4. /\ PA!TypeOK'
      /\ Underway'
  BY <1>1, <1>2 DEF PA!Abort, PA!StopActiveWork, PA!StopManager, PA!managerVars, RunInv, PA!TypeOK, Underway
<1> QED
  BY <1>3, <1>4 DEF RunInv

LEMMA FetchKeeps ==
  ASSUME RunInv, NEW s \in PA!Numbers, PA!Fetch(s)
  PROVE  RunInv'
<1>1. PICK answer \in {"ok", PA!Fallback(route[s])} : route' = [route EXCEPT ![s] = answer]
  BY DEF PA!Fetch
<1>2. /\ route[s] # "none" /\ answer \in {"ok", "http", "origin", "failed"}
      /\ UNCHANGED <<pc, runAborted, uploader, PA!managerVars, runTracker, newest, runCurrent,
                     runPending, processed, runAttempts, tries>>
  BY DEF PA!Fetch, PA!Fallback
<1>3. /\ route' \in [PA!Numbers -> {"none", "webrtc", "http", "origin", "ok", "failed"}]
      /\ \A t \in PA!Numbers : route'[t] = "none" <=> route[t] = "none"
  BY <1>1, <1>2 DEF RunInv, PA!TypeOK
<1>4. Tried'
  BY <1>2, <1>3 DEF RunInv, Tried, TriedOnce
<1> QED
  BY <1>2, <1>3, <1>4 DEF RunInv, PA!TypeOK, Underway, PA!managerVars

LEMMA PollKeeps == ASSUME MaxAttempts \in Nat \ {0}, RunInv, PA!Poll PROVE RunInv'
<1> DEFINE playlist == PA!Playlist(newest)
<1>1. CASE UNCHANGED (PA!loopVars)
  BY <1>1 DEF PA!Poll, PA!loopVars, PA!managerVars, RunInv, PA!TypeOK, PA!Places, Underway, Tried, TriedOnce
<1>2. CASE ~UNCHANGED (PA!loopVars)
  <2>1. /\ pc = "polling" /\ pc' = "round" /\ route' = route /\ runCurrent' = playlist
        /\ processed' = processed \cap playlist
        /\ runAttempts' = [s \in PA!Numbers |-> IF s \in playlist THEN runAttempts[s] ELSE 0]
        /\ runPending' = playlist \ processed'
        /\ tries' = [s \in PA!Numbers |-> IF s \in playlist THEN tries[s] ELSE 0]
        /\ UNCHANGED <<runAborted, uploader, PA!managerVars, runTracker, newest>>
    BY <1>2 DEF PA!Poll, PA!Retained
  <2>2. playlist \subseteq PA!Numbers
    BY DEF PA!Playlist
  <2> HIDE DEF playlist
  <2>3. PA!TypeOK'
    BY <2>1, <2>2 DEF RunInv, PA!TypeOK, PA!Places, PA!managerVars
  <2>4. Underway'
    BY <2>1 DEF RunInv, Underway, PA!managerVars
  <2>5. Tried'
    <3> SUFFICES ASSUME NEW s \in PA!Numbers PROVE TriedOnce(s)'
      BY DEF Tried
    <3>1. TriedOnce(s) /\ route[s] = "none" /\ runAttempts[s] \in Nat
      BY <2>1 DEF RunInv, Tried, Underway, PA!TypeOK
    <3>2. CASE s \in playlist
      BY <2>1, <3>1, <3>2 DEF TriedOnce
    <3>3. CASE s \notin playlist
      BY <2>1, <3>1, <3>3 DEF TriedOnce
    <3> QED
      BY <3>2, <3>3
  <2> QED
    BY <2>3, <2>4, <2>5 DEF RunInv
<1> QED
  BY <1>1, <1>2

LEMMA NextBatchKeeps == ASSUME MaxAttempts \in Nat \ {0}, RunInv, PA!NextBatch PROVE RunInv'
<1> DEFINE spare == {s \in runPending : PA!Ahead(s) >= MinAhead}
           batch == IF spare # {} THEN PA!FirstOf(spare) ELSE {PA!Smallest(runPending)}
<1>1. /\ pc = "round" /\ pc' = "fetching" /\ runPending # {} /\ runPending' = runPending \ batch
      /\ tries' = [s \in PA!Numbers |-> IF s \in batch THEN tries[s] + 1 ELSE tries[s]]
      /\ \E peers \in SUBSET batch :
           route' = [s \in PA!Numbers |-> IF s \in peers THEN "webrtc"
                                        ELSE IF s \in batch THEN "origin" ELSE "none"]
      /\ UNCHANGED <<runAborted, uploader, PA!managerVars, runTracker, newest, runCurrent, processed,
                     runAttempts>>
  BY DEF PA!NextBatch
<1>2. runPending \subseteq PA!Numbers \cap runCurrent /\ PA!Numbers \subseteq Nat
  BY DEF RunInv, PA!TypeOK, PA!Numbers
<1>3. PA!Smallest(runPending) \in runPending
  BY <1>1, <1>2, SmallestIn
<1>4. batch \subseteq runPending
  BY <1>3 DEF PA!FirstOf
<1> HIDE DEF batch
<1>5. PICK peers \in SUBSET batch :
        route' = [s \in PA!Numbers |-> IF s \in peers THEN "webrtc"
                                     ELSE IF s \in batch THEN "origin" ELSE "none"]
  BY <1>1
<1>6. /\ route' \in [PA!Numbers -> {"none", "webrtc", "http", "origin", "ok", "failed"}]
      /\ \A s \in PA!Numbers : route'[s] # "none" <=> s \in batch
  BY <1>5
<1>7. PA!TypeOK'
  BY <1>1, <1>6 DEF RunInv, PA!TypeOK, PA!Places, PA!managerVars
<1>8. Underway'
  BY <1>1 DEF RunInv, Underway, PA!managerVars
<1>9. Tried'
  <2> SUFFICES ASSUME NEW s \in PA!Numbers PROVE TriedOnce(s)'
    BY DEF Tried
  <2>1. TriedOnce(s) /\ route[s] = "none" /\ runAttempts[s] \in Nat /\ tries[s] \in Nat
    BY <1>1 DEF RunInv, Tried, Underway, PA!TypeOK
  <2>2. CASE s \in batch
    BY <1>1, <1>2, <1>4, <1>6, <2>1, <2>2 DEF TriedOnce
  <2>3. CASE s \notin batch
    BY <1>1, <1>6, <2>1, <2>3 DEF TriedOnce
  <2> QED
    BY <2>2, <2>3
<1> QED
  BY <1>7, <1>8, <1>9 DEF RunInv

LEMMA BatchEndsKeeps == ASSUME MaxAttempts \in Nat \ {0}, RunInv, PA!BatchEnds PROVE RunInv'
<1> DEFINE lost == \E s \in PA!Batch : route[s] = "failed"
<1>1. /\ pc = "fetching" /\ pc' = "round" /\ route' = [s \in PA!Numbers |-> "none"]
      /\ runAttempts' = [s \in PA!Numbers |-> IF s \notin PA!Batch THEN runAttempts[s]
                                             ELSE IF lost THEN runAttempts[s] + 1 ELSE 0]
      /\ processed' = processed \cup {s \in PA!Batch : lost => PA!GivenUp(runAttempts'[s])}
      /\ UNCHANGED <<runAborted, uploader, PA!managerVars, runTracker, newest, runCurrent,
                     runPending, tries>>
  BY DEF PA!BatchEnds
<1>2. \A s \in PA!Numbers : /\ TriedOnce(s) /\ tries[s] \in Nat /\ runAttempts[s] \in 0..MaxAttempts
                            /\ route[s] # "none" <=> s \in PA!Batch
  BY DEF RunInv, Tried, PA!TypeOK, PA!Batch
<1>3. PA!Batch \subseteq PA!Numbers
  BY DEF PA!Batch
<1> HIDE DEF lost
<1>4. \A s \in PA!Numbers : runAttempts'[s] \in 0..MaxAttempts
  BY <1>1, <1>2 DEF TriedOnce
<1>5. Tried'
  <2> SUFFICES ASSUME NEW s \in PA!Numbers PROVE TriedOnce(s)'
    BY DEF Tried
  <2>1. CASE s \in PA!Batch /\ lost
    BY <1>1, <1>2, <2>1 DEF TriedOnce, PA!GivenUp
  <2>2. CASE s \in PA!Batch /\ ~lost
    BY <1>1, <1>2, <2>2 DEF TriedOnce
  <2>3. CASE s \notin PA!Batch
    BY <1>1, <1>2, <2>3 DEF TriedOnce
  <2> QED
    BY <2>1, <2>2, <2>3
<1>6. PA!TypeOK'
  <2>1. runAttempts' \in [PA!Numbers -> 0..MaxAttempts]
    BY <1>1, <1>4
  <2>2. PA!Batch \subseteq runCurrent
    BY <1>2, <1>3 DEF TriedOnce
  <2> QED
    BY <1>1, <2>1, <2>2 DEF RunInv, PA!TypeOK, PA!Places, PA!managerVars
<1>7. Underway'
  BY <1>1 DEF RunInv, Underway, PA!managerVars
<1> QED
  BY <1>5, <1>6, <1>7 DEF RunInv

LEMMA RunKept ==
  ASSUME LastSegment \in Nat \ {0}, MaxAttempts \in Nat \ {0}, RunInv, [PA!Next]_(PA!vars)
  PROVE  RunInv'
<1>1. CASE UNCHANGED (PA!vars)
  BY <1>1 DEF PA!vars, PA!loopVars, PA!managerVars, RunInv, PA!TypeOK, Underway, Tried, TriedOnce
<1> QED
  BY <1>1, ControlKeeps, AbortKeeps, FetchKeeps, PollKeeps, NextBatchKeeps, BatchEndsKeeps
     DEF PA!Next, PA!RunStep

-----------------------------------------------------------------------------
(* The hub.  TH is the machine, TM the same instance of the module that      *)
(* proves what its steps keep: their definitions are the same.              *)
TM == INSTANCE TrackerMirrorProofs WITH
  Owner <- [k \in Sockets |-> k],
  Peers <- HubPeers, Segments <- HubSegments, registered <- hubRegistered,
  pending <- hubPending, timer <- hubTimer, current <- hubCurrent,
  reported <- hubReported, attached <- hubAttached

LEMMA SameHub ==
  /\ TH!Init => TM!Init
  /\ TH!Next => TM!Next
  /\ UNCHANGED hubVars => UNCHANGED (TM!vars)
  /\ TM!MembershipMirrored /\ TM!NothingResurrected => TH!MembershipMirrored /\ TH!NothingResurrected
  /\ TH!ViewAssumption /\ TH!HubAssumption => TM!ViewAssumption /\ TM!HubAssumption
<1>1. TH!Init => TM!Init
  BY Zenon DEF TH!Init, TM!Init, TH!ViewsInit, TM!ViewsInit, TH!NoUpdates, TM!NoUpdates
<1>2. TH!Next => TM!Next
  BY Zenon DEF
  TH!View, TM!View, TH!HasRoom, TM!HasRoom, TH!Flip, TM!Flip, TH!Candidates, TM!Candidates,
  TH!Additions, TM!Additions, TH!Reciprocal, TM!Reciprocal, TH!Crowded, TM!Crowded, TH!Evictions, TM!Evictions,
  TH!Relink, TM!Relink, TH!Leave, TM!Leave, TH!Watchers, TM!Watchers, TH!ForgetViews, TM!ForgetViews,
  TH!viewVars, TM!viewVars, TH!storeVars, TM!storeVars, TH!batchVars, TM!batchVars, TH!flushVars, TM!flushVars,
  TH!turnVars, TM!turnVars, TH!Update, TM!Update, TH!NoUpdates, TM!NoUpdates, TH!InMode, TM!InMode,
  TH!Audience, TM!Audience, TH!ViewerIds, TM!ViewerIds, TH!Idle, TM!Idle, TH!Applied, TM!Applied,
  TH!Tell, TM!Tell, TH!Announce, TM!Announce, TH!Seeded, TM!Seeded, TH!WithoutUpdatesOf, TM!WithoutUpdatesOf,
  TH!Merge, TM!Merge, TH!Publish, TM!Publish, TH!Stored, TM!Stored, TH!Turns, TM!Turns,
  TH!SentTo, TM!SentTo, TH!SentToViewers, TM!SentToViewers, TH!SentToBatched, TM!SentToBatched, TH!EndFlush, TM!EndFlush,
  TH!Flush, TM!Flush, TH!FlushOver, TM!FlushOver, TH!StillCurrent, TM!StillCurrent, TH!Listed, TM!Listed,
  TH!Disconnected, TM!Disconnected, TH!Cardinality, TM!Cardinality, TH!IsFiniteSet, TM!IsFiniteSet,
  TH!Join, TM!Join, TH!RemovePeers, TM!RemovePeers, TH!PeerLeft, TM!PeerLeft, TH!Refill, TM!Refill,
  TH!Report, TM!Report, TH!ReportRest, TM!ReportRest, TH!FlushTimer, TM!FlushTimer, TH!Slice, TM!Slice,
  TH!Subscribe, TM!Subscribe, TH!Close, TM!Close, TH!RemoveBroadcast, TM!RemoveBroadcast, TH!Restart, TM!Restart,
  TH!Turn, TM!Turn, TH!SocketNext, TM!SocketNext, TH!Next, TM!Next
<1>3. UNCHANGED hubVars => UNCHANGED (TM!vars)
  BY DEF hubVars, TM!vars, TM!viewVars, TM!storeVars, TM!batchVars, TM!flushVars, TM!turnVars
<1>4. TM!MembershipMirrored /\ TM!NothingResurrected => TH!MembershipMirrored /\ TH!NothingResurrected
  BY Zenon DEF
  TH!MembershipMirrored, TM!MembershipMirrored, TH!NothingResurrected, TM!NothingResurrected, TH!Known, TM!Known, TH!Viewing, TM!Viewing,
  TH!View, TM!View, TH!InMode, TM!InMode, TH!Idle, TM!Idle
<1>5. TH!ViewAssumption /\ TH!HubAssumption => TM!ViewAssumption /\ TM!HubAssumption
  BY Zenon DEF TH!ViewAssumption, TM!ViewAssumption, TH!HubAssumption, TM!HubAssumption,
  TH!IsFiniteSet, TM!IsFiniteSet
<1> QED
  BY <1>1, <1>2, <1>3, <1>4, <1>5

\* The steps of the machine are the hub's.
LEMMA HubSteps == ASSUME [MachineNext]_machineVars PROVE [TM!Next]_(TM!vars)
<1>1. HubStep => TH!Next
  BY DEF HubStep, TH!Next, TH!SocketNext
<1> QED
  BY <1>1, OneRuns, SameHub

\* Subscribers of every mode know exactly the peers they are to see, and list
\* for none what it has not reported since it last joined (websocket.ts:
\* peerJoined, peerLeft, announceFill, flushInventory), if flushes are whole or
\* peers do not come back: see NothingIsResurrected in TrackerMirrorProofs.
THEOREM SubscribersAreTold ==
  ASSUME TH!ViewAssumption, TH!HubAssumption,
         ~MayRejoin \/ Cardinality(HubPeers) <= ViewersPerTurn
  PROVE  SafeSpec => []SubscribersFollow
<1>0. TM!ViewAssumption /\ TM!HubAssumption /\ (~MayRejoin \/ TM!FlushesWhole)
  <2>1. TM!Cardinality(HubPeers) = Cardinality(HubPeers)
    BY DEF TM!Cardinality, TM!IsFiniteSet, Cardinality, IsFiniteSet
  <2> QED
    BY <2>1, SameHub DEF TM!FlushesWhole
<1>1. MachineInit => TM!ReportedInv
  BY <1>0, SameHub, TM!ReportedInit DEF MachineInit, TM!ReportedInit
<1>2. TM!ReportedInv /\ [MachineNext]_machineVars => TM!ReportedInv'
  BY <1>0, HubSteps, TM!ReportedNext DEF TM!ReportedNext
<1>3. TM!ReportedInv => SubscribersFollow
  BY <1>0, SameHub, TM!ReportedSafe DEF TM!ReportedSafe, SubscribersFollow
<1> QED
  BY <1>1, <1>2, <1>3, PTL DEF SafeSpec

-----------------------------------------------------------------------------
(* The store.  SQ is the machine, SP the same instance of the module that    *)
(* proves the refinement.                                                    *)
SP == INSTANCE SqliteStoreProofs

LEMMA SameStatements == \A t, x : SQ!Effect(t, x) = SP!Effect(t, x)
  BY DEF
  SQ!Effect, SP!Effect, SQ!Without, SP!Without, SQ!Less, SP!Less, SQ!Those, SP!Those, SQ!Range,
  SP!Range, SQ!Store!Put, SP!Store!Put, SQ!Store!Drop, SP!Store!Drop, SQ!Store!NewPeer,
  SP!Store!NewPeer, SQ!Store!Max, SP!Store!Max, SQ!RetiredOf, SP!RetiredOf

LEMMA SameBroadcastCalls ==
  ASSUME NEW b
  PROVE  /\ SQ!RegisterBroadcast(b) => SP!RegisterBroadcast(b)
         /\ SQ!UnregisterBroadcast(b) => SP!UnregisterBroadcast(b)
<1>1. SQ!RegisterBroadcast(b) => SP!RegisterBroadcast(b)
  BY Zenon DEF
  SQ!RegisterBroadcast, SP!RegisterBroadcast, SQ!Single, SP!Single, SQ!Call, SP!Call, SQ!Stmt,
  SP!Stmt
<1>2. SQ!UnregisterBroadcast(b) => SP!UnregisterBroadcast(b)
  BY Zenon DEF
  SQ!UnregisterBroadcast, SP!UnregisterBroadcast, SQ!Call, SP!Call, SQ!Stmt, SP!Stmt
<1> QED
  BY <1>1, <1>2

LEMMA SameNewest == \A s : SQ!Newest(s) = SP!Newest(s)
<1>1. \A S : SQ!Store!InventoryFits(S) <=> SP!Store!InventoryFits(S)
  BY Zenon DEF
  SQ!Store!InventoryFits, SP!Store!InventoryFits, SQ!Store!Cardinality, SP!Store!Cardinality,
  SQ!Store!IsFiniteSet, SP!Store!IsFiniteSet
<1>2. \A S : SQ!Range(S) = SP!Range(S) /\ SQ!Min(S) = SP!Min(S)
  BY Zenon DEF SQ!Range, SP!Range, SQ!Min, SP!Min
<1>3. \A s : SQ!Starts(s) = SP!Starts(s)
  BY <1>1, <1>2 DEF SQ!Starts, SP!Starts
<1> QED
  BY <1>2, <1>3 DEF SQ!Newest, SP!Newest

LEMMA SameInventory ==
  ASSUME NEW b, NEW p, NEW wanted
  PROVE  SQ!Inventory(b, p, wanted) = SP!Inventory(b, p, wanted)
<1>1. \A s, T : SQ!Less(s, T) = SP!Less(s, T)
  BY Zenon DEF SQ!Less, SP!Less, SQ!Those, SP!Those, SQ!Range, SP!Range
<1>2. \A t : SQ!SegmentsOf(t, b, p) = SP!SegmentsOf(t, b, p)
  BY Zenon DEF SQ!SegmentsOf, SP!SegmentsOf, SQ!Those, SP!Those
<1>3. \A s : SQ!Range(s) = SP!Range(s)
  BY Zenon DEF SQ!Range, SP!Range
<1>4. \A do, key, arg : SQ!Stmt(do, key, arg) = SP!Stmt(do, key, arg)
  BY Zenon DEF SQ!Stmt, SP!Stmt
<1> DEFINE existing == SQ!SegmentsOf(work, b, p)
           next == SQ!Newest(wanted)
           goes == SQ!Less(existing, SQ!Range(next))
           comes == SQ!Less(next, SQ!Range(existing))
<1>5. SQ!Inventory(b, p, wanted) =
        [i \in DOMAIN goes |-> SQ!Stmt("deletePeerSegment", <<b, p>>, goes[i])]
          \o [i \in DOMAIN comes |-> SQ!Stmt("insertPeerSegment", <<b, p>>, comes[i])]
          \o <<SQ!Stmt("updatePeerLastSeen", <<b, p>>, 0)>>
  BY Zenon DEF SQ!Inventory
<1>6. /\ SP!SegmentsOf(work, b, p) = existing /\ SP!Newest(wanted) = next
      /\ SP!Less(existing, SP!Range(next)) = goes /\ SP!Less(next, SP!Range(existing)) = comes
  BY <1>1, <1>2, <1>3, SameNewest
<1> HIDE DEF existing, next, goes, comes
<1>7. SP!Inventory(b, p, wanted) =
        [i \in DOMAIN goes |-> SP!Stmt("deletePeerSegment", <<b, p>>, goes[i])]
          \o [i \in DOMAIN comes |-> SP!Stmt("insertPeerSegment", <<b, p>>, comes[i])]
          \o <<SP!Stmt("updatePeerLastSeen", <<b, p>>, 0)>>
  BY <1>6, Zenon DEF SP!Inventory
<1> QED
  BY <1>5, <1>7, Zenon DEF SQ!Stmt, SP!Stmt

LEMMA SameCalls ==
  ASSUME NEW b, NEW p
  PROVE  /\ SQ!JoinPeer(b, p) => SP!JoinPeer(b, p)
         /\ SQ!LeavePeer(b, p) => SP!LeavePeer(b, p)
         /\ SQ!Heartbeat(b, p) => SP!Heartbeat(b, p)
         /\ SQ!ReportSegments(b, p) => SP!ReportSegments(b, p)
         /\ SQ!ApplySegmentDelta(b, p) => SP!ApplySegmentDelta(b, p)
         /\ SQ!ReportStats(b, p) => SP!ReportStats(b, p)
         /\ SQ!Penalize(b, p) => SP!Penalize(b, p)
<1>1. SQ!JoinPeer(b, p) => SP!JoinPeer(b, p)
  BY Zenon DEF
  SQ!JoinPeer, SP!JoinPeer, SQ!Call, SP!Call, SQ!Stmt, SP!Stmt, SQ!Cardinality, SP!Cardinality,
  SQ!IsFiniteSet, SP!IsFiniteSet, SQ!PeersOf, SP!PeersOf
<1>2. SQ!LeavePeer(b, p) => SP!LeavePeer(b, p)
  BY Zenon DEF
  SQ!LeavePeer, SP!LeavePeer, SQ!Call, SP!Call, SQ!Retire, SP!Retire, SQ!Stmt, SP!Stmt, SQ!Fits,
  SP!Fits, SQ!Store!Carried, SP!Store!Carried, SQ!Store!Cardinality, SP!Store!Cardinality,
  SQ!Store!IsFiniteSet, SP!Store!IsFiniteSet, SQ!RetiredOf, SP!RetiredOf, SQ!View, SP!View,
  SQ!SegmentsOf, SP!SegmentsOf, SQ!PeersOf, SP!PeersOf, SQ!TrafficOf, SP!TrafficOf, SQ!Those,
  SP!Those, SQ!Range, SP!Range
<1>3. SQ!Heartbeat(b, p) => SP!Heartbeat(b, p)
  BY Zenon DEF
  SQ!Heartbeat, SP!Heartbeat, SQ!GroupedCall, SP!GroupedCall, SQ!Call, SP!Call, SQ!Stmt, SP!Stmt
<1>4. SQ!ReportSegments(b, p) => SP!ReportSegments(b, p)
  BY SameInventory, Zenon DEF
  SQ!ReportSegments, SP!ReportSegments, SQ!GroupedCall, SP!GroupedCall, SQ!Call, SP!Call, SQ!Less,
  SP!Less, SQ!Those, SP!Those, SQ!Range, SP!Range, SQ!SegmentsOf, SP!SegmentsOf, SQ!With, SP!With,
  SQ!Reports, SP!Reports, SQ!SetToSeqs, SP!SetToSeqs, SQ!Cardinality, SP!Cardinality,
  SQ!IsFiniteSet, SP!IsFiniteSet
<1>5. SQ!ApplySegmentDelta(b, p) => SP!ApplySegmentDelta(b, p)
  BY SameInventory, Zenon DEF
  SQ!ApplySegmentDelta, SP!ApplySegmentDelta, SQ!GroupedCall, SP!GroupedCall, SQ!Call, SP!Call,
  SQ!Less, SP!Less, SQ!Those, SP!Those, SQ!Range, SP!Range, SQ!SegmentsOf, SP!SegmentsOf, SQ!With,
  SP!With, SQ!Reports, SP!Reports, SQ!SetToSeqs, SP!SetToSeqs, SQ!Cardinality, SP!Cardinality,
  SQ!IsFiniteSet, SP!IsFiniteSet
<1>6. SQ!ReportStats(b, p) => SP!ReportStats(b, p)
  BY Zenon DEF
  SQ!ReportStats, SP!ReportStats, SQ!GroupedCall, SP!GroupedCall, SQ!Call, SP!Call, SQ!Stmt, SP!Stmt
<1>7. SQ!Penalize(b, p) => SP!Penalize(b, p)
  BY Zenon DEF
  SQ!Penalize, SP!Penalize, SQ!Single, SP!Single, SQ!Call, SP!Call, SQ!Stmt, SP!Stmt
<1> QED
  BY <1>1, <1>2, <1>3, <1>4, <1>5, <1>6, <1>7

LEMMA SameSweep == SQ!RemoveStalePeers => SP!RemoveStalePeers
  BY Zenon DEF
  SQ!RemoveStalePeers, SP!RemoveStalePeers, SQ!Call, SP!Call, SQ!Retirements, SP!Retirements,
  SQ!Retire, SP!Retire, SQ!Stmt, SP!Stmt, SQ!SetToSeq, SP!SetToSeq, SQ!IsInjective, SP!IsInjective,
  SQ!Cardinality, SP!Cardinality, SQ!IsFiniteSet, SP!IsFiniteSet, SQ!Fits, SP!Fits,
  SQ!Store!Carried, SP!Store!Carried, SQ!Store!Cardinality, SP!Store!Cardinality,
  SQ!Store!IsFiniteSet, SP!Store!IsFiniteSet, SQ!RetiredOf, SP!RetiredOf, SQ!View, SP!View,
  SQ!SegmentsOf, SP!SegmentsOf, SQ!PeersOf, SP!PeersOf, SQ!TrafficOf, SP!TrafficOf, SQ!Those,
  SP!Those, SQ!Range, SP!Range

LEMMA SameStore ==
  /\ SQ!Init => SP!Init
  /\ SQ!Next => SP!Next
  /\ UNCHANGED storeVars => UNCHANGED SP!vars
  /\ SP!A!StoreInit => SQ!A!StoreInit
  /\ [SP!A!StoreNext]_(SP!A!storeVars) => [SQ!A!StoreNext]_(SQ!A!storeVars)
<1>1. SQ!Init => SP!Init
  BY Zenon DEF SQ!Init, SP!Init, SQ!NoRows, SP!NoRows, SQ!Empty, SP!Empty
<1>2. SQ!Next => SP!Next
  <2>1. SQ!Statement => SP!Statement
    BY SameStatements DEF SQ!Statement, SP!Statement
  <2>2. SQ!StatementFails \/ SQ!EndTurn \/ SQ!Crash \/ SQ!AllAge =>
          SP!StatementFails \/ SP!EndTurn \/ SP!Crash \/ SP!AllAge
    BY Zenon DEF
  SQ!StatementFails, SP!StatementFails, SQ!EndTurn, SP!EndTurn, SQ!Crash, SP!Crash, SQ!AllAge,
  SP!AllAge
  <2>3. ASSUME script = <<>>, NEW b \in Broadcast, SQ!RegisterBroadcast(b) \/ SQ!UnregisterBroadcast(b)
        PROVE  SP!Next
    <3>1. SP!RegisterBroadcast(b) \/ SP!UnregisterBroadcast(b)
      BY Zenon, <2>3, SameBroadcastCalls
    <3> QED
      BY Zenon, <2>3, <3>1 DEF SP!Next
  <2>4. ASSUME script = <<>>, NEW b \in Broadcast, NEW p \in Peer,
               \/ SQ!JoinPeer(b, p) \/ SQ!LeavePeer(b, p) \/ SQ!Heartbeat(b, p)
               \/ SQ!ReportSegments(b, p) \/ SQ!ApplySegmentDelta(b, p)
               \/ SQ!ReportStats(b, p) \/ SQ!Penalize(b, p)
        PROVE  SP!Next
    <3>1. \/ SP!JoinPeer(b, p) \/ SP!LeavePeer(b, p) \/ SP!Heartbeat(b, p)
          \/ SP!ReportSegments(b, p) \/ SP!ApplySegmentDelta(b, p)
          \/ SP!ReportStats(b, p) \/ SP!Penalize(b, p)
      BY Zenon, <2>4, SameCalls
    <3> QED
      BY Zenon, <2>4, <3>1 DEF SP!Next
  <2>5. CASE script = <<>> /\ SQ!RemoveStalePeers
    BY Zenon, <2>5, SameSweep DEF SP!Next
  <2>6. SQ!Statement \/ SQ!StatementFails \/ SQ!EndTurn \/ SQ!Crash \/ SQ!AllAge => SP!Next
    BY Zenon, <2>1, <2>2 DEF SP!Next
  <2> QED
    BY Zenon, <2>3, <2>4, <2>5, <2>6 DEF SQ!Next
<1>3. UNCHANGED storeVars => UNCHANGED SP!vars
  BY DEF storeVars, SP!vars
<1>4. SP!A!StoreInit => SQ!A!StoreInit
  BY Zenon DEF
  SQ!A!StoreInit, SP!A!StoreInit, SQ!A!EmptyDb, SP!A!EmptyDb, SQ!View, SP!View, SQ!SegmentsOf,
  SP!SegmentsOf, SQ!PeersOf, SP!PeersOf, SQ!TrafficOf, SP!TrafficOf, SQ!RetiredOf, SP!RetiredOf,
  SQ!Those, SP!Those, SQ!Range, SP!Range
<1>5. [SP!A!StoreNext]_(SP!A!storeVars) => [SQ!A!StoreNext]_(SQ!A!storeVars)
  BY Zenon DEF
  SQ!A!StoreNext, SP!A!StoreNext, SQ!A!storeVars, SP!A!storeVars, SQ!A!RegisterBroadcast,
  SP!A!RegisterBroadcast, SQ!A!UnregisterBroadcast, SP!A!UnregisterBroadcast, SQ!A!JoinPeer,
  SP!A!JoinPeer, SQ!A!LeavePeer, SP!A!LeavePeer, SQ!A!ReportSegments, SP!A!ReportSegments,
  SQ!A!Heartbeat, SP!A!Heartbeat, SQ!A!ReportStats, SP!A!ReportStats, SQ!A!Penalize, SP!A!Penalize,
  SQ!A!AllAge, SP!A!AllAge, SQ!A!RemoveStalePeers, SP!A!RemoveStalePeers, SQ!A!Persist,
  SP!A!Persist, SQ!A!Restart, SP!A!Restart, SQ!A!Becomes, SP!A!Becomes, SQ!A!Member, SP!A!Member,
  SQ!A!Put, SP!A!Put, SQ!A!Drop, SP!A!Drop, SQ!A!NewBroadcast, SP!A!NewBroadcast, SQ!A!NewPeer,
  SP!A!NewPeer, SQ!A!Max, SP!A!Max, SQ!A!Limited, SP!A!Limited, SQ!A!InventoryFits, SP!A!InventoryFits,
  SQ!A!Cardinality, SP!A!Cardinality,
  SQ!A!IsFiniteSet, SP!A!IsFiniteSet, SQ!A!Carried, SP!A!Carried, SQ!A!Retired, SP!A!Retired,
  SQ!A!Stale, SP!A!Stale, SQ!A!Rewritten, SP!A!Rewritten, SQ!View, SP!View, SQ!SegmentsOf,
  SP!SegmentsOf, SQ!PeersOf, SP!PeersOf, SQ!TrafficOf, SP!TrafficOf, SQ!RetiredOf, SP!RetiredOf,
  SQ!Those, SP!Those, SQ!Range, SP!Range
<1> QED
  BY Zenon, <1>1, <1>2, <1>3, <1>4, <1>5

\* The calls of the store that is on SQLite (sqlite-store.ts), its failing
\* statements and the crashes of the tracker are operations of TrackerStore:
\* see StoreIsAtomic in SqliteStoreProofs.
THEOREM StoreIsImplemented ==
  ASSUME Traffic \subseteq Nat, MaxSegments \in Nat, MaxCharacters \in Nat
  PROVE  SafeSpec => ImplementsStore
<1>1. MachineInit => SP!StoreInv /\ SQ!A!StoreInit
  BY SameStore, SP!StoreStarts DEF MachineInit
<1>2. SP!StoreInv /\ [MachineNext]_machineVars => SP!StoreInv' /\ [SQ!A!StoreNext]_(SQ!A!storeVars)
  <2>1. [MachineNext]_machineVars => [SP!Next]_(SP!vars)
    <3>1. StoreStep => SQ!Next
      BY DEF StoreStep, Call, SQ!Next
    <3> QED
      BY <3>1, OneRuns, SameStore
  <2> QED
    BY <2>1, SameStore, SP!StoreKeeps DEF SP!Kept
<1> QED
  BY <1>1, <1>2, PTL DEF SafeSpec, ImplementsStore

-----------------------------------------------------------------------------
(* Scheduling.                                                              *)

\* Non-empty sets of numbers up to n have a least and a greatest element.
LEMMA LeastOf ==
  ASSUME NEW n \in Nat, NEW S \in SUBSET (1..n), S # {}
  PROVE  SS!Min(S) \in S /\ \A y \in S : SS!Min(S) <= y
<1>0. \A y \in S : y \in Nat
  OBVIOUS
<1>1. PICK x \in S : \A y \in S : ~(<<y, x>> \in OpToRel(<, Nat))
  <2>1. S \subseteq Nat
    OBVIOUS
  <2> QED
    BY <2>1, WFMin, NatLessThanWellFounded, Zenon
<1>2. ASSUME NEW y \in S PROVE x <= y
  <2>1. <<y, x>> \in Nat \X Nat /\ ~(<<y, x>> \in OpToRel(<, Nat))
    BY <1>0, <1>1
  <2>2. ~(y < x)
    BY <2>1 DEF OpToRel
  <2> QED
    BY <2>2
<1> QED
  BY <1>2 DEF SS!Min

LEMMA GreatestOf ==
  ASSUME NEW n \in Nat, NEW S \in SUBSET (1..n), S # {}
  PROVE  SS!Max(S) \in S /\ \A y \in S : SS!Max(S) >= y
<1> DEFINE T == {(n + 1) - y : y \in S}
<1>1. T \in SUBSET (1..n) /\ T # {}
  <2>1. \A y \in S : y \in 1..n /\ (n + 1) - y \in 1..n
    OBVIOUS
  <2>2. T # {}
    OBVIOUS
  <2> QED
    BY <2>1, <2>2
<1>2. PICK y \in S : (n + 1) - y = SS!Min(T)
  BY <1>1, LeastOf
<1>3. ASSUME NEW z \in S PROVE y >= z
  <2>1. (n + 1) - z \in T
    OBVIOUS
  <2>2. (n + 1) - y <= (n + 1) - z
    BY <1>1, <1>2, <2>1, LeastOf
  <2> QED
    BY <2>2
<1> QED
  BY <1>3 DEF SS!Max

LEMMA SameSize == ASSUME NEW S PROVE SS!Cardinality(S) = Cardinality(S)
BY DEF SS!Cardinality, SS!IsFiniteSet, Cardinality, IsFiniteSet

\* A set of numbers up to n has an order from the greatest down.
LEMMA Descending ==
  ASSUME NEW n \in Nat, NEW S \in SUBSET (1..n)
  PROVE  \E f \in SS!SetToSeqs(S) : \A k, l \in DOMAIN f : k < l => f[k] > f[l]
<1> DEFINE c == Cardinality(S)
           D == 1..c
           Above(i) == {j \in S : j >= i}
           r == [i \in S |-> Cardinality(Above(i))]
           f == [k \in D |-> CHOOSE i \in S : r[i] = k]
<1>0. \A x \in S : x \in Int
  OBVIOUS
<1>1. IsFiniteSet(S) /\ c \in Nat
  <2>1. IsFiniteSet(1..n)
    BY FS_Interval
  <2>2. IsFiniteSet(S)
    BY <2>1, FS_Subset
  <2> QED
    BY <2>2, FS_CardinalityType
<1>2. ASSUME NEW i \in S PROVE r[i] \in D
  <2>1. i \in Above(i) /\ Above(i) \subseteq S
    OBVIOUS
  <2>2. IsFiniteSet(Above(i)) /\ Cardinality(Above(i)) <= c
    BY <1>1, <2>1, FS_Subset
  <2>3. Cardinality(Above(i)) \in Nat /\ Cardinality(Above(i)) # 0
    BY <2>1, <2>2, FS_CardinalityType, FS_EmptySet
  <2> QED
    BY <1>1, <2>2, <2>3
<1>3. ASSUME NEW i \in S, NEW j \in S, i < j PROVE r[j] < r[i]
  <2>1. Above(j) \subseteq Above(i) /\ Above(j) # Above(i) /\ Above(i) \subseteq S
    <3>1. \A x \in S : x \in Int
      OBVIOUS
    <3>2. i \in Above(i) /\ i \notin Above(j)
      BY <1>3, <3>1
    <3>3. ASSUME NEW x \in Above(j) PROVE x \in Above(i)
      <4>1. x \in S /\ x >= j /\ x \in Int /\ i \in Int /\ j \in Int
        BY <3>1
      <4>2. x >= i
        BY <1>3, <4>1
      <4> QED
        BY <4>1, <4>2
    <3> QED
      BY <3>2, <3>3
  <2>2. IsFiniteSet(Above(i))
    BY <1>1, <2>1, FS_Subset
  <2>3. Cardinality(Above(j)) <= Cardinality(Above(i)) /\ Cardinality(Above(j)) # Cardinality(Above(i))
    BY <2>1, <2>2, FS_Subset
  <2>4. r[i] \in D /\ r[j] \in D
    BY <1>2
  <2> QED
    BY <1>1, <2>3, <2>4
<1> HIDE DEF r
<1>4. r \in Injection(S, D)
  <2>1. r \in [S -> D]
    BY <1>2 DEF r
  <2>2. ASSUME NEW i \in S, NEW j \in S, i # j PROVE r[i] # r[j]
    <3>1. i < j \/ j < i
      BY <2>2
    <3> QED
      BY <1>1, <1>2, <1>3, <3>1
  <2> QED
    BY <2>1, <2>2 DEF Injection, IsInjective
<1>5. r \in Surjection(S, D)
  <2>1. IsFiniteSet(D) /\ Cardinality(D) = c
    BY <1>1, FS_Interval
  <2> QED
    BY <1>4, <2>1, FS_Injection
<1>6. ASSUME NEW k \in D PROVE f[k] \in S /\ r[f[k]] = k
  BY <1>5 DEF Surjection
<1>7. f \in [D -> S]
  BY <1>6
<1> HIDE DEF f
<1>8. ASSUME NEW k \in D, NEW l \in D, k < l PROVE f[k] > f[l]
  <2>0. f[k] \in S /\ f[l] \in S /\ r[f[k]] = k /\ r[f[l]] = l
    BY <1>6
  <2>a. k \in Int /\ l \in Int
    BY <1>1
  <2>1. /\ f[k] \in S /\ f[l] \in S /\ r[f[k]] = k /\ r[f[l]] = l
        /\ k \in Int /\ l \in Int /\ f[k] \in Int /\ f[l] \in Int
    BY <1>0, <2>a, <2>0
  <2>2. ~(f[k] < f[l])
    BY <1>3, <1>8, <2>1
  <2>3. f[k] # f[l]
    BY <1>8, <2>1
  <2> QED
    BY <2>1, <2>2, <2>3
<1>9. ASSUME NEW k \in D, NEW l \in D, k # l PROVE f[k] # f[l]
  <2>1. k < l \/ l < k
    BY <1>1, <1>9
  <2>2. f[k] \in Int /\ f[l] \in Int
    BY <1>0, <1>7
  <2>3. f[k] > f[l] \/ f[l] > f[k]
    BY <1>8, <2>1
  <2> QED
    BY <2>2, <2>3
<1>10. f \in SS!SetToSeqs(S)
  BY <1>7, <1>9, SameSize DEF SS!SetToSeqs
<1>11. \A k, l \in DOMAIN f : k < l => f[k] > f[l]
  BY <1>7, <1>8
<1> QED
  BY <1>10, <1>11

\* An order of a set goes over all of it.
LEMMA OrderCovers ==
  ASSUME NEW S, IsFiniteSet(S), NEW f \in SS!SetToSeqs(S)
  PROVE  /\ Cardinality(S) \in Nat
         /\ f \in [1..Cardinality(S) -> S]
         /\ \A k, l \in 1..Cardinality(S) : k # l => f[k] # f[l]
         /\ \A x \in S : \E k \in 1..Cardinality(S) : f[k] = x
<1> DEFINE c == Cardinality(S)
<1>1. c \in Nat
  BY FS_CardinalityType
<1>2. f \in [1..c -> S] /\ \A k, l \in 1..c : k # l => f[k] # f[l]
  BY SameSize DEF SS!SetToSeqs
<1>3. f \in Injection(1..c, S)
  BY <1>2 DEF Injection, IsInjective
<1>4. Cardinality(1..c) = c
  BY <1>1, FS_Interval
<1>5. f \in Surjection(1..c, S)
  BY <1>3, <1>4, FS_Injection
<1> QED
  BY <1>1, <1>2, <1>5 DEF Surjection

\* planBatch asks for each requested segment once.
AskedOnce(list, batch) ==
  /\ Len(list) \in Nat /\ DOMAIN list = 1..Len(list)
  /\ \A k \in DOMAIN list : \E i \in DOMAIN batch : list[k] = batch[i]
  /\ \A k, l \in DOMAIN list : k # l => list[k].segment # list[l].segment
  /\ \A i \in DOMAIN batch : \E k \in DOMAIN list : list[k].segment = batch[i].segment

LEMMA EachOnce ==
  ASSUME NEW n \in Nat, NEW batch, DOMAIN batch = 1..n
  PROVE  AskedOnce(SS!Prioritized(batch), batch)
<1> DEFINE SameAs(i) == {j \in DOMAIN batch : batch[j].segment = batch[i].segment}
           first == {i \in DOMAIN batch : i = SS!Min(SameAs(i))}
           order == CHOOSE f \in SS!SetToSeqs(first) : \A k, l \in DOMAIN f : k < l => f[k] > f[l]
           c == Cardinality(first)
           list == [k \in DOMAIN order |-> batch[SS!Max(SameAs(order[k]))]]
<1>1. first \in SUBSET (1..n) /\ IsFiniteSet(first)
  <2>1. IsFiniteSet(1..n)
    BY FS_Interval
  <2>2. first \in SUBSET (1..n)
    OBVIOUS
  <2> QED
    BY <2>1, <2>2, FS_Subset
<1>2. order \in SS!SetToSeqs(first)
  BY <1>1, Descending
<1> HIDE DEF order
<1>3. /\ c \in Nat /\ order \in [1..c -> first]
      /\ \A k, l \in 1..c : k # l => order[k] # order[l]
      /\ \A x \in first : \E k \in 1..c : order[k] = x
  <2> HIDE DEF first
  <2> QED
    BY <1>1, <1>2, OrderCovers
<1>4. ASSUME NEW i \in DOMAIN batch
      PROVE  /\ SameAs(i) \in SUBSET (1..n) /\ i \in SameAs(i)
             /\ SS!Min(SameAs(i)) \in SameAs(i) /\ SS!Max(SameAs(i)) \in SameAs(i)
  <2>1. SameAs(i) \in SUBSET (1..n) /\ i \in SameAs(i)
    OBVIOUS
  <2> QED
    BY <2>1, LeastOf, GreatestOf
<1>5. ASSUME NEW i \in DOMAIN batch, NEW j \in DOMAIN batch, batch[i].segment = batch[j].segment
      PROVE  SameAs(i) = SameAs(j)
  BY <1>5
<1>6. Len(list) = c /\ DOMAIN list = 1..c
  BY <1>3
<1>7. ASSUME NEW k \in 1..c
      PROVE  /\ SS!Max(SameAs(order[k])) \in DOMAIN batch
             /\ list[k] = batch[SS!Max(SameAs(order[k]))]
             /\ list[k].segment = batch[order[k]].segment
  <2>1. order[k] \in DOMAIN batch
    BY <1>3
  <2>2. SS!Max(SameAs(order[k])) \in SameAs(order[k])
    BY <1>4, <2>1
  <2> HIDE DEF first
  <2> QED
    BY <1>3, <2>1, <2>2
<1>8. ASSUME NEW k \in 1..c, NEW l \in 1..c, k # l
      PROVE  list[k].segment # list[l].segment
  <2>1. /\ order[k] \in DOMAIN batch /\ order[l] \in DOMAIN batch /\ order[k] # order[l]
        /\ order[k] = SS!Min(SameAs(order[k])) /\ order[l] = SS!Min(SameAs(order[l]))
    BY <1>3, <1>8
  <2>2. batch[order[k]].segment # batch[order[l]].segment
    <3>1. SUFFICES ASSUME batch[order[k]].segment = batch[order[l]].segment PROVE FALSE
      OBVIOUS
    <3>2. SameAs(order[k]) = SameAs(order[l])
      BY <1>5, <2>1, <3>1
    <3> HIDE DEF SameAs
    <3> QED
      BY <2>1, <3>2
  <2> QED
    BY <1>7, <2>2
<1>9. ASSUME NEW i \in DOMAIN batch PROVE \E k \in 1..c : list[k].segment = batch[i].segment
  <2> DEFINE m == SS!Min(SameAs(i))
  <2>1. m \in DOMAIN batch /\ batch[m].segment = batch[i].segment
    BY <1>4
  <2>2. m \in first
    <3>1. SameAs(m) = SameAs(i)
      BY <1>5, <2>1
    <3> QED
      BY <2>1, <3>1
  <2>3. PICK k \in 1..c : order[k] = m
    BY <1>3, <2>2
  <2> QED
    BY <1>7, <2>1, <2>3
<1>10. SS!Prioritized(batch) = list
  BY DEF SS!Prioritized, order
<1>11. ASSUME NEW k \in 1..c PROVE \E i \in DOMAIN batch : list[k] = batch[i]
  BY <1>7
<1> HIDE DEF list, c, first, SameAs
<1>12. Len(list) \in Nat /\ DOMAIN list = 1..Len(list)
  BY <1>3, <1>6
<1>13. \A k, l \in DOMAIN list : k # l => list[k].segment # list[l].segment
  BY <1>6, <1>8
<1>14. \A i \in DOMAIN batch : \E k \in DOMAIN list : list[k].segment = batch[i].segment
  BY <1>6, <1>9
<1>15. \A k \in DOMAIN list : \E i \in DOMAIN batch : list[k] = batch[i]
  BY <1>6, <1>11
<1> QED
  BY <1>10, <1>12, <1>13, <1>14, <1>15, Zenon DEF AskedOnce

PlanAssumption ==
  /\ IsFiniteSet(Candidate) /\ MaxParallel \in Nat \ {0} /\ MaxWork \in Nat
  /\ Distances \subseteq Nat /\ Duration \in Nat /\ Estimate \in Nat
  /\ Margin \in Nat /\ ProbeWindow \in Nat /\ MaxHedge \in Nat

\* The plans a policy may return, and what is assigned.
PlanRecords ==
  [mode : {"origin", "single-peer", "parallel-peers", "other"}, peers : Seq(SS!Candidates),
   strategy : {"origin-only", "legacy-p2p-first", "hedged-origin", "other"},
   hedge : Nat \cup {None}]
AssignmentRecords == [segment : Wanted, peer : SS!Candidates \cup {None}]

Work == SS!Prioritized(planned)

\* The batch is asked for in order.
BatchInv ==
  /\ offers \in [SS!Candidates -> Inventories]
  /\ \E n \in 1..MaxWork : planned \in [1..n -> [segment : Wanted, ahead : Nat]]
  /\ assignments \in Seq(AssignmentRecords)
  /\ Len(assignments) <= Len(Work)
  /\ \A i \in 1..Len(assignments) : assignments[i].segment = Work[i].segment

\* A peer that is assigned a segment can serve it, and has no other of the wave.
PeersFit ==
  \A i \in 1..Len(assignments) : assignments[i].peer # None =>
     /\ assignments[i].segment \in offers[assignments[i].peer]
     /\ assignments[i].peer # Self
     /\ \A j \in 1..(i - 1) : SS!Wave(j) = SS!Wave(i) => assignments[j].peer # assignments[i].peer

HedgeFits ==
  /\ hedge \in Nat \cup {None}
  /\ deadlines /\ assignments # <<>> /\ hedge # None =>
        LET last == Work[Len(assignments)]
        IN SS!Slack(last) # None /\ hedge + Estimate + Margin <= SS!Slack(last)

PlanInv == BatchInv /\ PeersFit /\ HedgeFits

LEMMA PlanInit == ASSUME PlanAssumption, SS!Init PROVE PlanInv
<1> USE DEF PlanAssumption
<1>1. \E n \in 1..MaxWork : planned \in [1..n -> [segment : Wanted, ahead : Nat]]
  <2> DEFINE Entries(n, names, distance) ==
               [i \in 1..n |-> [segment |-> names[i], ahead |-> distance + n - i]]
             OfLength(n) ==
               {Entries(n, names, distance) : names \in [1..n -> Wanted], distance \in Distances}
  <2>a. SS!Batches = UNION {OfLength(n) : n \in 1..MaxWork}
    BY DEF SS!Batches
  <2>b. planned \in SS!Batches
    BY DEF SS!Init
  <2> HIDE DEF OfLength
  <2>0. PICK n \in 1..MaxWork : planned \in OfLength(n)
    BY <2>a, <2>b
  <2> HIDE DEF Entries
  <2>1. PICK names \in [1..n -> Wanted], distance \in Distances :
          planned = Entries(n, names, distance)
    BY <2>0 DEF OfLength
  <2>2. ASSUME NEW i \in 1..n PROVE distance + n - i \in Nat
    OBVIOUS
  <2> QED
    BY <2>1, <2>2 DEF Entries
<1>2. Len(Work) \in Nat
  BY <1>1, EachOnce DEF Work, AskedOnce
<1>3. assignments = <<>> /\ hedge = None /\ offers \in [SS!Candidates -> Inventories]
  BY DEF SS!Init
<1> QED
  BY <1>1, <1>2, <1>3 DEF PlanInv, BatchInv, PeersFit, HedgeFits

\* The entries of the batch in order are requests.
LEMMA WorkTyped ==
  ASSUME NEW n \in Nat, planned \in [1..n -> [segment : Wanted, ahead : Nat]]
  PROVE  /\ Len(Work) \in Nat
         /\ \A k \in 1..Len(Work) : Work[k] \in [segment : Wanted, ahead : Nat]
<1>1. DOMAIN planned = 1..n
  OBVIOUS
<1> QED
  BY <1>1, EachOnce DEF Work, AskedOnce

LEMMA PlansTyped ==
  ASSUME PlanAssumption, NEW wanted, NEW candidates \in SUBSET SS!Candidates,
         policy \in {"weighted", "probe", "custom"}
  PROVE  SS!BasePlans(wanted, candidates) \subseteq PlanRecords
<1> USE DEF PlanAssumption
<1>1. SS!OriginOnly \in PlanRecords /\ SS!Malformed \in PlanRecords
  BY DEF SS!OriginOnly, SS!Malformed, SS!Plan, PlanRecords
<1>2. SS!WeightedPlans(wanted, candidates) \subseteq PlanRecords
  <2>1. ASSUME NEW p \in candidates PROVE SS!Plan("single-peer", <<p>>, "legacy-p2p-first", None) \in PlanRecords
    BY DEF SS!Plan, PlanRecords
  <2> QED
    BY <1>1, <2>1 DEF SS!WeightedPlans
<1>3. SS!ProbePlans(wanted, candidates) \subseteq PlanRecords
  <2> DEFINE others == candidates \ {Self}
             sizes == {SS!MaxProbes, MaxParallel, Cardinality(others)}
             size == SS!Min(sizes)
  <2>1. Cardinality(others) \in Nat
    <3>1. IsFiniteSet(SS!Candidates)
      BY FS_Singleton, FS_Union DEF SS!Candidates
    <3>2. IsFiniteSet(others)
      BY <3>1, FS_Subset
    <3> QED
      BY <3>2, FS_CardinalityType
  <2>2. size \in Nat
    BY <2>1 DEF SS!Min, SS!MaxProbes
  <2> HIDE DEF size
  <2>3. ASSUME NEW peers \in [1..size -> others]
        PROVE  SS!Plan("parallel-peers", peers, "legacy-p2p-first", None) \in PlanRecords
    <3>1. peers \in Seq(SS!Candidates)
      BY <2>2
    <3> QED
      BY <3>1 DEF SS!Plan, PlanRecords
  <2>4. SS!ProbePlans(wanted, candidates) =
          IF size = 0 THEN {SS!OriginOnly}
          ELSE {SS!Plan("parallel-peers", peers, "legacy-p2p-first", None) :
                   peers \in {s \in [1..size -> others] : SS!IsInjective(s)}}
    BY SameSize DEF SS!ProbePlans, size
  <2> QED
    BY <1>1, <2>3, <2>4
<1>4. SS!CustomPlans(wanted, candidates) \subseteq PlanRecords
  <2>1. ASSUME NEW peers \in SS!PeerLists PROVE peers \in Seq(SS!Candidates)
    BY DEF SS!PeerLists
  <2>2. ASSUME NEW hint \in SS!Hints PROVE hint[1] \in {"origin-only", "legacy-p2p-first", "hedged-origin"} /\ hint[2] \in Nat \cup {None}
    BY DEF SS!Hints
  <2>3. ASSUME NEW m \in {"single-peer", "parallel-peers"}, NEW peers \in SS!PeerLists,
               NEW hint \in SS!Hints
        PROVE  SS!Plan(m, peers, hint[1], hint[2]) \in PlanRecords
    BY <2>1, <2>2 DEF SS!Plan, PlanRecords
  <2>4. ASSUME NEW peers \in SS!PeerLists
        PROVE  SS!Plan("origin", peers, "origin-only", None) \in PlanRecords
    BY <2>1 DEF SS!Plan, PlanRecords
  <2> QED
    BY <1>1, <2>3, <2>4 DEF SS!CustomPlans
<1> QED
  BY <1>2, <1>3, <1>4 DEF SS!BasePlans

LEMMA SafelyFits ==
  ASSUME PlanAssumption, NEW plan \in PlanRecords, NEW r, NEW candidates
  PROVE  LET safe == SS!Safely(plan, r, candidates)
         IN /\ safe \in PlanRecords
            /\ safe = SS!OriginOnly \/ (safe = plan /\ SS!ValidPlan(plan, r, candidates))
BY DEF SS!Safely, SS!OriginOnly, SS!Plan, PlanRecords

\* A deadline-aware plan for peers leaves the origin its time.
LEMMA DeadlineFits ==
  ASSUME PlanAssumption, NEW plan \in PlanRecords, NEW r \in [segment : Wanted, ahead : Nat]
  PROVE  LET hedged == SS!DeadlinePlan(plan, r)
         IN /\ hedged \in PlanRecords
            /\ hedged.hedge # None =>
                  SS!Slack(r) # None /\ hedged.hedge + Estimate + Margin <= SS!Slack(r)
<1> USE DEF PlanAssumption
<1> DEFINE latest == SS!LatestSafeOriginStart(r)
<1>1. SS!OriginOnly \in PlanRecords /\ SS!OriginOnly.hedge = None
  BY DEF SS!OriginOnly, SS!Plan, PlanRecords
<1>2. ASSUME NEW strategy \in {"legacy-p2p-first", "hedged-origin"}, NEW delay \in Nat \cup {None}
      PROVE  /\ SS!Decorated(plan, strategy, delay) \in PlanRecords
             /\ SS!Decorated(plan, strategy, delay).hedge \in {delay, None}
  BY <1>1 DEF SS!Decorated, PlanRecords
<1>3. CASE SS!Slack(r) = None
  BY <1>2, <1>3 DEF SS!DeadlinePlan
<1>4. CASE SS!Slack(r) # None
  <2>1. synthetic /\ SS!Slack(r) \in Nat /\ latest \in Int /\ latest + Estimate + Margin = SS!Slack(r)
    BY <1>4 DEF SS!Slack, SS!LatestSafeOriginStart
  <2>2. CASE latest <= 0
    <3>1. SS!DeadlinePlan(plan, r) = SS!OriginOnly
      BY <1>4, <2>1, <2>2 DEF SS!DeadlinePlan
    <3> QED
      BY <1>1, <3>1
  <2>3. CASE ~(latest <= 0)
    <3> DEFINE delay == SS!Min({MaxHedge, latest})
    <3>1. delay \in Nat /\ delay <= latest
      BY <2>1, <2>3 DEF SS!Min
    <3> HIDE DEF delay, latest
    <3>2. \/ SS!DeadlinePlan(plan, r) = SS!Decorated(plan, "legacy-p2p-first", None)
          \/ SS!DeadlinePlan(plan, r) = SS!Decorated(plan, "hedged-origin", delay)
      BY <1>4, <2>3 DEF SS!DeadlinePlan, delay, latest
    <3>3. delay + Estimate + Margin <= SS!Slack(r)
      BY <2>1, <3>1
    <3> QED
      BY <1>2, <1>4, <3>1, <3>2, <3>3
  <2> QED
    BY <2>2, <2>3
<1> QED
  BY <1>3, <1>4

\* What planBatch assigns for a plan that passed.
LEMMA SourceFits ==
  ASSUME NEW plan \in PlanRecords, NEW r, NEW i,
         plan = SS!OriginOnly \/ SS!ValidPlan(plan, r, SS!Available(i))
  PROVE  \/ plan.mode = "origin"
         \/ /\ plan.peers[1] \in SS!Candidates \ {Self}
            /\ plan.peers[1] \notin SS!Busy(i)
            /\ r.segment \in offers[plan.peers[1]]
<1>1. SS!OriginOnly.mode = "origin"
  BY DEF SS!OriginOnly, SS!Plan
<1>2. ASSUME SS!ValidPlan(plan, r, SS!Available(i)), plan.mode # "origin"
      PROVE  /\ plan.peers[1] \in SS!Candidates \ {Self}
             /\ plan.peers[1] \notin SS!Busy(i)
             /\ r.segment \in offers[plan.peers[1]]
  <2>1. Len(plan.peers) >= 1 /\ plan.peers \in Seq(SS!Candidates)
    BY <1>2 DEF SS!ValidPlan, SS!CountFits, PlanRecords
  <2>2. 1 \in DOMAIN plan.peers
    BY <2>1
  <2> QED
    BY <1>2, <2>2 DEF SS!ValidPlan, SS!ServableBy, SS!Available
<1> QED
  BY <1>1, <1>2

LEMMA PlanKept ==
  ASSUME PlanAssumption, policy \in {"weighted", "probe", "custom"}, PlanInv, SS!PlanNext
  PROVE  PlanInv'
<1> DEFINE i == Len(assignments) + 1
           r == Work[i]
<1>1. PICK n \in 1..MaxWork : planned \in [1..n -> [segment : Wanted, ahead : Nat]]
  BY DEF PlanInv, BatchInv
<1>2. /\ UNCHANGED <<policy, deadlines, synthetic, offers, planned>>
      /\ i <= Len(Work) /\ i \in Nat /\ i \in 1..Len(Work)
      /\ r \in [segment : Wanted, ahead : Nat]
  <2>1. n \in Nat /\ Len(assignments) \in Nat
    BY <1>1 DEF PlanInv, BatchInv, PlanAssumption
  <2>2. UNCHANGED <<policy, deadlines, synthetic, offers, planned>> /\ i <= Len(Work)
    BY DEF SS!PlanNext, Work
  <2> QED
    BY <1>1, <2>1, <2>2, WorkTyped
<1>3. PICK base \in SS!BasePlans(r, SS!Available(i)) :
        LET safe == SS!Safely(base, r, SS!Available(i))
            plan == IF deadlines THEN SS!Safely(SS!DeadlinePlan(safe, r), r, SS!Available(i))
                    ELSE safe
        IN /\ assignments' = Append(assignments,
                 [segment |-> r.segment, peer |-> IF plan.mode = "origin" THEN None ELSE plan.peers[1]])
           /\ hedge' = plan.hedge
  BY DEF SS!PlanNext, Work
<1> DEFINE safe == SS!Safely(base, r, SS!Available(i))
           plan == IF deadlines THEN SS!Safely(SS!DeadlinePlan(safe, r), r, SS!Available(i))
                   ELSE safe
           source == IF plan.mode = "origin" THEN None ELSE plan.peers[1]
           entry == [segment |-> r.segment, peer |-> source]
<1> HIDE DEF r, i
<1>4. base \in PlanRecords
  BY <1>3, PlansTyped DEF SS!Available
<1>5. /\ safe \in PlanRecords
      /\ safe = SS!OriginOnly \/ SS!ValidPlan(safe, r, SS!Available(i))
  BY <1>4, SafelyFits
<1> HIDE DEF safe
<1>6. SS!DeadlinePlan(safe, r) \in PlanRecords
  BY <1>2, <1>5, DeadlineFits
<1>7. /\ plan \in PlanRecords
      /\ plan = SS!OriginOnly \/ SS!ValidPlan(plan, r, SS!Available(i))
      /\ deadlines => plan = SS!OriginOnly \/ plan = SS!DeadlinePlan(safe, r)
  <2>1. CASE deadlines
    BY <1>6, <2>1, SafelyFits
  <2>2. CASE ~deadlines
    BY <1>5, <2>2
  <2> QED
    BY <2>1, <2>2
<1>8. deadlines /\ plan.hedge # None =>
        SS!Slack(r) # None /\ plan.hedge + Estimate + Margin <= SS!Slack(r)
  <2>1. SS!OriginOnly.hedge = None
    BY DEF SS!OriginOnly, SS!Plan
  <2> HIDE DEF plan
  <2> QED
    BY <1>2, <1>5, <1>7, <2>1, DeadlineFits
<1>9. /\ assignments' = Append(assignments, entry)
      /\ hedge' = plan.hedge /\ hedge' \in Nat \cup {None}
  <2>1. plan.hedge \in Nat \cup {None}
    BY <1>7 DEF PlanRecords
  <2>2. assignments' = Append(assignments, entry) /\ hedge' = plan.hedge
    BY <1>3 DEF safe
  <2> QED
    BY <2>1, <2>2
<1>10. source # None => /\ source \in SS!Candidates \ {Self}
                        /\ source \notin SS!Busy(i)
                        /\ r.segment \in offers[source]
  <2> HIDE DEF plan
  <2> QED
    BY <1>7, SourceFits
<1>11. entry \in AssignmentRecords
  BY <1>2, <1>10 DEF AssignmentRecords
<1>12. source # None => \A j \in 1..(i - 1) : SS!Wave(j) = SS!Wave(i) => assignments[j].peer # source
  <2>1. DOMAIN assignments = 1..(i - 1)
    BY DEF PlanInv, BatchInv, i
  <2> QED
    BY <1>10, <2>1 DEF SS!Busy
<1> HIDE DEF source, plan
<1>13. /\ Len(assignments') = i /\ assignments' \in Seq(AssignmentRecords)
       /\ assignments' # <<>>
       /\ assignments'[i] = entry
       /\ \A j \in 1..(i - 1) : assignments'[j] = assignments[j]
  <2>1. assignments \in Seq(AssignmentRecords)
    BY DEF PlanInv, BatchInv
  <2> HIDE DEF entry
  <2> QED
    BY <1>9, <1>11, <2>1 DEF i
<1>14. Work' = Work /\ \A j : SS!Wave(j)' = SS!Wave(j)
  BY <1>2 DEF Work, SS!Prioritized, SS!Wave
<1>15. \A j \in 1..i : j = i \/ j \in 1..(i - 1)
  BY <1>2
<1>16. BatchInv'
  <2>1. \A j \in 1..i : assignments'[j].segment = Work[j].segment
    BY <1>13, <1>15 DEF PlanInv, BatchInv, i, r
  <2>2. offers' \in [SS!Candidates -> Inventories]
    BY <1>2 DEF PlanInv, BatchInv
  <2> QED
    BY <1>1, <1>2, <1>13, <1>14, <2>1, <2>2 DEF BatchInv
<1>17. PeersFit'
  <2>1. ASSUME NEW k \in 1..i, assignments'[k].peer # None
        PROVE  /\ assignments'[k].segment \in offers[assignments'[k].peer]
               /\ assignments'[k].peer # Self
               /\ \A j \in 1..(k - 1) : SS!Wave(j) = SS!Wave(k) => assignments'[j].peer # assignments'[k].peer
    <3>1. CASE k = i
      BY <1>10, <1>12, <1>13, <2>1, <3>1
    <3>2. CASE k \in 1..(i - 1)
      <4>1. 1..(k - 1) \subseteq 1..(i - 1) /\ i - 1 = Len(assignments)
        BY <1>2, <3>2 DEF i
      <4>2. assignments'[k] = assignments[k] /\ \A j \in 1..(k - 1) : assignments'[j] = assignments[j]
        BY <1>13, <3>2, <4>1
      <4> QED
        BY <2>1, <3>2, <4>1, <4>2 DEF PlanInv, PeersFit
    <3> QED
      BY <1>15, <3>1, <3>2
  <2> QED
    BY <1>2, <1>13, <1>14, <2>1 DEF PeersFit
<1>18. HedgeFits'
  BY <1>2, <1>8, <1>9, <1>13, <1>14 DEF HedgeFits, SS!Slack, r
<1> QED
  BY <1>16, <1>17, <1>18 DEF PlanInv

\* The policy stays one of the three.
PolicyNamed == policy \in {"weighted", "probe", "custom"}

SchedulingInv == machine = "SS" => PolicyNamed /\ PlanInv

LEMMA SchedulingKept ==
  ASSUME PlanAssumption
  PROVE  /\ MachineInit => SchedulingInv
         /\ SchedulingInv /\ [MachineNext]_machineVars => SchedulingInv'
<1>1. MachineInit => SchedulingInv
  BY PlanInit DEF MachineInit, SchedulingInv, PolicyNamed, SS!Init
<1>2. ASSUME SchedulingInv, [MachineNext]_machineVars PROVE SchedulingInv'
  <2>1. UNCHANGED machine /\ (SS!PlanNext \/ UNCHANGED planVars)
    BY <1>2, OneRuns
  <2>2. CASE SS!PlanNext
    <3>1. policy' = policy
      BY <2>2 DEF SS!PlanNext
    <3> QED
      BY <1>2, <2>1, <2>2, <3>1, PlanKept DEF SchedulingInv, PolicyNamed
  <2>3. CASE UNCHANGED planVars
    <3>1. /\ UNCHANGED <<policy, deadlines, synthetic, offers, planned, assignments, hedge>>
          /\ UNCHANGED Work /\ \A j : SS!Wave(j)' = SS!Wave(j)
          /\ \A r : SS!Slack(r)' = SS!Slack(r)
      BY <2>3 DEF planVars, Work, SS!Prioritized, SS!Wave, SS!Slack
    <3>2. BatchInv => BatchInv'
      BY <3>1 DEF BatchInv
    <3>3. PeersFit => PeersFit'
      BY <3>1 DEF PeersFit
    <3>4. HedgeFits => HedgeFits'
      BY <3>1 DEF HedgeFits
    <3> QED
      BY <1>2, <2>1, <3>1, <3>2, <3>3, <3>4 DEF SchedulingInv, PolicyNamed, PlanInv
  <2> QED
    BY <2>1, <2>2, <2>3
<1> QED
  BY <1>1, <1>2

\* Whatever a policy returns, a batch gives every requested segment to exactly
\* one source that can serve it and is another peer or the origin, and no
\* peer two segments of a wave (scheduler.ts: planBatch, validateSchedulerPlan).
THEOREM BatchesAreServable == ASSUME PlanAssumption PROVE SafeSpec => []BatchPlanned
<1>1. SchedulingInv => BatchPlanned
  <2> SUFFICES ASSUME machine = "SS", PlanInv PROVE SS!BatchPlanned
    BY DEF SchedulingInv, BatchPlanned
  <2>0. PICK n \in 1..MaxWork : planned \in [1..n -> [segment : Wanted, ahead : Nat]]
    BY DEF PlanInv, BatchInv
  <2>1. n \in Nat /\ DOMAIN planned = 1..n
    BY <2>0 DEF PlanAssumption
  <2>2. /\ Len(Work) \in Nat /\ DOMAIN Work = 1..Len(Work)
        /\ \A k \in DOMAIN Work : \E i \in DOMAIN planned : Work[k] = planned[i]
        /\ \A k, l \in DOMAIN Work : k # l => Work[k].segment # Work[l].segment
        /\ \A i \in DOMAIN planned : \E k \in DOMAIN Work : Work[k].segment = planned[i].segment
    <3>1. AskedOnce(Work, planned)
      BY <2>1, EachOnce DEF Work
    <3> QED
      BY <3>1 DEF AskedOnce
  <2>3. DOMAIN assignments = 1..Len(assignments) /\ Len(assignments) \in Nat /\ Len(assignments) <= Len(Work)
    BY DEF PlanInv, BatchInv
  <2>4. \A i \in DOMAIN assignments : i \in DOMAIN Work /\ assignments[i].segment = Work[i].segment
    BY <2>2, <2>3 DEF PlanInv, BatchInv
  <2>5. \A i, j \in DOMAIN assignments : i # j => assignments[i].segment # assignments[j].segment
    BY <2>2, <2>4
  <2>6. ASSUME NEW i \in DOMAIN assignments, assignments[i].peer # None
        PROVE  /\ assignments[i].segment \in offers[assignments[i].peer]
               /\ assignments[i].peer # Self
               /\ \A j \in DOMAIN assignments :
                     i # j /\ SS!Wave(i) = SS!Wave(j) => assignments[i].peer # assignments[j].peer
    <3>1. assignments[i].segment \in offers[assignments[i].peer] /\ assignments[i].peer # Self
      BY <2>3, <2>6 DEF PlanInv, PeersFit
    <3>2. ASSUME NEW j \in DOMAIN assignments, i # j, SS!Wave(i) = SS!Wave(j),
                 assignments[i].peer = assignments[j].peer
          PROVE  FALSE
      <4>1. i \in 1..(j - 1) \/ j \in 1..(i - 1)
        BY <2>3, <3>2
      <4> QED
        BY <2>3, <2>6, <3>2, <4>1 DEF PlanInv, PeersFit
    <3> QED
      BY <3>1, <3>2
  <2>7. SS!Planned => {assignments[i].segment : i \in DOMAIN assignments} =
                      {planned[i].segment : i \in DOMAIN planned}
    <3>1. SUFFICES ASSUME SS!Planned PROVE {assignments[i].segment : i \in DOMAIN assignments} =
                                           {planned[i].segment : i \in DOMAIN planned}
      OBVIOUS
    <3>2. DOMAIN assignments = DOMAIN Work
      BY <2>2, <2>3, <3>1 DEF SS!Planned, Work
    <3>3. ASSUME NEW i \in DOMAIN assignments
          PROVE  \E k \in DOMAIN planned : assignments[i].segment = planned[k].segment
      BY <2>2, <2>4
    <3>4. ASSUME NEW k \in DOMAIN planned
          PROVE  \E i \in DOMAIN assignments : planned[k].segment = assignments[i].segment
      BY <2>2, <2>4, <3>2
    <3> QED
      BY <3>3, <3>4
  <2> QED
    BY <2>5, <2>6, <2>7 DEF SS!BatchPlanned
<1> QED
  BY <1>1, SchedulingKept, PTL DEF SafeSpec

\* A deadline-aware plan that waits for peers starts the origin early enough
\* for its answer to be expected in time (deadline-aware.ts).
THEOREM HedgesAreInTime == ASSUME PlanAssumption PROVE SafeSpec => []OriginInTime
<1>1. SchedulingInv => OriginInTime
  BY DEF SchedulingInv, PlanInv, HedgeFits, OriginInTime, SS!OriginInTime, Work
<1> QED
  BY <1>1, SchedulingKept, PTL DEF SafeSpec

-----------------------------------------------------------------------------
(* The browser plugin.                                                      *)

\* The types on which it rests; a client that is not started has no timer.
ViewerInv ==
  /\ {viewerActive, viewerRegistered, retry, viewerRefresh, viewerStarted, viewerReconnect} \subseteq BOOLEAN
  /\ PS!DetachedIsSilent

LEMMA SilentStep ==
  ASSUME ViewerInv, [PS!Next]_(PS!vars)
  PROVE  ViewerInv'
<1> USE DEF ViewerInv, PS!DetachedIsSilent
<1>1. ASSUME UNCHANGED <<viewerActive, viewerRegistered, PS!timers, PS!client>> PROVE ViewerInv'
  BY <1>1 DEF PS!timers, PS!client
<1>2. CASE PS!Attach
  BY <1>2 DEF PS!Attach, PS!session, PS!timers, PS!client
<1>3. CASE PS!Detach
  BY <1>3 DEF PS!Detach, PS!StopClient, PS!Unregister
<1>4. ASSUME NEW s \in Slot, PS!Joined(s) PROVE ViewerInv'
  BY <1>4 DEF PS!Joined, PS!Unregister, PS!client
<1>5. ASSUME NEW s \in Slot, PS!Refused(s) PROVE ViewerInv'
  BY <1>5 DEF PS!Refused, PS!session, PS!client
<1>6. CASE PS!RetryFires \/ PS!RefreshFires
  BY <1>6 DEF PS!RetryFires, PS!RefreshFires, PS!session, PS!client
<1>7. CASE PS!Opens \/ PS!Closes \/ PS!ReconnectFires
  BY <1>7 DEF PS!Opens, PS!Closes, PS!ReconnectFires, PS!session, PS!timers
<1>8. ASSUME NEW s \in Slot,
             PS!TrackerJoins(s) \/ PS!TrackerRemoves(s) \/ PS!PostFails(s) \/ PS!DeleteFails(s) \/ PS!Deleted(s)
      PROVE  ViewerInv'
  BY <1>1, <1>8 DEF PS!TrackerJoins, PS!TrackerRemoves, PS!PostFails, PS!DeleteFails, PS!Deleted, PS!session
<1>9. CASE PS!TrackerForgets \/ UNCHANGED (PS!vars)
  BY <1>1, <1>9 DEF PS!TrackerForgets, PS!vars, PS!session, PS!timers, PS!client
<1> QED
  BY <1>2, <1>3, <1>4, <1>5, <1>6, <1>7, <1>8, <1>9 DEF PS!Next

\* stopGrid and what comes back after it (registerPeer, its failures, the close
\* handler of WsTrackerClient): a detached plugin has no session, timer or socket.
THEOREM DetachedStaysSilent == SafeSpec => []DetachedIsSilent
<1>1. MachineInit => ViewerInv
  BY DEF MachineInit, PS!Init, ViewerInv, PS!DetachedIsSilent
<1>2. ViewerInv /\ [MachineNext]_machineVars => ViewerInv'
  BY MachineSteps, SilentStep
<1>3. ViewerInv => DetachedIsSilent
  BY DEF ViewerInv, DetachedIsSilent
<1> QED
  BY <1>1, <1>2, <1>3, PTL DEF SafeSpec

-----------------------------------------------------------------------------
\* What may be known of the shared request and of the cache.
LoadRequests == [plan : {"none", "origin", "peers", "hedged"},
             peers : {"off", "running", "lost"},
             origin : {"off", "delayed", "running", "lost"},
             aborted : BOOLEAN]

LoadsInv ==
  /\ request \in LoadRequests
  /\ DOMAIN holds = Loader
  /\ PL!OnlyVerifiedIsShared

LEMMA LoadsInit == PL!Init => LoadsInv
BY DEF PL!Init, PL!NoRequest, LoadsInv, LoadRequests, PL!OnlyVerifiedIsShared

\* With a verifier, what the check lets pass is the published segment.
LEMMA Passed ==
  ASSUME NEW bytes \in {"good", "bad"}, verifying,
         PL!Check(bytes) \cap {"match", "skipped"} # {}
  PROVE  bytes = "good"
BY DEF PL!Check

\* A request that ends hands its bytes to those who wait for it, and caches them
\* if they are known.
LEMMA SettleKeeps ==
  ASSUME LoadsInv, NEW result \in {"good", "bad", "raw", "error"},
         verifying => result # "bad", PL!Settle(result)
  PROVE  LoadsInv' /\ PL!TakesNoneDown
<1>1. request' \in LoadRequests /\ ~request'.aborted
  BY DEF PL!Settle, PL!NoRequest, LoadRequests
<1>2. UNCHANGED <<loadActive, PL!assembling>>
  BY DEF PL!Settle
<1>3. loadCached' = loadCached \/ (result \notin {"error", "raw"} /\ loadCached' = result)
  BY DEF PL!Settle, PL!Keep
<1>4. DOMAIN holds' = Loader /\ \A l \in Loader : holds'[l] \in {holds[l], result}
  BY DEF PL!Settle
<1>5. PL!OnlyVerifiedIsShared'
  BY <1>2, <1>3, <1>4 DEF LoadsInv, PL!OnlyVerifiedIsShared, PL!assembling
<1> QED
  BY <1>1, <1>4, <1>5 DEF LoadsInv, PL!TakesNoneDown

\* A step of the shared request neither aborts it nor shares anything.
LEMMA ContinueKeeps ==
  ASSUME LoadsInv, NEW next \in LoadRequests, next.aborted = request.aborted, PL!Continue(next)
  PROVE  LoadsInv' /\ PL!TakesNoneDown
BY DEF PL!Continue, LoadsInv, PL!OnlyVerifiedIsShared, PL!TakesNoneDown, PL!assembling

LEMMA LoadsStep ==
  ASSUME LoadsInv, [PL!Next]_(PL!vars)
  PROVE  LoadsInv' /\ PL!TakesNoneDown
<1> DEFINE Goal == LoadsInv' /\ PL!TakesNoneDown
<1>1. request \in LoadRequests
  BY DEF LoadsInv
<1>2. ASSUME request' = request, UNCHANGED <<verifying, holds>>,
             loadCached' \in {loadCached, "none"} \/ (verifying => loadCached' = "good")
      PROVE  Goal
  BY <1>1, <1>2 DEF LoadsInv, PL!OnlyVerifiedIsShared, PL!TakesNoneDown
\* A loader takes what the cache has, or drops what it has.
<1>0. ASSUME UNCHANGED <<verifying, loadCached>>, DOMAIN holds' = Loader,
             \A l \in Loader : holds'[l] \in {holds[l], loadCached, "none"}
      PROVE  DOMAIN holds' = Loader /\ PL!OnlyVerifiedIsShared'
  BY <1>0 DEF LoadsInv, PL!OnlyVerifiedIsShared
<1>3. ASSUME NEW l \in Loader, PL!Load(l) PROVE Goal
  <2>1. request' = request \/ (request = PL!NoRequest /\ request' \in PL!Started)
    BY <1>3 DEF PL!Load
  <2>3. DOMAIN holds' = Loader /\ PL!OnlyVerifiedIsShared'
    <3>1. holds' = holds \/ holds' = [holds EXCEPT ![l] = loadCached]
      BY <1>3 DEF PL!Load
    <3>2. DOMAIN holds' = Loader /\ \A k \in Loader : holds'[k] \in {holds[k], loadCached, "none"}
      BY <3>1 DEF LoadsInv
    <3>3. UNCHANGED <<verifying, loadCached>>
      BY <1>3 DEF PL!Load, PL!assembling
    <3> QED
      BY <1>0, <3>2, <3>3
  <2>2. ASSUME NEW r \in PL!Started PROVE r \in LoadRequests /\ ~r.aborted
    <3> DEFINE from(p, q, o) ==
          [plan |-> p, peers |-> q, origin |-> o, aborted |-> FALSE]
    <3>1. \A p \in {"none", "origin", "peers", "hedged"}, q \in {"off", "running", "lost"},
             o \in {"off", "delayed", "running", "lost"} :
            from(p, q, o) \in LoadRequests /\ ~from(p, q, o).aborted
      BY DEF LoadRequests
    <3>2. \/ r = from("origin", "off", "running")
          \/ r = from("peers", "running", "off")
          \/ r = from("hedged", "running", "delayed")
      BY DEF PL!Started
    <3> HIDE DEF from
    <3> QED
      BY <3>1, <3>2
  <2> QED
    BY <1>1, <2>1, <2>2, <2>3 DEF LoadsInv, PL!TakesNoneDown
<1>a. ASSUME NEW l \in Loader, PL!Deliver(l) \/ PL!Leave(l) \/ PL!Renew(l)
      PROVE  DOMAIN holds' = Loader /\ PL!OnlyVerifiedIsShared'
  <2>1. UNCHANGED <<verifying, loadCached>>
        /\ (holds' = holds \/ holds' = [holds EXCEPT ![l] = "none"])
    BY <1>a DEF PL!Deliver, PL!Leave, PL!Renew, PL!assembling
  <2>2. DOMAIN holds' = Loader /\ \A k \in Loader : holds'[k] \in {holds[k], loadCached, "none"}
    BY <2>1 DEF LoadsInv
  <2> QED
    BY <1>0, <2>1, <2>2
<1>4. ASSUME NEW l \in Loader, PL!Leave(l) PROVE Goal
  <2>1. \/ request' = request
        \/ consumers' = consumers \ {l} /\ request' = PL!Without(l)
    BY <1>4 DEF PL!Leave
  <2>2. /\ PL!Without(l) \in LoadRequests
        /\ PL!Without(l).aborted => request.aborted \/ consumers = {l}
    BY <1>1 DEF PL!Without, LoadRequests
  <2> QED
    BY <1>1, <1>4, <1>a, <2>1, <2>2 DEF LoadsInv, PL!TakesNoneDown
<1>5. ASSUME NEW l \in Loader, PL!Deliver(l) \/ PL!Renew(l) PROVE Goal
  <2>1. UNCHANGED request
    BY <1>5 DEF PL!Deliver, PL!Renew
  <2> QED
    BY <1>1, <1>5, <1>a, <2>1 DEF LoadsInv, PL!TakesNoneDown
<1>6. CASE PL!PeersDeliver \/ PL!OriginDelivers \/ PL!HedgeAborted
  <2>1. PICK result \in {"good", "bad", "raw", "error"} :
          PL!Settle(result) /\ (verifying => result # "bad")
    BY <1>6, Passed DEF PL!PeersDeliver, PL!OriginDelivers, PL!HedgeAborted
  <2> QED
    BY <2>1, SettleKeeps
<1>7. CASE PL!PeersFail
  <2> DEFINE next == [request EXCEPT !.peers = "lost",
                        !.origin = IF request.plan = "peers" THEN "running" ELSE @]
  <2>1. next \in LoadRequests /\ next.aborted = request.aborted
    BY <1>1 DEF LoadRequests
  <2>2. PL!Settle("error") \/ PL!Continue(next)
    BY <1>7 DEF PL!PeersFail
  <2> HIDE DEF next
  <2> QED
    BY <2>1, <2>2, SettleKeeps, ContinueKeeps
<1>8. CASE PL!HedgeFires
  <2> DEFINE next == [request EXCEPT !.origin = "running"]
  <2>1. next \in LoadRequests /\ next.aborted = request.aborted /\ PL!Continue(next)
    BY <1>1, <1>8 DEF LoadRequests, PL!HedgeFires
  <2> HIDE DEF next
  <2> QED
    BY <2>1, ContinueKeeps
<1>9. CASE PL!OriginFails
  <2> DEFINE next == [request EXCEPT !.origin = "lost"]
  <2>1. next \in LoadRequests /\ next.aborted = request.aborted
    BY <1>1 DEF LoadRequests
  <2>2. PL!Settle("error") \/ PL!Continue(next)
    BY <1>9 DEF PL!OriginFails
  <2> HIDE DEF next
  <2> QED
    BY <2>1, <2>2, SettleKeeps, ContinueKeeps
<1>b. CASE PL!Verified
  <2>1. UNCHANGED <<verifying, request, holds>>
    BY <1>b DEF PL!Verified
  <2>2. ASSUME NEW bytes \in PL!Joined, "match" \in PL!Check(bytes) PROVE bytes = "good"
    BY <2>2 DEF PL!Check, PL!Joined
  <2>3. loadCached' = loadCached \/ loadCached' = "good"
    BY <1>b, <2>2 DEF PL!Verified
  <2> QED
    BY <1>2, <2>1, <2>3
<1>10. CASE PL!Evict \/ PL!Attach \/ PL!List \/ PL!Forget
  BY <1>2, <1>10 DEF PL!Evict, PL!Attach, PL!List, PL!Forget, PL!assembling
<1>11. CASE PL!Detach
  <2>1. /\ request' \in LoadRequests /\ ~loadActive'
        /\ UNCHANGED <<loadCached, verifying, holds>>
    BY <1>1, <1>11 DEF PL!Detach, LoadRequests, PL!assembling
  <2> QED
    BY <1>1, <2>1 DEF LoadsInv, PL!OnlyVerifiedIsShared, PL!TakesNoneDown
<1>12. ASSUME NEW more, PL!Record(more) PROVE Goal
  BY <1>2, <1>12 DEF PL!Record
<1>13. CASE UNCHANGED (PL!vars)
  BY <1>2, <1>13 DEF PL!vars, PL!assembling
<1> QED
  BY <1>3, <1>4, <1>5, <1>6, <1>7, <1>8, <1>9, <1>b, <1>10, <1>11, <1>12, <1>13 DEF PL!Next

\* With a verifier, completeSegmentLoad and assembleSegment put into the cache,
\* and the loaders hand to their players, the published bytes or those of an
\* origin without a hash, which are not cached: whichever of the racing sources
\* and parts delivered what, and whatever was cached, evicted and loaded before.
THEOREM SharedIsVerified == SafeSpec => []OnlyVerifiedIsShared
<1>1. MachineInit => LoadsInv
  BY LoadsInit DEF MachineInit
<1>2. LoadsInv /\ [MachineNext]_machineVars => LoadsInv'
  BY MachineSteps, LoadsStep
<1>3. LoadsInv => OnlyVerifiedIsShared
  BY DEF LoadsInv, OnlyVerifiedIsShared
<1> QED
  BY <1>1, <1>2, <1>3, PTL DEF SafeSpec

\* While the plugin is attached, a shared request is aborted only by its last
\* consumer, whatever the other loaders do.
THEOREM LoadersAreIndependent == SafeSpec => OthersKeepLoading
<1>1. MachineInit => LoadsInv
  BY LoadsInit DEF MachineInit
<1>2. LoadsInv /\ [MachineNext]_machineVars =>
         LoadsInv' /\ [machine = "PL" => PL!TakesNoneDown]_machineVars
  BY MachineSteps, LoadsStep
<1> QED
  BY <1>1, <1>2, PTL DEF SafeSpec, OthersKeepLoading
=============================================================================
