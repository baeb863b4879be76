------------------------- MODULE StreamSupervision -------------------------
(* The origin's stream: HlsStreamer (origin/src/streamer.ts) starts ffmpeg, *)
(* restarts it with a back-off when it exits, hashes what it publishes and  *)
(* stops it; OriginServer (origin/src/server.ts) starts and stops the       *)
(* streamer.  Each start of ffmpeg writes one segment here and lists it when*)
(* it is whole; its content is known by the number of the start that wrote  *)
(* it, its name by the epoch.                                               *)
EXTENDS Naturals

CONSTANTS
  MaxRestarts,   \* MAX_RESTART_ATTEMPTS
  Nothing        \* no segment

VARIABLES
  server,      \* OriginServer: starting, binding, serving, closing, stopped, failed
  terminate,   \* stop() of the server has been called
  start,       \* startPromise of the streamer: none, preparing, spawning
  stop,        \* stopPromise: none, starting, exiting, hashing, done, rejected
  stopping,    \* the flag
  child,       \* ffmpeg: none, spawning, running, terminating
  restart,     \* restartTimer is set
  attempts,    \* restartAttempts
  life,        \* how often ffmpeg has been started
  forsaken,    \* history: ffmpeg was ended by a SIGTERM that stop() did not send
  intervals,   \* hash intervals that fire
  tracked,     \* hashTimer is one of them
  generation,  \* hashGeneration is set: the name of the hash it waits for
  awaited,     \* stopOnce waits for that generation
  file,        \* the start that writes, or wrote, the segment's file
  published,   \* the start that wrote the listed segment
  pending,     \* hashes being made: their names and what is read
  sidecars,    \* the segment's sidecar: its name and what was hashed
  early        \* history: the segment's sidecar was asked for before it was listed

procVars == <<server, terminate, start, stop, stopping, child, restart, attempts, life,
              forsaken>>
hashVars == <<intervals, tracked, generation, awaited, file, published, pending,
              sidecars, early>>
streamVars == <<procVars, hashVars>>

Lives == 1..(MaxRestarts + 1)
\* Mutant of Epoch: the same after every restart.
EpochSame(n) == 1

\* segmentEpoch: a time and a random number, new with every start.
Epoch(n) == n
\* A hash is known to be of the whole segment if that was listed when its file
\* was opened.
Hashes == [name : Lives, of : Lives, whole : BOOLEAN]

Init ==
  /\ server = "starting" /\ terminate = FALSE
  /\ start = "preparing" /\ stop = "none" /\ stopping = FALSE
  /\ child = "none" /\ restart = FALSE /\ attempts = 0 /\ life = 1
  /\ forsaken = FALSE
  /\ intervals = 0 /\ tracked = FALSE /\ generation = Nothing /\ awaited = FALSE
  /\ file = Nothing /\ published = Nothing /\ pending = {} /\ sidecars = {} /\ early = FALSE

-----------------------------------------------------------------------------
(* start                                                                    *)

ScheduleFirst(halted) ==
  IF halted \/ restart THEN UNCHANGED <<restart, attempts>>
  ELSE /\ attempts' = attempts + 1
       /\ restart' = (attempts = 0)

\* scheduleRestart, when the stream is `halted`.
Schedule(halted) ==
  IF halted \/ restart THEN UNCHANGED <<restart, attempts>>
  ELSE /\ attempts' = attempts + 1
       /\ restart' = (attempts' <= MaxRestarts)

\* startOnce: the old files are removed, ffmpeg is spawned.
Prepared ==
  /\ start = "preparing"
  /\ start' = "spawning" /\ child' = "spawning"
  /\ file' = Nothing /\ published' = Nothing /\ sidecars' = {} /\ early' = FALSE
  /\ UNCHANGED <<server, terminate, stop, stopping, restart, attempts, life, forsaken,
                 intervals, tracked, generation, awaited, pending>>

Spawned ==
  /\ start = "spawning"
  /\ start' = "none" /\ child' = "running"
  /\ intervals' = intervals + 1 /\ tracked' = TRUE
  /\ server' = IF server = "starting" THEN "binding" ELSE server
  /\ UNCHANGED <<terminate, stop, stopping, restart, attempts, life, forsaken,
                 generation, awaited, file, published, pending, sidecars, early>>

\* startOnce rejects: so does a stop() that waits for it, a restart is
\* scheduled again, and the first start fails with the server.
StartFails ==
  /\ start # "none"
  /\ start' = "none" /\ child' = "none"
  /\ stop' = IF stop = "starting" THEN "rejected" ELSE stop
  /\ IF server = "starting"
     THEN server' = "failed" /\ UNCHANGED <<restart, attempts>>
     ELSE UNCHANGED server /\ Schedule(stopping)
  /\ UNCHANGED <<terminate, stopping, life, forsaken>> /\ UNCHANGED hashVars

\* restartTimer fires: start().
RestartFires ==
  /\ restart
  /\ restart' = FALSE /\ stopping' = FALSE
  /\ start' = "preparing" /\ life' = life + 1
  /\ UNCHANGED <<server, terminate, stop, child, attempts, forsaken>> /\ UNCHANGED hashVars

\* child.once("exit"): an end by SIGTERM, whoever sent it, is taken for one that
\* stop() asked for.
ChildExits(bySigterm) ==
  /\ child' = "none"
  /\ IF bySigterm THEN UNCHANGED <<restart, attempts>> ELSE Schedule(stopping)

\* ffmpeg exits on its own, or is ended from outside.
Exits ==
  /\ child = "running"
  /\ \E bySigterm \in BOOLEAN :
       ChildExits(bySigterm) /\ forsaken' = (forsaken \/ (bySigterm /\ ~stopping))
  /\ UNCHANGED <<server, terminate, start, stop, stopping, life>> /\ UNCHANGED hashVars

-----------------------------------------------------------------------------
(* stop                                                                     *)

\* stop() of the streamer.
CallStop ==
  /\ stopping' = TRUE /\ restart' = FALSE
  /\ stop' = "starting"

\* listen() succeeds, or fails and the streamer is stopped.
Bind ==
  /\ server = "binding"
  /\ \/ server' = "serving" /\ UNCHANGED <<stopping, restart, stop>>
     \/ server' = "failed" /\ CallStop
  /\ UNCHANGED <<terminate, start, child, attempts, life, forsaken>> /\ UNCHANGED hashVars

Terminate ==
  /\ ~terminate
  /\ terminate' = TRUE
  /\ UNCHANGED <<server, start, stop, stopping, child, restart, attempts, life,
                 forsaken>>
  /\ UNCHANGED hashVars

\* stop() of the server goes on when start() is over; a stop() of the
\* streamer that runs is shared, another one finds nothing to do.
Close ==
  /\ terminate /\ server \in {"serving", "failed"}
  /\ stop \in {"none", "done", "rejected"}
  /\ server' = "closing"
  /\ CallStop
  /\ UNCHANGED <<terminate, start, child, attempts, life, forsaken>> /\ UNCHANGED hashVars

\* stopOnce, after startPromise: the interval is cleared and ffmpeg signalled.
StopChild ==
  /\ stop = "starting" /\ start = "none"
  /\ tracked' = FALSE
  /\ intervals' = IF tracked THEN intervals - 1 ELSE intervals
  /\ IF child = "running"
     THEN child' = "terminating" /\ stop' = "exiting"
     ELSE UNCHANGED child /\ stop' = "hashing"
  /\ awaited' = (generation # Nothing)
  /\ UNCHANGED <<server, terminate, start, stopping, restart, attempts, life, forsaken,
                 generation, file, published, pending, sidecars, early>>

\* SIGTERM, or SIGKILL after STOP_TIMEOUT_MS.
Killed ==
  /\ child = "terminating"
  /\ stop' = "hashing"
  /\ \E bySigterm \in BOOLEAN : ChildExits(bySigterm)
  /\ UNCHANGED <<server, terminate, start, stopping, life, forsaken>> /\ UNCHANGED hashVars

\* The hash generation that ran when stopOnce looked is over.
StopDone ==
  /\ stop = "hashing" /\ ~awaited
  /\ stop' = "done"
  /\ UNCHANGED <<server, terminate, start, stopping, child, restart, attempts, life,
                 forsaken>>
  /\ UNCHANGED hashVars

Closed ==
  /\ server = "closing" /\ stop \in {"done", "rejected"}
  /\ server' = "stopped"
  /\ UNCHANGED <<terminate, start, stop, stopping, child, restart, attempts, life,
                 forsaken>>
  /\ UNCHANGED hashVars

-----------------------------------------------------------------------------
(* Hashes                                                                   *)

\* ffmpeg opens the file of a segment, and lists it when it has written it.
Write ==
  /\ child = "running" /\ file = Nothing
  /\ file' = life
  /\ UNCHANGED procVars
  /\ UNCHANGED <<intervals, tracked, generation, awaited, published, pending, sidecars, early>>

Publish ==
  /\ child = "running" /\ file # Nothing /\ published = Nothing
  /\ published' = file
  /\ UNCHANGED procVars
  /\ UNCHANGED <<intervals, tracked, generation, awaited, file, pending, sidecars, early>>

\* createHashFile keeps a sidecar that is there.
NeedsHash(segment) == segment # Nothing /\ \A hash \in sidecars : hash.name # Epoch(segment)

\* ensureHash: one hash for a name at a time.
EnsureHash(segment) ==
  pending' = IF \E hash \in pending : hash.name = Epoch(segment) THEN pending
             ELSE pending \cup {[name |-> Epoch(segment), of |-> segment,
                                 whole |-> segment = published]}

\* scheduleHashGeneration hashes what the playlists list.  With nothing to hash,
\* the generation is over as soon as it has begun.
IntervalFires ==
  /\ intervals > 0 /\ generation = Nothing /\ NeedsHash(published)
  /\ generation' = Epoch(published)
  /\ EnsureHash(published)
  /\ UNCHANGED procVars
  /\ UNCHANGED <<intervals, tracked, awaited, file, published, sidecars, early>>

\* A request for a sidecar that is not there hashes any segment file that is,
\* also the one ffmpeg is writing.
RequestHash ==
  /\ NeedsHash(file)
  /\ EnsureHash(file)
  /\ early' = (early \/ file # published)
  /\ UNCHANGED procVars
  /\ UNCHANGED <<intervals, tracked, generation, awaited, file, published, sidecars>>

\* createHashFile ends: the sidecar is renamed into place, or the segment or
\* the directory was removed meanwhile.  So does the generation that waits.  The
\* sidecar of a name that no segment has any more is left out.
HashEnds(hash) ==
  /\ hash \in pending
  /\ pending' = pending \ {hash}
  /\ \/ file # Nothing /\ hash.name = Epoch(file) /\ sidecars' = {hash}
     \/ UNCHANGED sidecars
  /\ IF generation = hash.name
     THEN generation' = Nothing /\ awaited' = FALSE
     ELSE UNCHANGED <<generation, awaited>>
  /\ UNCHANGED procVars
  /\ UNCHANGED <<intervals, tracked, file, published, early>>

Next ==
  \/ Prepared \/ Spawned \/ StartFails \/ RestartFires \/ Exits
  \/ Bind \/ Terminate \/ Close \/ StopChild \/ Killed \/ StopDone \/ Closed
  \/ Write \/ Publish \/ IntervalFires \/ RequestHash
  \/ \E hash \in Hashes : HashEnds(hash)

Spec == Init /\ [][Next]_streamVars

\* Promises settle and timers fire; ffmpeg ends when it is killed; a file is
\* hashed in the end.
Fairness ==
  /\ WF_streamVars(Prepared \/ Spawned \/ StartFails \/ RestartFires)
  /\ WF_streamVars(Bind \/ Close \/ Closed)
  /\ WF_streamVars(StopChild \/ Killed \/ StopDone)
  /\ \A n \in Lives : WF_streamVars(\E hash \in Hashes : hash.name = n /\ HashEnds(hash))

FairSpec == Spec /\ Fairness

-----------------------------------------------------------------------------
\* The types of the stream's and the hashes' variables.
TypeOK ==
  /\ server \in {"starting", "binding", "serving", "closing", "stopped", "failed"}
  /\ start \in {"none", "preparing", "spawning"}
  /\ stop \in {"none", "starting", "exiting", "hashing", "done", "rejected"}
  /\ child \in {"none", "spawning", "running", "terminating"}
  /\ attempts \in 0..(MaxRestarts + 1)
  /\ life \in Lives /\ intervals \in 0..(MaxRestarts + 1)
  /\ file \in Lives \cup {Nothing} /\ published \in Lives \cup {Nothing}
  /\ generation \in Lives \cup {Nothing}
  /\ awaited => generation # Nothing
  /\ pending \subseteq Hashes /\ sidecars \subseteq Hashes
  /\ early \in BOOLEAN /\ forsaken \in BOOLEAN

\* A sidecar that clients are served for the listed segment is of the content
\* that ffmpeg listed, also when the hash was begun before a restart; and of all
\* of it, unless somebody asked for the sidecar before the segment was listed:
\* that hash is kept, although ffmpeg was still writing.
SidecarsMatch ==
  \A hash \in sidecars :
     published # Nothing /\ hash.name = Epoch(published) =>
       /\ hash.of = published
       /\ hash.whole \/ early

\* ffmpeg does not run, is not being started and will not be.
Silent == child = "none" /\ start = "none" /\ ~restart
=============================================================================
