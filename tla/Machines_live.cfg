\* The machines that promise progress, with the fairness of each, and instances
\* for what Machines_safe does not reach.
SPECIFICATION LiveSpec
CONSTANTS
  Machines = {"SF", "TS", "WT", "PA", "PS", "TH", "SQ", "BL", "HS"}
  \* Two consumers of one flight, one of whom may abort.
  Segments = {s1}
  Flights = {f1}
  NoFlight = none
  Consumers = {c1, c2}
  Signalled = {c1}
  \* No segments: the session does not depend on them.
  Reportable = {}
  Protected = TRUE
  \* Two requests of one uploader that serves one at a time.
  Node = node
  Browser = browser
  FromNode = {}
  FromBrowser = {c1, c2}
  Transport = transport
  MaxUploads = 1
  MaxRequests = 2
  Chunks = 1
  \* A playlist that slides.
  LastSegment = 4
  Window = 3
  MaxAttempts = 2
  MaxParallel = 2
  MinAhead = 1
  \* More work than peers, in time for the origin, hardly and too late.
  Candidate = {p1, p2}
  Self = me
  Wanted = {s1, s2, s3}
  MaxWork = 0
  Distances = {1}
  Inventories = {{s1}, {s1, s2, s3}}
  None = none
  Duration = 2
  Estimate = 2
  Margin = 1
  ProbeWindow = 2
  MaxHedge = 2
  \* Attached again while requests of the sessions before are on their way.
  Slot = {q1}
  MaxAttach = 2
  Loader = {l1, l2}
  Parts = 2
  \* A second batch falls due while the slices of the first are being sent.
  HubPeers = {p1, p2}
  ViewSize = 1
  HubSegments = {s1}
  Sockets = {p1, p2}
  Modes = {"viewer"}
  ReportKinds = {"delta"}
  ViewersPerTurn = 1
  MayRejoin = FALSE
  Unknown = unknown
  NoUpdate = noUpdate
  \* Two peers for one place, whose traffic outlives them.
  Broadcast = {b1}
  Peer = {p1, p2}
  Segment = {}
  MaxPeers = 1
  MaxSegments = 1
  MaxCharacters = 1
  Length <- MCLength
  Traffic = {0, 1}
  Quality = {1}
  MaxRetired = 2
  Reporter = {p1, p2, p3}
  Reason = {"integrity"}
  Quorum = 2
  Lowest = 13
  \* A lease of three refresh intervals; two outages of the tracker.
  Lease = 3
  Unlisted = unlisted
  MaxOutages = 2
  MaxRestarts = 2
  Nothing = nothing
INVARIANTS SlotsReturned SidecarsMatch
PROPERTIES ImplementsStore RequestsEnd StopsEnd ServiceReturns
CHECK_DEADLOCK FALSE
