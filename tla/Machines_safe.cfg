\* Each machine on an instance of its own, without fairness.
SPECIFICATION SafeSpec
CONSTANTS
  Machines = {"SF", "TS", "WT", "PA", "SS", "PS", "PL", "TH", "SQ", "FR",
              "BL", "HS"}
  \* Two consumers, one of whom may abort; two flights, so that one may start
  \* while the loser of the other's hedge has yet to answer.
  Segments = {s1}
  Flights = {f1, f2}
  NoFlight = none
  Consumers = {c1, c2}
  Signalled = {c1}
  \* Segments are reported independently of one another.
  Reportable = {s1}
  Protected = TRUE
  \* A request of each peer.
  Node = node
  Browser = browser
  FromNode = {n1}
  FromBrowser = {b1}
  Transport = transport
  MaxUploads = 1
  MaxRequests = 2
  Chunks = 2
  \* A playlist that slides.
  LastSegment = 4
  Window = 3
  MaxAttempts = 2
  MaxParallel = 2
  MinAhead = 1
  \* More work than peers, in time for the origin, hardly and too late.
  Candidate = {p1, p2}
  Self = me
  Wanted = {s1, s2, s3}
  MaxWork = 3
  Distances = {1}
  Inventories = {{s1}, {s1, s2, s3}}
  None = none
  Duration = 2
  Estimate = 2
  Margin = 1
  ProbeWindow = 2
  MaxHedge = 2
  \* Attached again while requests of the sessions before are on their way.
  Slot = {q1, q2}
  MaxAttach = 3
  Loader = {l1, l2}
  Parts = 2
  \* Clients of every mode, every kind of report, peers that come back.
  HubPeers = {p1, p2}
  ViewSize = 1
  HubSegments = {s1}
  Sockets = {p1, p2}
  Modes = {"immediate", "batched", "viewer"}
  ReportKinds = {"delta", "list", "rest"}
  ViewersPerTurn = 2
  MayRejoin = TRUE
  Unknown = unknown
  NoUpdate = noUpdate
  \* One peer whose inventory is cut, to one segment and to names of two
  \* characters: the name of one segment alone is too long.
  Broadcast = {b1}
  Peer = {p1}
  Segment = {s1, s2, s3}
  MaxPeers = 1
  MaxSegments = 1
  MaxCharacters = 2
  Length <- MCLength
  Traffic = {0}
  Quality = {0, 1}
  MaxRetired = 0
  Reporter = {p1, p2, p3}
  Reason = {"integrity"}
  Quorum = 2
  Lowest = 13
  \* A short lease and few restarts: see Machines_live.
  Lease = 2
  Unlisted = unlisted
  MaxOutages = 1
  MaxRestarts = 1
  Nothing = nothing
INVARIANTS
  TypeOK MachineTypeOK OneFlight CountedOnce NoFalseBlame AbortsArePrivate
  NeverStranded StoppedIsSilent ReportsArrive
  ReceivedIsServed NothingLeftBehind BatchPlanned OriginInTime
  DetachedIsSilent OnlyVerifiedIsShared SubscribersFollow
PROPERTIES OthersKeepLoading ImplementsStore TrustJustified
SYMMETRY Symmetry
CHECK_DEADLOCK FALSE
