\* Each slice of a flush serves one of two viewers.  Peers join once, so the
\* run stops when all have left.
SPECIFICATION SocketSpec
CONSTANTS
  p1 = p1
  p2 = p2
  p3 = p3
  p4 = p4
  k1 = k1
  k2 = k2
  k3 = k3
  Peers = {p1, p2, p3}
  ViewSize = 1
  Segments = {s1}
  Sockets = {k1, k2}
  Owner <- MCOwner
  Modes = {"viewer"}
  ReportKinds = {"delta"}
  ViewersPerTurn = 1
  MayRejoin = FALSE
  Unknown = unknown
  NoUpdate = noUpdate
SYMMETRY Symmetry
INVARIANTS ViewsInSync ViewsFull MembershipMirrored InventoriesMirrored PendingIsNet
CHECK_DEADLOCK FALSE
