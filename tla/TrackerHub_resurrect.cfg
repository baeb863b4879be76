\* Each slice serves one viewer, and peers may come back between slices.
SPECIFICATION Spec
CONSTANTS
  p1 = p1
  p2 = p2
  p3 = p3
  p4 = p4
  k1 = k1
  k2 = k2
  k3 = k3
  Peers = {p1, p2, p3}
  ViewSize = 1
  Segments = {s1}
  Sockets = {k1, k2}
  Owner <- MCOwner
  Modes = {"viewer"}
  ReportKinds = {"delta"}
  ViewersPerTurn = 1
  MayRejoin = TRUE
  Unknown = unknown
  NoUpdate = noUpdate
INVARIANTS NothingResurrected
