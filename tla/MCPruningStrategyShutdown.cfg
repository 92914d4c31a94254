\* One peer, two workers, with the cancellation of the context.
CONSTANTS
  initialDelayTime <- MCInitialDelayTime
  MaxDelayTime = 1
  DeprecationTime = 1
  MaxDegree = 2
  Peers = {p1}
  Workers = {w1, w2}
  DialErrors = {"io_timeout"}
  PersistCap = 1
  MaxTime = 2
  Discoverable = {p1}
  CanCancel = TRUE
  None = None
SPECIFICATION Spec
SYMMETRY Symmetry
INVARIANTS
  TokenConservation
  SendsNeverBlock
  NoOverduePeerQueued
