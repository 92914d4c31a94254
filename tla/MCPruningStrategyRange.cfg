\* One peer, two workers: NextPeerInRange does not hold.
CONSTANTS
  initialDelayTime <- MCInitialDelayTime
  MaxDelayTime = 1
  DeprecationTime = 1
  MaxDegree = 2
  Peers = {p1}
  Workers = {w1, w2}
  DialErrors = {"io_timeout"}
  PersistCap = 2
  MaxTime = 2
  Discoverable = {p1}
  CanCancel = FALSE
  None = None
SPECIFICATION Spec
INVARIANTS
  NextPeerInRange
