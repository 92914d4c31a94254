\* Two peers, one worker, one tick: back-off, removals, spoilt sorts.
CONSTANTS
  initialDelayTime <- MCInitialDelayTime
  MaxDelayTime = 1
  DeprecationTime = 1
  MaxDegree = 2
  Peers = {p1, p2}
  Workers = {w1}
  DialErrors = {"io_timeout"}
  PersistCap = 1
  MaxTime = 1
  Discoverable = {}
  CanCancel = FALSE
  None = None
SPECIFICATION FairSpec
INVARIANTS
  QueueAgreement
  NoRepeatInIteration
PROPERTY
  NewPeerReachesWorker
