SPECIFICATION FairSpec
CONSTANTS
  Conns = {c1}
  MaxStreams = 2
  PingLen = 8
  StatusLen = 10
  MaxUint32 = 60
  RemoteRequests <- MCRequests
  Slots = {1, 2}
  Garbled = Garbled
INVARIANTS
  FittingRefusedOnlyAfterSpoiling
  
PROPERTIES
  StatusNeverFallsBack
  CallbacksEnd
CHECK_DEADLOCK FALSE
