\* Two connections, of one peer or of two.
CONSTANTS
  p1 = p1
  p2 = p2
  c1 = c1
  c2 = c2
  i1 = i1
  Peers = {p1, p2}
  Conns = {c1, c2}
  Persisters = {i1}
  ConnNotChannSize = 1
  PersistCap = 1
  persistConnEvents = TRUE
  None = None
SPECIFICATION FairSpec
INVARIANTS
  RowsOfThePeer
PROPERTIES
  EventuallyRecorded
  LastPairRecorded
  CallbacksReturn
