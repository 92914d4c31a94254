\* A bootnode, a neighbour without addresses, a worker of each kind.
CONSTANTS
  b = b
  x = x
  Peers = {b, x}
  bootnodes <- MCBootnodes
  NoAddrs = {x}
  BootWorkers = {w1}
  RandWorkers = {w2}
  None = None
SPECIFICATION FairSpec
INVARIANTS
  PointersInRange
  NotifiedInOrder
  CopiesBounded
PROPERTIES
  EveryEntryNotified
  
CHECK_DEADLOCK FALSE
