\* Every fault, and a shutdown at any time: batches of two queries, one retry.
CONSTANTS
  p1 = p1
  p2 = p2
  Persisters = {p1, p2}
  batchSize = 2
  MaxRetries = 1
  Weights = {0, 1, 2}
  Faults = {"error", "unknown", "query"}
  MaxItems = 3
  CanClose = TRUE
  CanCancel = TRUE
SPECIFICATION FairSpec
INVARIANTS
  ItemsAccounted
  LossBounded
  WritesBounded
PROPERTIES
  WholeBatches
  EventuallyStored
