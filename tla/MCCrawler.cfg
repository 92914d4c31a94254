\* Two addresses, a list and a channel of one place, one peer and one callback.
CONSTANTS
  IPs = {a1, a2}
  PrivateIPs = {lan}
  Clients = {handler, callback}
  Handler = handler
  ipBuffSize = 1
  ipChanBuffSize = 1
  Answers = {"ok", "ok_delay", "error", "too_many", "no_ttl"}
  None = None
  MaxNodes = 1
  MaxInbound = 1
  maxPersisters = 2
SPECIFICATION FairSpec
INVARIANTS
  AddressesAccounted
  IteratorEndsFirst
PROPERTIES
  LookupsInOrder
  StopReturns
  EveryLookupServed
  EveryLocateReturns
CHECK_DEADLOCK FALSE
