SPECIFICATION Spec
CONSTANTS
  Conns = {}
  MaxStreams = 2
  PingLen = 8
  StatusLen = 10
  MaxUint32 = 100
  RemoteRequests <- MCPings
  Slots = {1, 2}
  Garbled = Garbled
INVARIANT RawSizeChecked
CHECK_DEADLOCK FALSE
