SPECIFICATION FairSpec

CONSTANTS
  None = None
  Self = Self
  All = All
  ForkDigests <- MCForkDigests
  DefaultDigest <- Capella
  HexDigits = {"0", "a", "b"}
  DigestSize = 2
  SubnetLimit = 10
  Flags <- MCFlags
  Messages <- MCMessages
  BufferSize = 1
  Persisters = {1, 2}
  BatchSize = 2
  ChannelSize = 1
  MaxDeliveries = 2

INVARIANTS
  JoinPanicsOnRepeats
  RowsAreMessages

PROPERTIES
  EveryMessageStored

CHECK_DEADLOCK FALSE
