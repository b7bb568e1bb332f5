SPECIFICATION FairSpec
CONSTANTS
  d1 = d1
  None = None
  Corrupt = Corrupt
  BasicInfo = BasicInfo
  Truncated = Truncated
  DataPlanes = {d1}
  NumTables = 2
  SilentTables = {2}
  Contents = {1, 2}
  Initial = 1
  ChannelCapacity = 1
  MaxChanges = 2
  MaxConnections = 2
  MaxFaults = 1
INVARIANTS  KeepsServing
PROPERTIES Converges
CHECK_DEADLOCK FALSE
