SPECIFICATION MCSpec
CONSTANTS
  NoName = NoName
  Workers = {w1, w2}
  Workloads <- MCWorkloads
  Seed <- MCSeed
  Document <- MCDocument
  MaxCalls = 2
  MaxErrors = 1
  PageSize = 3
INVARIANT SettledCache 
PROPERTY Settles
CHECK_DEADLOCK FALSE
