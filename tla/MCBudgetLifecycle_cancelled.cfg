SPECIFICATION LifecycleFairSpec
CONSTANTS
  k1 = k1
  r1 = r1
  r2 = r2
  s1 = s1
  s2 = s2
  None = None
  Keys = {k1}
  Requests = {r1}
  KeyOf <- OneKey
  Sessions = {s1, s2}
  ConfigOf <- SameConfig
  Costs <- MCCosts
  FactCosts <- MCFactCosts
  Operations = {}
  Resolutions = {}
  Rebuilds = {}
  Limits = {2}
  MaxAmount = 3
  Lease = 2
  StaleAfter = 1
  MaxClock = 1
  MaxRevision = 0
  MaxEntries = 2
  MayCancel = TRUE
PROPERTIES OrphansClosed
CHECK_DEADLOCK FALSE
