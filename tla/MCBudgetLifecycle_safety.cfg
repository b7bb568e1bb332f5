SPECIFICATION LifecycleSpec
CONSTANTS
  k1 = k1
  r1 = r1
  r2 = r2
  s1 = s1
  s2 = s2
  None = None
  Keys = {k1}
  Requests = {r1, r2}
  KeyOf <- OneKey
  Sessions = {s1, s2}
  ConfigOf <- SameConfig
  Costs <- MCCosts
  FactCosts <- MCFactCosts
  Operations = {"o1"}
  Resolutions <- MCResolutions
  Rebuilds = {}
  Limits = {2}
  MaxAmount = 3
  Lease = 1
  StaleAfter = 1
  MaxClock = 1
  MaxRevision = 0
  MaxEntries = 1
  MayCancel = TRUE
INVARIANTS UpstreamIsAccounted
CHECK_DEADLOCK FALSE
SYMMETRY RequestSymmetry
