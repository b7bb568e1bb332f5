SPECIFICATION MCSpec
CONSTANTS
  k1 = k1
  r1 = r1
  r2 = r2
  s1 = s1
  s2 = s2
  None = None
  Keys = {k1}
  Requests = {r1, r2}
  KeyOf <- OneKey
  Sessions = {s1, s2}
  ConfigOf <- TwoConfigs
  Costs <- MCCosts
  Operations = {"o1"}
  Resolutions <- MCResolutions
  Rebuilds = {"b1", "b2"}
  Limits = {2}
  MaxAmount = 3
  Lease = 1
  StaleAfter = 1
  MaxClock = 3
  MaxRevision = 3
INVARIANTS CountsMatchLedger CheckpointSound
PROPERTIES ImplementsAccount ReplayForever OrphansResolved
CHECK_DEADLOCK FALSE
