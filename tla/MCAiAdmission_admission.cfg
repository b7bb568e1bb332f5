SPECIFICATION MCSpec
CONSTANTS
  Null = Null
  c1 = c1
  c2 = c2
  Callers = {c1, c2}
  Asks <- MCAsks
  Policies <- MCPolicies
  CacheTtl = 1
  Permits = 1
  QuotaSupported = TRUE
  MaxSecrets = 2
  MaxChanges = 3
  MaxLookup = 1
  MaxClock = 2
  MaxWindow = 1
SYMMETRY Symmetric
CHECK_DEADLOCK FALSE
 
INVARIANT QuotaSettledAsEnded
INVARIANT QuotaHeadersTrue
