SPECIFICATION MCSpec
CONSTANTS
  p1 = p1
  p2 = p2
  f1 = f1
  f2 = f2
  f3 = f3
  f4 = f4
  None = None
  Processes = {p1, p2}
  Facts = {f1, f2, f3, f4}
  HomeOf <- Homes
  Capacity = 2
  BatchSize = 2
  MaxRetries = 1
INVARIANTS FactsConserved SnapshotStable
PROPERTIES FactsLeave
CHECK_DEADLOCK FALSE
