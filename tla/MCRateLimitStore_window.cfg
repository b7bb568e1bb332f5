CONSTANTS
  k1 = k1  k2 = k2  r1 = r1  r2 = r2  t1 = t1  t2 = t2
  Threads = {t1, t2}
  Keys = {k1}
  Requests = {r1, r2}
  Cells = {c1, c2, c3}
  Commands <- OneKeyCommands
  Payloads <- TwoPayloads
  MaxBuckets = 1  MaxIdempotency = 3  Headroom = 1  MaxPerBucket = 2  MaxLive = 2
  Lifetime = 0  Grace = 1
  InspectKeys = {k1}
  CleanupInterval = 3  ScanBatch = 1
  MaxCount = 4
  None = None
  MaxTime = 3  MaxDelay = 1  MaxOps = 4
SPECIFICATION Spec
SYMMETRY ThreadSymmetry
CHECK_DEADLOCK FALSE
INVARIANTS TypeOK LeaseSafety OutstandingSettleable WindowAccounting
