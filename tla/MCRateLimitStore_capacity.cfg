CONSTANTS
  k1 = k1  k2 = k2  r1 = r1  r2 = r2  t1 = t1  t2 = t2
  Threads = {t1, t2}
  Keys = {k1, k2}
  Requests = {r1, r2}
  Cells = {c1, c2, c3, c4, c5, c6}
  Commands <- TwoKeyCommands
  Payloads <- OnePayload
  MaxBuckets = 2  MaxIdempotency = 3  Headroom = 1  MaxPerBucket = 2  MaxLive = 1
  Lifetime = 0  Grace = 1
  InspectKeys = {k1}
  CleanupInterval = 2  ScanBatch = 1
  MaxCount = 3
  None = None
  MaxTime = 3  MaxDelay = 0  MaxOps = 3
SPECIFICATION FairSpec
CHECK_DEADLOCK FALSE
INVARIANTS CounterAccounting
PROPERTY CallsReturn
