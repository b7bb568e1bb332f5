SPECIFICATION MCSpec
CONSTANTS
  None = None
  Nil = Nil
  MaxI64 = 2
  MaxCost = 12
  Answers <- MCAnswers
  Calls <- MCCalls
  Catalogs <- MCCatalogs
  c1 = c1
  c2 = c2
  Clients = {c1, c2}
  Bodies <- MCBodies
  ModelRows <- MCModelRows
  ProviderRows <- MCProviderRows
  Refresh = 1
  HealthTtl = 0
  MaxRouters = 1
  MaxWeight = 3
  MaxLoad = 1
  MaxEdits = 1
  MaxNow = 4
  MaxServed = 3
SYMMETRY Symmetric
CHECK_DEADLOCK FALSE
INVARIANT ChunkingTransparent
INVARIANT ResponsesWellFormed
 
INVARIANT TellsCost
INVARIANT EditsReachRequests
 
 
