SPECIFICATION Spec
CONSTANTS
  t1 = t1
  t2 = t2
  Threads <- MCThreads
  Commands <- Pair
  MaxEntries = 2
  MaxCalls = 2
  MaxEvents = 1
  MaxChunks = 0
  MayDie = FALSE
INVARIANT OwnAnswer
CHECK_DEADLOCK FALSE
