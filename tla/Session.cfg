SPECIFICATION FairSpec
CONSTANTS
  t1 = t1
  t2 = t2
  Threads <- MCThreads
  Commands <- AllCommands
  MaxEntries = 2
  MaxCalls = 3
  MaxEvents = 1
  MaxChunks = 2
  MayDie = TRUE
INVARIANTS TypeOK InStep UploadInStep FailsForAReason
PROPERTY CallsReturn
CHECK_DEADLOCK FALSE
