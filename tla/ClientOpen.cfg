SPECIFICATION FairOpenSpec
CONSTANTS
  MayDie = TRUE
  MaxEvents = 2
INVARIANTS OpenTypeOK FailureCleansUp OpenIsComplete
PROPERTY OpenReturnsToUsers
CHECK_DEADLOCK FALSE
