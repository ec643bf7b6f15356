SPECIFICATION FairOpenSpec
CONSTANTS
  MayDie = FALSE
  MaxEvents = 2
PROPERTY OpenReturns
CHECK_DEADLOCK FALSE
