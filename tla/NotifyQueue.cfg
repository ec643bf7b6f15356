SPECIFICATION FairSpec
CONSTANTS
  Size = 3
  Events <- NewAndDel
  SocketRoom = 2
INVARIANTS TypeOK NoLostWakeup
PROPERTIES Fifo OldestTaken CloseReturns
CHECK_DEADLOCK FALSE
