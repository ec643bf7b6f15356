CONSTANTS
  NrProfiles = 2
  Drivers    <- MCDrivers
  AskedFreqs <- MCFreqs
  AskedRes   <- MCRes
  Files      <- MCFiles
  MaxFaults  = 1
SPECIFICATION Spec
INVARIANTS TypeOK MemoryAgrees UntouchedKept NextDaemonFinds ConfigTakesHold
