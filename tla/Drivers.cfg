CONSTANTS
  Drivers      <- MCDrivers
  AskedFreqs   <- MCFreqs
  AskedRes     <- MCRes
  AskedModes   <- MCModes
  AskedColours <- MCColours
  PowerOn      = PowerOn
  MaxFaults    = 1
SPECIFICATION Spec
INVARIANTS TypeOK DeviceAgrees NothingForgotten OnlyFreqIsStuck ProbeConfigures
PROPERTY ReconfigRestores
