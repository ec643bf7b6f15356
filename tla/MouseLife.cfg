SPECIFICATION Spec
CONSTANTS
  f125 = f125
  f500 = f500
  f1000 = f1000
  fBad = fBad
  fReset = fReset
  NrInterfaces = 2
  Values <- MCValues
  BadValue = fBad
  PowerOn = fReset
  Kinds <- EveryKind
  ConfigFlaps = TRUE
  ShortWrites = FALSE
  Default = f1000
  MaxClaims = 3
INVARIANTS TypeOK NoHandleLeak NoLostSetting RebootOnlyWhenOwed CommittedByLastRelease
PROPERTY DeliversLastChoice
