SPECIFICATION Spec
CONSTANTS
  c1 = c1  p1 = p1  m1 = m1
  vDefault = vDefault  vNew = vNew  vBad = vBad  vReset = vReset
  NrInterfaces = 1
  Values <- OneValue
  BadValue = vBad
  PowerOn = vReset
  Kinds <- Black
  ConfigFlaps = FALSE
  ShortWrites = FALSE
  Default = vDefault
  Clients <- OneClient
  Privs <- OnePriv
  Mice <- OneMouse
  ClientOps <- SettingOps
  PrivOps <- ClaimOps
  ScanMayFail = FALSE
  SocketRoom = 1
  MaxClaims = 2
  MaxChunks = 2
INVARIANTS TypeOK ClaimsConserved Settled HandlesAccounted NoStaleView
