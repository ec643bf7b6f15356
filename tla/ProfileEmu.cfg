CONSTANTS
  Profiles = {p1, p2}
  FirstProfile = p1
  Axes = {xy, scroll}
  MainAxis = xy
  Freqs = {f500, f1000}
  DefaultFreq = f500
  UnknownFreq = fUnknown
  BadFreq = fBad
  Mappings = {d1, d2}
  DefaultMapping = d1
  Resolutions = {r1, r2}
  StageOf <- Stages
  r1 = r1
  r2 = r2
  NoMapping = none
  PowerOn = powerOn
SPECIFICATION Spec
INVARIANTS TypeOK ActiveApplied RefusedReported
