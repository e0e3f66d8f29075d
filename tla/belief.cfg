CONSTANTS
  Values = {a, b}
  NoValue = NoValue
  Sessions = {s1, s2}
  Times <- TwoDates
  Magnitudes = {30, 60, 100}
  Confidences = {"high", "low"}
  Damping <- ConfigDamping
  NoIntent = NoIntent
  Resistance <- Levels
  BandLow = 80
  BandHigh = 200
  MinResistance = 30
  N = 2
  MaxClaims = 2
  MaxNodes = 3
SPECIFICATION Spec
CONSTRAINT Scenarios
SYMMETRY Interchangeable
CHECK_DEADLOCK FALSE
INVARIANTS
  NoTwoCycle
  NoTwins
  LockInBroken
PROPERTIES
  OverturnedFairly
  StaleNeverHeard
