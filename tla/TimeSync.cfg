SPECIFICATION TimeSpec
CONSTANTS
  NanosPerSecond = 3
  Word = 16
  Providers = {"stbm", "gps"}
  BaseOf <- DriverBases
  StartTime = 10
  SetTimes = {10, 11}
  Corrections <- UpAndDown
  MaxCalls = 4
INVARIANTS
  CorrectionsAddUp
PROPERTIES
  TrustedTimeIsWhole
CHECK_DEADLOCK FALSE
