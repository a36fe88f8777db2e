SPECIFICATION FairSpec
CONSTANTS
  FunctionGroups <- TwoGroups
  MaxByte = 5
  McuReports <- AllReports
INVARIANTS
  SafeStopIsDone
PROPERTIES
  EscalationStops
  RunReturnsSoon
  NoReturnToService
  ViolationIsSeen
  ShutdownEndsRun
