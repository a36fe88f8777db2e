SPECIFICATION Spec
CONSTANTS
  Names = {"VehicleSignalService", "SafetyMonitorService", "IPCBridgeService"}
  Objects = {o1, o2, o3}
  NoName = NoName
INVARIANTS
  SupervisedIffOwned
PROPERTIES
  RecordIsKept
