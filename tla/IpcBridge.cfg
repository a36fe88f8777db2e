SPECIFICATION FairSpec
CONSTANTS
  Services = {vehicleSignal, safetyStatus}
  HandshakeMin = 1
  HandshakeTimeout = 3
  HeartbeatInterval = 1
  HeartbeatTimeout = 2
  MaxQueue = 1
INVARIANTS
  NormalMeansOffered
PROPERTIES
  ErrorNeedsTimeout
  
  HandshakeEnds
  SpiQueueDrains
