SPECIFICATION FairSpec
CONSTANTS
  Proxies = {display, logger}
  Provider = Provider
  Nobody = Nobody
  MaxListeners = 1
PROPERTIES
  SubscribeReturns
CHECK_DEADLOCK FALSE
