SPECIFICATION FairSpec
CONSTANTS
  Proxies = {p1, p2}
  Provider = Provider
  Nobody = Nobody
  MaxListeners = 3
INVARIANTS
  UnsubscribeSilences
  OfferIsSeen
  IterationIsStable

  
CHECK_DEADLOCK FALSE
