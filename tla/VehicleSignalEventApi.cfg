SPECIFICATION Spec
CONSTANTS
  Handlers = {h1, h2}
  NoHandler = NoHandler
  Sizes = {1, 2}
  MaxPushes = 4
INVARIANTS
  AtMostOneLateCall

  
