SPECIFICATION FairValidationSpec
CONSTANTS
  Modulus = 8
  FirstCounters = {0, 1, 6}
  MaxLost = 3
INVARIANTS
  OneTurnPerLoss
PROPERTIES
  Resynchronises
  GapIsCounted
