SPECIFICATION MessageSpec
CONSTANTS
  Word = 64
  Ids = {1, 2, 3}
  SizeOf <- Sizes
  Hops = {"a", "b", "c"}
INVARIANTS
  WholeOrRefused
