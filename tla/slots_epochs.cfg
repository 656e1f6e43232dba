SPECIFICATION Spec
CONSTANTS
  k1 = k1
  k2 = k2
  Keys <- TwoKeys
  GenModulus = 8
  MaxOpens = 5
  MaxEpochs = 2
INVARIANTS TypeOK NoAliasing ConnectionsOwned
PROPERTY ImplementsService
CHECK_DEADLOCK FALSE
