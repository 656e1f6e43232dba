SPECIFICATION Spec
CONSTANTS
  t1 = t1
  t2 = t2
  Threads <- TwoThreads
  NoThread = NoThread
  Camera = camera
  GenModulus = 8
  Overlap = FALSE
  MaxOpens = 2
  MaxStarts = 1
SYMMETRY Symmetry
INVARIANTS CallsReachOwn NoOrphan
