SPECIFICATION FairSpec
CONSTANTS
  t1 = t1
  t2 = t2
  Threads <- TwoThreads
  NoThread = NoThread
  Camera = camera
  GenModulus = 8
  Overlap = TRUE
  MaxOpens = 1
  MaxStarts = 2
INVARIANT RetryClearsHeld
PROPERTY CallsEnd
