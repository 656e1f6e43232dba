SPECIFICATION FairSpec
CONSTANTS
  t1 = t1
  t2 = t2
  still1 = still1
  still2 = still2
  Threads <- TwoThreads
  Contents <- TwoStills
  NoThread = NoThread
  NoBytes = NoBytes
  MaxFetches = 2
INVARIANTS TypeOK InFlightOwned ServedOnce ReplyIsOwn
PROPERTY GateReleased
CHECK_DEADLOCK FALSE
