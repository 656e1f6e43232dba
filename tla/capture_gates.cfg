SPECIFICATION FairSpec
CONSTANTS
  Channels <- NoChannel
  Settled = FALSE
  MaxCaptures = 2
  MaxAttempts = 2
  MaxDrops = 1
  MaxWork = 7
INVARIANTS HalfPressReleased EventConfirmsOnce ReleaseInFocus
PROPERTY CallsReturn
