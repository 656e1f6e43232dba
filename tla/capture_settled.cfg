SPECIFICATION Spec
CONSTANTS
  Channels <- BothChannels
  Settled = TRUE
  MaxCaptures = 2
  MaxAttempts = 2
  MaxDrops = 0
  MaxWork = 7
INVARIANTS ReleaseInFocus ContentNotEarlier
