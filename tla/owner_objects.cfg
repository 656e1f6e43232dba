SPECIFICATION Spec
CONSTANTS
  Sdks = {sdk1}
  k1 = k1
  k2 = k2
  Keys <- MCKeys
  GenModulus = 5
  MaxOpens = 3
  MaxStarts = 2
  MaxCameras = 3
INVARIANTS ConnectionsHeld NothingConnectedAfterClose
PROPERTY SessionsAreService
CHECK_DEADLOCK FALSE
