SPECIFICATION Spec
CONSTANTS
  Nobody = Nobody
  Clients <- MCClients
  MaxCalls = 4
  MaxFrames = 4
  MaxFaults = 1
INVARIANTS FramesAccounted
PROPERTIES StartNeverStops ReturnedIsTrue LiveViewNoticed MeasureAgrees
CHECK_DEADLOCK FALSE
