SPECIFICATION Spec
CONSTANTS
  Codes = {1, 2}
  Texts = {2}
  Records <- MCRecords
  Paths = {"native", "helper", "fake"}
  Settings <- MCSettings
  Refusals = {"invalid_handle", "adapter_busy"}
  SlotHalf = 2
  MaxCalls = 2
  MaxChanges = 1
INVARIANTS
  SetReachesCamera
  ResultHeld
  ListWhole
  StreamInStep
