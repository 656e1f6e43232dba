SPECIFICATION Spec
CONSTANTS
  MaxQueued = 2
  Capacity = 1
  Reported <- MCReported
  MaxPushed = 4
  MaxShots = 2
INVARIANTS WaiterWoken EventsAccounted TypesInOrder StateCatchesUp PostviewServed
CHECK_DEADLOCK FALSE
