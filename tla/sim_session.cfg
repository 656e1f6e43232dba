SPECIFICATION SimSpec
CONSTANTS
  None = None
  Setups <- MCSetups
  Timeouts = {0, 5000}
  Pauses = {20, 200}
  MaxCalls = 3
  MaxFrames = 2
INVARIANTS PostviewNamesStill TransientEnds NewStillsFoundInTurn
PROPERTY StreamPauses
