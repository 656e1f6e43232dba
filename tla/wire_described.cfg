SPECIFICATION Spec
CONSTANTS
  Codes = {1, 2}
  Texts = {2}
  Records <- MCRecords
  Paths = {"helper"}
  Settings <- MCSettings
  Refusals = {}
  SlotHalf = 2
  MaxCalls = 1
  MaxChanges = 1
INVARIANT DescribedAsAdvertised
