SPECIFICATION Spec
CONSTANTS
  Events = {1, 2, 3}
  Batches <- MCBatches
  Legacies = {{}}
  Writers = {w1}
  Readers = {}
  Limit = 3
  MaxOldWrites = 0
  MaxPowerLosses = 0
  None = None
CHECK_DEADLOCK FALSE
INVARIANT AcceptedReadable
