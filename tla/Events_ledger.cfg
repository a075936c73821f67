SPECIFICATION Spec
CONSTANTS
  Events = {1, 2, 3}
  Batches <- SmallBatches
  Legacies = {None, {3}}
  Writers = {w1, w2}
  Readers = {r1}
  Limit = 2
  MaxOldWrites = 1
  MaxPowerLosses = 0
  None = None
CHECK_DEADLOCK FALSE
PROPERTIES LedgerSpec NothingOmitted
