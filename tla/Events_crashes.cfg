SPECIFICATION FairSpec
CONSTANTS
  Events = {1, 2, 3}
  Batches <- MCBatches
  Legacies = {None, {3}}
  Writers = {w1, w2}
  Readers = {}
  Limit = 3
  MaxOldWrites = 0
  MaxPowerLosses = 1
  None = None
CHECK_DEADLOCK FALSE
INVARIANTS TypeOK LedgerIntact AcceptedReadable NeverRefused AcceptedKept
PROPERTY LockIsFreed
