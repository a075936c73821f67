SPECIFICATION FairSpec
CONSTANTS
  MaxTurns = 2
  MaxStops = 3
  MaxEvents = 4
  MaxFlushes = 2
  Outcomes = {"stored", "unsure", "failed"}
  Verdicts = {"allow", "block", "error"}
CHECK_DEADLOCK FALSE
INVARIANTS LedgerInOrder AllowedIsRecorded ForcedOnce UnresolvedWasForced IInv
PROPERTY StopsEnd
