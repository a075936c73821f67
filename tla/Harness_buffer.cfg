SPECIFICATION Spec
CONSTANTS
  MaxTurns = 1
  MaxStops = 1
  MaxEvents = 2
  MaxFlushes = 2
  Outcomes = {"stored", "unsure", "failed"}
  Verdicts = {"allow", "block", "error"}
CHECK_DEADLOCK FALSE
INVARIANT BufferCanBeWritten
