SPECIFICATION Spec
CONSTANTS
  Files = {1, 2}
  Tracked = {1}
  Contents = {"a", "b", "absent"}
  Absent = "absent"
  Unlisted = "unlisted"
  Checks = {1}
  Globs <- MCGlobs
  Matches <- MCMatches
  Contracts = {"test", "vet"}
  Configs <- SomeConfigs
  Runs = {r1}
  Gates = {g1}
  None = None
  Reverts = FALSE
  MaxEdits = 2
  Outcomes = {"zero", "nonzero", "timeout"}
  Faults = {"kill", "budget", "log"}
CHECK_DEADLOCK FALSE
INVARIANTS TypeOK PassBinds GateSound NoFalseStale
