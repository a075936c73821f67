SPECIFICATION Spec
CONSTANTS
  Files = {1}
  Tracked = {1}
  Contents = {"a", "b", "absent"}
  Absent = "absent"
  Unlisted = "unlisted"
  Checks = {1}
  Globs <- MCGlobs
  Matches <- MCMatches
  Contracts = {"test", "vet"}
  Configs <- OneConfig
  Runs = {r1}
  Gates = {g1}
  None = None
  Reverts = FALSE
  MaxEdits = 1
  Outcomes = {"zero", "nonzero"}
  Faults = {}
CHECK_DEADLOCK FALSE
INVARIANT NonZeroExitRemainsFail
