SPECIFICATION FairSpec
CONSTANTS
  Files = {1}
  Tracked = {1}
  Contents = {"a", "absent"}
  Absent = "absent"
  Unlisted = "unlisted"
  Checks = {1, 2}
  Globs <- MCGlobs
  Matches <- MCMatches
  Contracts = {"test", "vet"}
  Configs <- TwoChecks
  Runs = {r1, r2}
  Gates = {g1}
  None = None
  Reverts = FALSE
  MaxEdits = 1
  Outcomes = {"zero"}
  Faults = {"io", "log", "budget"}
CHECK_DEADLOCK FALSE
INVARIANT GateSound
PROPERTY GateAnswers
