SPECIFICATION ReplaySpec
CONSTANTS
  Hooks = {h1, h2, h3}
  None = None
  MaxTime = 4
  HookFaults = {"cli", "input", "repo", "io", "kill"}
  Delivery = 1
  Required = {1, 2}
  Checks = {1, 2}
  Runs = {r1, r2}
  Imports = {i1, i2}
  Creates = {p1, p2}
  Retain = 1
  Replays = {v1}
  MaxCommits = 1
  Mixes <- Several
  Faults = {"receipt", "stop"}
ACTION_CONSTRAINTS OthersFirst ReplaysLast
CHECK_DEADLOCK FALSE
INVARIANTS IncidentTypeOK DivergenceIsEarliest SessionKept VerdictIsSupported LatestCaseLoads Retained BlockedOnce StopOnRecord ReplaySound
