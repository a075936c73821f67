SPECIFICATION MCSpec
CONSTANTS
  Signers = {s1, s2, s3}
  NoKey = NoKey
  MaxErasures = 1
  KeyFaults = {"stop"}
  Setups = {p1, p2, p3}
  Executables = {v1, v2}
  Commands <- MCCommands
  Foreign = {lint}
  Legacy = Legacy
  Lifecycle = {"Stop"}
  Others = {"Notification"}
  FirstHooks <- MCFirstHooks
  Absent = Absent
  Emptied = Emptied
  Garbled = Garbled
  Own = Own
  MaxEdits = 1
  SetupFaults = {"stop", "config"}
  MaxSettles = 3
  MaxInputs = 3
  MaxRestores = 3
  Paths <- MCPaths
  Requests <- MCRequests
  BatchSize = 4
  MaxFiles = 2
  MaxChanges = 1
SYMMETRY InstallationSymmetry
CHECK_DEADLOCK FALSE
INVARIANTS
  InstallationTypeOK
  OneHandler ForeignKept OwnKept SignedVerifies ShortHasCause
  OneCorrection GuardOnBranch RelevantListed SubmodulesRefused
PROPERTY CorrectionNotWasted
