SPECIFICATION FilesSpec
CONSTANTS
  Paths <- MCPaths
  Requests <- AnyRequests
  BatchSize = 4
  MaxFiles = 2
  MaxChanges = 0
CHECK_DEADLOCK FALSE
INVARIANT RelevantListed
