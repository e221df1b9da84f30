SPECIFICATION FairSpec
CONSTANTS
  Tasks = {udp, tcp}
  Texts <- MCTexts
  Default = "default"
  Torn = "torn"
  Empty = ""
  CString <- MCCString
  Pairs <- MCPairs
  Networks <- MCNetworks
  MaxAttempts = 2
  Lossy = TRUE
  Unknown = Unknown
  BoardRetries = 1
  MaxCuts = 1
  MaxCommands = 3
INVARIANTS
  ServedByDecidedServices
  RestartFindsLastSettings
  AccessPointKnown
PROPERTIES
  LifecyclePromise
  BootRunsDown
  BootEnds
CHECK_DEADLOCK FALSE
