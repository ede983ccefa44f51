CONSTANTS
  ERPS_RAPS_BURST = 0
  N = 3
  Ids <- OwnerLowest
  Revertive = TRUE
  InitialLinks <- AllLit
  Commands <- NoCommands
  Transparent = FALSE
  Lossless = TRUE
  Isolated = TRUE
  MaxEvents = 3
  MaxCommands = 0
  MaxDelayed = 0
SPECIFICATION Spec
INVARIANTS
  FailureRoutedAround
CHECK_DEADLOCK FALSE
