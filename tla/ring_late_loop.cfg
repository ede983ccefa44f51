CONSTANTS
  ERPS_RAPS_BURST = 0
  N = 3
  Ids <- OwnerLowest
  Revertive = TRUE
  InitialLinks <- AllLit
  Commands <- NoCommands
  Transparent = FALSE
  Lossless = TRUE
  Isolated = TRUE
  MaxEvents = 2
  MaxCommands = 0
  MaxDelayed = 2
SPECIFICATION Spec
INVARIANTS
  NoLoop
CHECK_DEADLOCK FALSE
