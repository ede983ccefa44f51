CONSTANTS
  ERPS_RAPS_BURST = 0
  N = 3
  Ids <- OwnerLowest
  Revertive = TRUE
  InitialLinks <- AllLit
  Commands <- AllCommands
  Transparent = FALSE
  Lossless = TRUE
  Isolated = FALSE
  MaxEvents = 3
  MaxCommands = 3
  MaxDelayed = 0
SPECIFICATION Spec
INVARIANTS
  SettledRingRestored
CHECK_DEADLOCK FALSE
