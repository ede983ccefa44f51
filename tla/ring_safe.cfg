CONSTANTS
  ERPS_RAPS_BURST = 0
  N = 3
  Ids <- OwnerLowest
  Revertive = TRUE
  InitialLinks <- AllLit
  Commands <- OneSwitchPerNode
  Transparent = FALSE
  Lossless = FALSE
  Isolated = FALSE
  MaxEvents = 3
  MaxCommands = 2
  MaxDelayed = 1
SPECIFICATION Spec
INVARIANTS
  TypeOK
  LoopNeedsStalePdu
  LoopOpensRpl
  OwnerUnrivalled
  FailureHeals
CHECK_DEADLOCK FALSE
