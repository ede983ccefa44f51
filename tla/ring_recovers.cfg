CONSTANTS
  ERPS_RAPS_BURST = 0
  N = 3
  Ids <- OwnerLowestOrHighest
  Revertive = TRUE
  InitialLinks <- AtMostOneDark
  Commands <- NoOwnerClear
  Transparent = FALSE
  Lossless = TRUE
  Isolated = TRUE
  MaxEvents = 4
  MaxCommands = 2
  MaxDelayed = 0
SPECIFICATION FairSpec
INVARIANTS
  SettledRingRestored
PROPERTIES
  RecoversEventually
CHECK_DEADLOCK FALSE
