CONSTANTS
  ERPS_RAPS_BURST = 0
  Roles = {"owner"}
  Revertives = {TRUE}
  OwnId = 2
  RapsVer = 2
  RapsPdus <- MCHighPdus
  SingleOwner = TRUE
  Faults <- MCFaults
SPECIFICATION Spec
INVARIANTS
  TimersOnlyWhileReverting
  PortsInSync
  IdleOwnerCutsRing
PROPERTIES
  PeersFlushWithNode
  NewBlockFlushes
  DisarmedByFailureOnly
