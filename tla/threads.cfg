CONSTANTS
  ERPS_RAPS_BURST = 0
  OwnId = 1
  PeerId = 2
  Remote <- MCRemote
  Commands <- MCCommands
  Flapping = {0}
  NoItem = NoItem
SPECIFICATION FairSpec
INVARIANTS
  TypeOK
  TimersOnlyWhileReverting
  TopRequestTimed
PROPERTIES
  WaitEnds
