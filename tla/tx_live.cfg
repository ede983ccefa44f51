CONSTANTS
  Pdus <- MCPdus
  ERPS_RAPS_BURST = 1
  Flapping = {}
  Timer = Timer
  NoItem = NoItem
SPECIFICATION FairSpec
PROPERTIES
  CallsComplete
  CurrentPduSent
