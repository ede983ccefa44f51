CONSTANTS
  Pdus <- MCPdus
  ERPS_RAPS_BURST = 1
  Flapping = {1}
  Timer = Timer
  NoItem = NoItem
SPECIFICATION Spec
INVARIANTS
  TypeOK
  ScheduledPortsTransmit
