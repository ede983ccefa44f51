CONSTANTS
  ERPS_RAPS_BURST = 0
  Roles = {"owner", "nbr", "none"}
  Revertives = {TRUE, FALSE}
  OwnId = 2
  RapsVer = 2
  RapsPdus <- MCPdus
  SingleOwner = TRUE
  Faults <- MCFaultless
SPECIFICATION Spec
PROPERTIES
  LostLinkFailed
