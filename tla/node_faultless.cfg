CONSTANTS
  ERPS_RAPS_BURST = 1
  Roles = {"owner", "nbr", "none"}
  Revertives = {TRUE, FALSE}
  OwnId = 2
  RapsVer = 2
  RapsPdus <- MCPdus
  SingleOwner = TRUE
  Faults <- MCFaultless
SPECIFICATION FairSpec
INVARIANTS
  TypeOK
  ReversionArmed
  IdleRingShape
  OwnerAnnouncesRplBlocked
  OnlyOwnerAnnouncesRb
  ForcedSwitchInForce
  SignalFailAdvertised
  BlockedPortAdvertised
PROPERTIES
  ForcedSwitchEndsByClear
  RevertsEventually
  ServiceProvided
