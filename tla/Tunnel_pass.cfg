SPECIFICATION FairSpec
CONSTANTS
  Modes = {"connect", "plain"}
  Routes = {"direct", "http"}
  MaxUp = 2
  MaxDown = 1
  Window = 1
INVARIANTS TypeOK InOrder EofMeansDelivered IdleTunnelSurvives
PROPERTIES CopiersEnd ClosingEnds
CHECK_DEADLOCK FALSE
