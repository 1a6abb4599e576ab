SPECIFICATION Spec
CONSTANTS
  Modes = {"connect"}
  Routes = {"http"}
  MaxUp = 0
  MaxDown = 2
  Window = 1
INVARIANT UpstreamKeepsBytes
CHECK_DEADLOCK FALSE
