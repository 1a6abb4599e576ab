SPECIFICATION Spec
CONSTANTS
  Modes = {"connect"}
  Routes = {"direct"}
  MaxUp = 1
  MaxDown = 1
  Window = 1
INVARIANT CountsExact
CHECK_DEADLOCK FALSE
