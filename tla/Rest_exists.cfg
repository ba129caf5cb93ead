CONSTANTS
  Operations = {"exists", "deleteUser"}
  MaxRestCalls = 2
SPECIFICATION RestSpec
INVARIANTS
  DeniedRoleIsMissing
CHECK_DEADLOCK FALSE
