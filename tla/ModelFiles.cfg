SPECIFICATION Spec
CONSTANTS
  Models <- MCModels
  Rounds = 3
CHECK_DEADLOCK FALSE
INVARIANTS ModelKept FileAccepted
