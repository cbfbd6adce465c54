CONSTANTS
  WriteBuffer = 0
  Writes = 2
  Crashes = 1
  PowerLosses = 1
  Errors = 0
  ReuseLogs = {TRUE, FALSE}
  LossOfDescriptor = TRUE
  None = None
SPECIFICATION Spec
INVARIANT KeepsAcknowledged
CHECK_DEADLOCK FALSE
