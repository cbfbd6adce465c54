CONSTANTS
  WriteBuffer = 0
  Writes = 2
  Crashes = 1
  PowerLosses = 1
  Errors = 1
  ReuseLogs = {TRUE, FALSE}
  LossOfDescriptor = FALSE
  None = None
SPECIFICATION Spec
INVARIANTS Openable KeepsWrites
CHECK_DEADLOCK FALSE
