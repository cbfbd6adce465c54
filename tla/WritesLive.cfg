SPECIFICATION MCSpec
CONSTANTS
  Threads = {t1, t2}
  Requests <- AllRequests
  Calls = 2
  WriteBufferSize = 0
  MaxGroup = 2
  CompactionTrigger = 1
  SlowdownTrigger = 1
  StopTrigger = 2
  Failures = 1
  None = None
  r1 = r1
INVARIANTS
  WritesKept
  FailsAfterError
  ReadsMemtable
PROPERTIES
  NothingLate
  AllReturn
CHECK_DEADLOCK FALSE
