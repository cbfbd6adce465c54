CONSTANTS
  Keys = {1, 2}
  NumLevels = 4
  MaxMemCompactLevel = 2
  CompactionTrigger = 2
  MaxFileSize = 1
  GrandParentFactor = 1
  ExpansionFactor = 4
  LevelOneSize = 1
  LevelFactor = 2
  MaxSequenceNumber = 9
  InitialSeeks = 9
  None = None
  Readers = {}
  Types = {"value", "deletion"}
  WriteBufferSize = 2
  Writes = 5
  Reads = 0
  Snapshots = 1
  RangeCalls = {}
SPECIFICATION Spec
INVARIANTS LevelsDisjoint SizesMean
PROPERTY KeepsContract
CHECK_DEADLOCK FALSE
