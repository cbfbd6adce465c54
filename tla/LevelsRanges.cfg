CONSTANTS
  Keys = {1, 2, 3}
  NumLevels = 4
  MaxMemCompactLevel = 2
  CompactionTrigger = 2
  MaxFileSize = 2
  GrandParentFactor = 1
  ExpansionFactor = 4
  LevelOneSize = 4
  LevelFactor = 2
  MaxSequenceNumber = 9
  InitialSeeks = 9
  None = None
  Readers = {}
  Types = {"value"}
  WriteBufferSize = 1
  Writes = 6
  Reads = 0
  Snapshots = 0
  RangeCalls <- AllRange
SPECIFICATION Spec
INVARIANT LevelsDisjoint
CHECK_DEADLOCK FALSE
