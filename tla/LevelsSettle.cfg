CONSTANTS
  Keys = {1, 2}
  NumLevels = 4
  MaxMemCompactLevel = 2
  CompactionTrigger = 2
  MaxFileSize = 1
  GrandParentFactor = 1
  ExpansionFactor = 4
  LevelOneSize = 1
  LevelFactor = 2
  MaxSequenceNumber = 9
  InitialSeeks = 1
  None = None
  Readers = {r1}
  Types = {"value"}
  WriteBufferSize = 1
  Writes = 3
  Reads = 2
  Snapshots = 0
  RangeCalls <- AllRange
SPECIFICATION FairSpec
INVARIANT PinnedFilesExist
PROPERTY SettlesDown
CHECK_DEADLOCK FALSE
