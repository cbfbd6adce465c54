CONSTANTS
  DigitBits = 4
  Size32 = 2
  Size64 = 4
  BytesHeader = 1
  MaxRequired = 64
  Null = Null
  MaxMessages = 2
  NewTag = 40
  Kinds <- MCKinds
  Schemas <- MCSchemas
  CacheFiles = {1, 2, 3}
  Readers = {r1, r2}
  ShardOf <- MCShardOf
  Capacity = 1
  Mmaps = 1
  Fds = 1
  MaxEntry = 2
  BlockSize = 16
  Align = 4
  PointerSize = 1
  Requests = {1, 3, 4, 5, 17}
  MaxAllocations = 5
SPECIFICATION Spec
PROPERTY MessagesKept
INVARIANTS
  TablesMean ShowsSnapshot Recovered SyncedStays LocksHold
  CacheIsMap HandlesAlive CodesMean MemoryKept FreedOnce
CHECK_DEADLOCK FALSE
