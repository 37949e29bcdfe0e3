SPECIFICATION Spec
CONSTANTS
  Keys <- MCKeys
  DataSets <- MCDataSets
  Built = built
  Inserted = inserted
  NoModel = NoModel
  Order = 2
  FlushFactor = 1
  L1Size = 2
  Epsilon = 1
  EpsilonRecursive = 1
  Sentinel = 45
  FlushMin = 1
  FlushShare = 2
  MaxInserts = 3
  InsertKeys = {27, 45}
CHECK_DEADLOCK FALSE
INVARIANTS TypeOK NothingLost StoredIsFound PgmWindowExact PgmSegmentsLongest
