SPECIFICATION Spec
CONSTANTS
  Keys = {"a", "b", "c", "d", "e"}
  Values = {"small", "big"}
  NoValue = NoValue
  Capacity = 3
  ShardCount = 2
  CacheBytes = 13
  Hash <- MCHash
  KeyBytes <- MCKeyBytes
  ValueBytes <- MCValueBytes
  EntryOverhead = 1
  Ttls = {0, 1}
  MaxTime = 2
INVARIANTS
  Accounting
  ResidentsAreMostRecent
  SnapshotRestoresOrder
