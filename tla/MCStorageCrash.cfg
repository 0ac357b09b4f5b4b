SPECIFICATION Spec
CONSTANTS
  Keys = {"a", "b"}
  Values = {"v", "w", "huge"}
  NoValue = NoValue
  NoKey = NoKey
  EmptyValue = EmptyValue
  Capacity = 1
  ShardCount = 1
  CacheBytes = 4
  Hash <- OneShard
  KeyBytes <- MCKeyBytes
  ValueBytes <- MCValueBytes
  EntryOverhead = 1
  MaxBytes = 6
  HeaderBytes = 1
  WrapperBytes = 1
  TtlBytes = 1
  Workload <- EvictionWorkload
  MaxTtl = 2
  MaxBatch = 2
  MaxTime = 2
  InitialLogs <- NewLog
  Crashes = {"kill", "power"}
INVARIANTS
  VisibleInLog
  AckedMutationsSurvive
  SnapshotFits
  NothingBehindTorn
PROPERTIES
  KeepsPromise
