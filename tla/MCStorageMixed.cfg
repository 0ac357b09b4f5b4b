SPECIFICATION Spec
CONSTANTS
  Keys = {"a", "b"}
  Values = {"v", "w", "huge"}
  NoValue = NoValue
  NoKey = NoKey
  EmptyValue = EmptyValue
  Capacity = 2
  ShardCount = 2
  CacheBytes = 4
  Hash <- TwoShards
  KeyBytes <- MCKeyBytes
  ValueBytes <- MCValueBytes
  EntryOverhead = 1
  MaxBytes = 5
  HeaderBytes = 1
  WrapperBytes = 1
  TtlBytes = 0
  Workload <- MixedWorkload
  MaxTtl = 2
  MaxBatch = 2
  MaxTime = 2
  InitialLogs <- LegacyLogs
  Crashes = {"power"}
INVARIANTS
  LogWithinLimit
  BatchSerialOrder
  AnswersReflectLog
PROPERTIES
  CapacityErrorsDoNotPoison
