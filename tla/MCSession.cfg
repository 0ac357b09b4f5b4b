SPECIFICATION Spec
CONSTANTS
  Base = 2
  LengthBytes = 2
  IdBytes = 2
  MAX_KEY_SIZE = 1
  MAX_VALUE_SIZE = 2
  Envelope = 1
  Protocols = {"rpc", "kv", "raw"}
  Limits <- SessionLimits
  Rpcs <- SessionRpcs
  Kvs <- SessionKvs
  Methods <- SessionMethods
  Returns <- SessionReturns
  Stored <- SessionStored
  Storable = 1
  MaxInflight = 2
  Pipeline = 2
  MaxCalls <- SessionCalls
  MaxCuts = 1
CHECK_DEADLOCK FALSE
INVARIANTS
  FramesIntact
  OwnResult
  FailsForAReason
  NoCallStranded
