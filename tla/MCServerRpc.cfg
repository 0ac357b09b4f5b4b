SPECIFICATION FairSpec
CONSTANTS
  Conns = {c1}
  NumIo = 1
  Workers = {w1}
  Batch = FALSE
  MaxBatch = 2
  Pipeline = 2
  Options <- RpcOptions
  FrameBytes <- MCFrameBytes
  MaxConnections = 1
  HighWater = 1
  AcceptBudget = 2
  FrameBudget = 1
  MaxFrames = 2
  Mortal = {0}
  Faults = {"stop", "error", "timeout", "malformed", "throw", "budget", "halfclose"}
INVARIANTS
  RepliesMatch
PROPERTIES
  Answered
  Stops
CHECK_DEADLOCK FALSE
