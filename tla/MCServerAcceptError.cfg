SPECIFICATION Spec
CONSTANTS
  Conns = {c1, c2}
  NumIo = 1
  Workers = {w1}
  Batch = FALSE
  MaxBatch = 2
  Pipeline = 2
  Options <- KvOptions
  FrameBytes <- MCFrameBytes
  MaxConnections = 2
  HighWater = 1
  AcceptBudget = 1
  FrameBudget = 1
  MaxFrames = 0
  Mortal = {}
  Faults = {"timeout", "accept"}
INVARIANTS
  AcceptProgress
CHECK_DEADLOCK FALSE
