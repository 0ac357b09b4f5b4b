SPECIFICATION Spec
CONSTANTS
  Conns = {c1, c2, c3}
  NumIo = 2
  Workers = {w1}
  Batch = TRUE
  MaxBatch = 2
  Pipeline = 2
  Options <- KvOptions
  FrameBytes <- MCFrameBytes
  MaxConnections = 2
  HighWater = 1
  AcceptBudget = 1
  FrameBudget = 1
  MaxFrames = 2
  Mortal = {0}
  Faults = {"timeout"}
SYMMETRY Symmetry
INVARIANTS
  RepliesMatch
  CountsBalanced
  AcceptProgress
  ShutdownComplete
CHECK_DEADLOCK FALSE
