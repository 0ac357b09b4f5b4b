SPECIFICATION Spec
CONSTANTS
  a = a
  b = b
  c = c
  Ids = {a, b, c}
  NumSockets = 2
  Protocols = {TRUE}
  MaxInflight = 2
  QueueCapacity = 3
  QueueBytes = 3
  Weight <- MCWeight
  Faults = {"close", "invalid", "refused"}
  NoId = NoId
SYMMETRY Symmetry
INVARIANTS
  CompletedOnce
  CountersExact
  RepliesExpected
CHECK_DEADLOCK FALSE
