SPECIFICATION FairSpec
CONSTANTS
  a = a
  b = b
  c = c
  Ids = {a, b}
  NumSockets = 1
  Protocols = {TRUE, FALSE}
  MaxInflight = 1
  QueueCapacity = 2
  QueueBytes = 3
  Weight <- MCWeight
  Faults = {"close", "malformed", "invalid", "refused", "budget"}
  NoId = NoId
INVARIANTS
  Correlated
  NoneStranded
PROPERTIES
  Completes
  DestructorReturns
CHECK_DEADLOCK FALSE
