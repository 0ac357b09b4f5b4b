SPECIFICATION FairSpec
CONSTANTS
  Posters = {p1}
  Fds = {f1}
  MaxEvents = 2
  MaxTasks = 2
  MaxIds = 2
  MaxTime = 1
INVARIANTS
  NoLostWakeup
  PostedInOrder
  NoStaleEvent
PROPERTIES
  DueFires
  StopReturns
CHECK_DEADLOCK FALSE
