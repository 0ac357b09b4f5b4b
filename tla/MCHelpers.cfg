SPECIFICATION HelpersSpec
CONSTANTS
  Tasks = {t1, t2, t3}
  Workers = {w1, w2}
  Capacity = 2
  NoTask = NoTask
  Threads = {u1, u2, u3, u4}
  Conns = {c1, c2}
  NoConn = NoConn
INVARIANTS
  DestructionDrains
  NoLostNotification
  LeasedOnce
  WaitersAreTold
PROPERTIES
  StopReturns
CHECK_DEADLOCK FALSE
