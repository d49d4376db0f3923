\* One handler at a time, and no more messages and devices than the limits.
CONSTANTS
  Msg = {m1, m2}
  Conn = {c1, c2, c3}
  NoConn = NoConn
  MaxConn = 3
  Limit = 2
  KeepAge = 1
  MaxAge = 3
  Overlap = FALSE
  WriteFails = FALSE
  DbFails = FALSE
  Clears = FALSE
  Restarts = FALSE
SPECIFICATION FairSpec
CHECK_DEADLOCK FALSE
INVARIANTS
  WaitingMeansOffline
PROPERTIES
  KeepsMessages
  QueueDrains
