\* Everything at once: handlers overlap, writes and statements fail, the process
\* restarts.
CONSTANTS
  Msg = {m1, m2}
  Conn = {c1, c2, c3}
  NoConn = NoConn
  MaxConn = 2
  Limit = 2
  KeepAge = 1
  MaxAge = 3
  Overlap = TRUE
  WriteFails = TRUE
  DbFails = TRUE
  Clears = TRUE
  Restarts = TRUE
SYMMETRY Symmetry
SPECIFICATION Spec
CHECK_DEADLOCK FALSE
INVARIANTS
  TypeOK
  OncePerConnection
  QueuedBeforeLive
  LiveNotQueued
