\* No more connections than slots, with restarts and failing statements.
CONSTANTS
  User = {u1, u2, u3}
  NoUser = NoUser
  Conn = {1, 2, 3}
  MaxConn = 3
  MaxMap = 1
  SaveTime = TRUE
  Cluster = FALSE
  DbFails = TRUE
  Restarts = TRUE
SYMMETRY UserSymmetry
SPECIFICATION Spec
INVARIANTS
  EveryDeviceRegistered
  StatusTruth
  TypeOK
  RegisteredIsOnline
