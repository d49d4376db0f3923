\* Two threads may close one connection, and epoll may refuse one, but no
\* descriptor is used twice.
CONSTANTS
  Obj = {o1, o2, o3}
  Fd = {1, 2, 3}
  Acceptor = Acceptor
  Workers = {w1}
  Senders = {}
  Kickers = {k1}
  None = None
  Reuse = FALSE
  EpollFails = TRUE
SYMMETRY Symmetry
SPECIFICATION Spec
CHECK_DEADLOCK FALSE
INVARIANTS
  TypeOK
  FoundByClientId
  NoLeak
