\* Accepting, reading and sending at the same time; nobody is thrown out.
CONSTANTS
  Obj = {o1, o2, o3}
  Fd = {1, 2}
  Acceptor = Acceptor
  Workers = {w1, w2}
  Senders = {s1}
  Kickers = {}
  None = None
  Reuse = TRUE
  EpollFails = FALSE
SYMMETRY Symmetry
SPECIFICATION Spec
CHECK_DEADLOCK FALSE
INVARIANTS
  MapTruth
  EventsLive
  RegisteredIsOpen
