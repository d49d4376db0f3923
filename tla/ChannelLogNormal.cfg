\* Two threads write and read the log of a channel while links fail.
CONSTANTS
  t1 = t1
  t2 = t2
  q1 = q1
  q2 = q2
  j = j
  Thread = {t1, t2}
  Conn = {q1, q2, j}
  ThreadOf <- Shared
  Scripts <- Talks
  SelectLimit = 4
  TrimLimit = 1
  None = None
  MaxFaults = 2
  MaxClock = 1
SPECIFICATION FairSpec
CHECK_DEADLOCK FALSE
INVARIANTS
  TypeOK
  LogKept
  NoGap
  NoOrphans
  CallsAreTrue
PROPERTY
  AllServed
