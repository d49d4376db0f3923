\* A log that is longer than what one select reads.
CONSTANTS
  t1 = t1
  t2 = t2
  q1 = q1
  q2 = q2
  j = j
  Thread = {t1, t2}
  Conn = {q1, q2, j}
  ThreadOf <- Shared
  Scripts <- LongLog
  SelectLimit = 1
  TrimLimit = 1
  None = None
  MaxFaults = 0
  MaxClock = 1
SPECIFICATION Spec
CHECK_DEADLOCK FALSE
INVARIANT
  NoGap
