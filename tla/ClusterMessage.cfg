\* A message for a user through the proxy, while nothing fails.
CONSTANTS
  n1 = n1
  n2 = n2
  p = p
  q = q
  j = j
  k = k
  Thread <- Threads
  Node = {n1, n2}
  proxyCluster <- Nodes
  wsCluster <- Others
  Sender = {p, q, j}
  Place <- Places
  Proxy = Proxy
  Conn = {j, k}
  Home <- Homes
  Scripts <- ToOne
  MaxFaults = 0
SPECIFICATION Spec
CHECK_DEADLOCK FALSE
INVARIANT
  UserMessageKept
