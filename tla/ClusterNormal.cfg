\* Two nodes that fail, a proxy and clients of a node that send.
CONSTANTS
  n1 = n1
  n2 = n2
  p = p
  q = q
  j = j
  k = k
  Thread <- Threads
  Node = {n1, n2}
  proxyCluster <- Nodes
  wsCluster <- Others
  Sender = {p, q, j}
  Place <- Places
  Proxy = Proxy
  Conn = {j, k}
  Home <- Homes
  Scripts <- Talks
  MaxFaults = 2
SPECIFICATION FairSpec
CHECK_DEADLOCK FALSE
INVARIANTS
  TypeOK
  Reached
  AsSent
  OneNode
  CountIsTrue
  DirectKept
PROPERTY
  AllServed
