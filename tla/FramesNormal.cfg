\* What the clients send is cut into pieces everywhere but at the line ends of
\* the request.
CONSTANTS
  Script <- Clients
  BufSize = 12
  Slack = 1
  OtherSizes = {2, 30}
  MaxFragment = 24
  LineCuts = FALSE
  Breaks = TRUE
SPECIFICATION FairSpec
CHECK_DEADLOCK FALSE
INVARIANTS
  TypeOK
  InOrder
  ArrivedExecuted
  InnocentStays
PROPERTY
  AllExecuted
