\* Three guests come and go while an event is sent; the private channel they
\* also ask for is refused.
CONSTANTS
  chat = chat
  track_online = track_online
  private_room = private_room
  Pipe = {chat, private_room}
  Track = {}
  Private = {private_room}
  Conn = {c1, c2, c3}
  Guests = {c1, c2, c3}
  Fd = {1, 2, 3}
  Requests <- Mixed
  MaxSub = 2
  MaxAsks = 3
  Sender = {s1}
  Kicker = {}
  MaxItem = 6
  None = None
  Reuse = FALSE
SYMMETRY Symmetry
SPECIFICATION Spec
CHECK_DEADLOCK FALSE
INVARIANTS
  TypeOK
  DueServed
  NotTwice
  ListTruth
