\* A subscriber of a channel that announces its subscribers is thrown out by
\* another thread.
CONSTANTS
  chat = chat
  track_online = track_online
  private_room = private_room
  Pipe = {track_online}
  Track = {track_online}
  Private = {}
  Conn = {c1, c2}
  Guests = {}
  Fd = {1, 2}
  Requests <- OneTrack
  MaxSub = 2
  MaxAsks = 2
  Sender = {}
  Kicker = {k1}
  MaxItem = 5
  None = None
  Reuse = FALSE
SPECIFICATION FairSpec
CHECK_DEADLOCK FALSE
PROPERTIES
  SendEnds
