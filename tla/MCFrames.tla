----------------------------- MODULE MCFrames -----------------------------
(***************************************************************************)
(* Instances of Frames for TLC: what some clients send.                    *)
(***************************************************************************)
EXTENDS Frames

Command == [op |-> "text", known |-> TRUE, ext |-> FALSE, data |-> 1]
Long == [op |-> "text", known |-> TRUE, ext |-> TRUE, data |-> 3]
Unknown == [op |-> "text", known |-> FALSE, ext |-> FALSE, data |-> 1]
Binary == [op |-> "binary", known |-> TRUE, ext |-> FALSE, data |-> 2]
PongFrame == [op |-> "pong", known |-> FALSE, ext |-> FALSE, data |-> 1]
CloseFrame == [op |-> "close", known |-> FALSE, ext |-> FALSE, data |-> 2]

Web(frames) == [request |-> "ws", frames |-> frames]

\* Longer than the server keeps.
Huge == [op |-> "text", known |-> TRUE, ext |-> TRUE, data |-> 28]

Clients ==
  {Web(f) : f \in [1..3 -> {Command, Long, Unknown, Binary}]}
    \cup {Web(f) : f \in [1..4 -> {Command, Long}]}
    \cup {Web(<<Command, CloseFrame>>), Web(<<Command, PongFrame>>), Web(<<Huge>>),
          [request |-> "page", frames |-> <<>>], [request |-> "post", frames |-> <<>>]}
=============================================================================
