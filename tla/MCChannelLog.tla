--------------------------- MODULE MCChannelLog ---------------------------
(***************************************************************************)
(* Instances of ChannelLog for TLC: two connections that send to the       *)
(* channel, q1 and q2, and a client of the JS API, j, that shares the      *)
(* thread of q2.                                                           *)
(***************************************************************************)
EXTENDS ChannelLog, TLC

CONSTANTS t1, t2, q1, q2, j

Shared == q1 :> t1 @@ q2 :> t2 @@ j :> t2

Op(o) == [op |-> o]
Setting(n) == [op |-> "setting", length |-> n]

Script(len, one, two, js) ==
  [length |-> len, commands |-> q1 :> one @@ q2 :> two @@ j :> js]

Message == Op("message")
Reads == <<Op("subscribe"), Op("get_log")>>

Talks == {
  Script(1, <<Message, Message>>, <<>>, Reads),
  Script(1, <<Message>>, <<Message>>, Reads),
  Script(2, <<Message, Message>>, <<Message>>, <<>>),
  Script(2, <<Message, Message>>, <<Setting(1), Message>>, <<>>),
  Script(1, <<Message>>, <<Setting(0), Message>>, <<>>),
  Script(0, <<Message, Message>>, <<Setting(1)>>, <<>>),
  Script(1, <<Op("unset")>>, <<Message, Op("select")>>, <<>>),
  Script(1, <<Op("unset")>>, <<Setting(1), Message>>, <<>>),
  Script(1, <<Message>>, <<Op("clear")>>, <<Op("subscribe"), Op("pipe_msg")>>)
}

\* More messages than one select reads.
LongLog == {Script(2, <<Message, Message>>, <<>>, Reads)}
=============================================================================
