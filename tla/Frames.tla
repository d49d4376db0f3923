------------------------------ MODULE Frames ------------------------------
(***************************************************************************)
(* What a connection of the JS API makes of the bytes it reads             *)
(* (Client_connection.cpp: request, web_socket_request and                 *)
(* web_socket_request_message; tcpServer.cpp: handle_message): the HTTP    *)
(* request and then the frames of the commands arrive in whatever pieces   *)
(* the network makes of them, cut in the middle or glued together.         *)
(*                                                                         *)
(* The stream is a sequence of units <<part, frame>>.  A frame is its      *)
(* opcode, the length, `ext' if the length takes more than a byte, and the *)
(* masked data; each of its commands is one of Script's frames.  An HTTP   *)
(* request consists of lines and line ends.  One call of read, or one      *)
(* frame of what has been read, is one action.                             *)
(***************************************************************************)
EXTENDS Integers, Sequences, SequencesExt

CONSTANTS
  Script,       \* what a client may send: [request, frames]
  BufSize,      \* size of the buffer of a thread at first (main/buf_size)
  Slack,        \* what is added to the size of what is assembled (100)
  OtherSizes,   \* what other connections of the thread leave as its size
  MaxFragment,  \* main/fragment_buf_max_size
  LineCuts,     \* may the request be cut exactly at the end of a line?
  Breaks        \* may the connection break or be given up by the client?

ASSUME FramesAssumption ==
  /\ {BufSize, MaxFragment} \cup OtherSizes \subseteq Nat \ {0}
  /\ Slack \in Nat
  /\ {LineCuts, Breaks} \subseteq BOOLEAN
  /\ Script \subseteq
       [request : {"ws", "page", "post"},
        frames  : Seq([op : {"text", "binary", "pong", "close"}, known : BOOLEAN,
                       ext : BOOLEAN, data : Nat \ {0}])]

VARIABLES
  script,          \* what this client sends
  wire,            \* the units that have not been read
  buf,             \* the buffer of the thread that handles the connection
  data_size,       \* its nominal size: the most that the next read brings
  start_position,  \* how much of it has been handled
  fragment_buf,    \* what is kept until the rest arrives; <<>> when unlocked
  connection_type, \* "WS" when the request for a web socket has been read, else "NULL"
  answer,          \* the answer to the request
  executed,        \* the data of the commands that were executed
  state            \* "open", or who closed the connection

vars == <<script, wire, buf, data_size, start_position, fragment_buf, connection_type,
          answer, executed, state>>

-----------------------------------------------------------------------------
\* The stream of a script

Line == <<"line", 0>>
Key == <<"key", 0>>
Eol == <<"eol", 0>>
Post == <<"post", 0>>

RequestUnits(s) ==
  CASE s.request = "ws"   -> <<Line, Eol, Key, Eol, Eol>>
    [] s.request = "page" -> <<Line, Eol, Eol>>
    [] s.request = "post" -> <<Post, Eol, Line>>

Data(s, i) == [k \in 1..s.frames[i].data |-> <<"data", i>>]

FrameUnits(s, i) ==
  <<<<s.frames[i].op, i>>, <<"len", i>>>>
    \o (IF s.frames[i].ext THEN <<<<"ext", i>>>> ELSE <<>>)
    \o Data(s, i)

Stream(s) ==
  RequestUnits(s) \o FlattenSeq([i \in DOMAIN s.frames |-> FrameUnits(s, i)])

Unit ==
  {Line, Key, Eol, Post}
    \cup UNION {{"text", "binary", "pong", "close", "zero", "len", "ext", "data"}
                  \X DOMAIN s.frames : s \in Script}

\* The types; what has been read and assembled lies within the buffer, whose size
\* is changed by every connection of the thread.
TypeOK ==
  /\ script \in Script
  /\ IsSuffix(wire, Stream(script))
  /\ {buf, fragment_buf} \subseteq Seq(Unit)
  /\ data_size \in Nat \ {0} /\ Len(buf) <= data_size
  /\ start_position \in 0..Len(buf)
  /\ connection_type \in {"NULL", "WS"}
  /\ answer \in {"none", "101", "200", "404"}
  /\ executed \in Seq(Seq(Unit))
  /\ state \in {"open", "server", "client"}

Init ==
  /\ script \in Script
  /\ wire = Stream(script)
  /\ buf = <<>>
  /\ data_size = BufSize
  /\ start_position = 0
  /\ fragment_buf = <<>>
  /\ connection_type = "NULL"
  /\ answer = "none"
  /\ executed = <<>>
  /\ state = "open"

Waits == state = "open" /\ buf = <<>>

\* deleteClient
Close(who) ==
  /\ state' = who
  /\ connection_type' = "NULL"
  /\ buf' = <<>>
  /\ start_position' = 0
  /\ UNCHANGED <<script, fragment_buf, executed>>

\* The thread is done with what it has read.
Done ==
  /\ buf' = <<>>
  /\ start_position' = 0
  /\ UNCHANGED <<script, wire, data_size, connection_type, answer, state>>

-----------------------------------------------------------------------------
\* The HTTP request

\* The client sends no frame before the answer.
Sent(n) ==
  /\ n <= Len(wire)
  /\ answer = "none" => wire[n][2] = 0
  /\ LineCuts \/ wire[n] # Eol \/ \A k \in n + 1..Len(wire) : wire[k][2] # 0

\* What has been kept, and what is read now.
Assembled(n) == fragment_buf \o SubSeq(wire, 1, n)

\* Fault: the buffer gets the size of what is read, without what was kept.
SetSizeOfRead(n) == data_size' = IF fragment_buf = <<>> THEN data_size ELSE n + Slack

\* The buffer gets the size of what is put together in it, and some more.  The size
\* stays when that has been handled, for the next read of any connection.
SetSize(n) ==
  data_size' = IF fragment_buf = <<>> THEN data_size ELSE Len(fragment_buf) + n + Slack

\* Every request but POST ends with a line end.
Incomplete(request) == Last(request) # Eol /\ Head(request) # Post

HasKey(request) ==
  \E i \in 1..Len(request) - 1 : request[i] = Key /\ request[i + 1] = Eol

\* request: the first of them, until it has a type
Request(n) ==
  /\ Waits /\ connection_type = "NULL"
  /\ Sent(n)
  /\ wire' = SubSeq(wire, n + 1, Len(wire))
  /\ SetSize(n)
  /\ LET request == Assembled(n) IN
     IF Incomplete(request)
     THEN /\ fragment_buf' = request
          /\ UNCHANGED <<script, buf, start_position, connection_type, answer, executed, state>>
     ELSE IF script.request = "ws" /\ HasKey(request)
     THEN /\ connection_type' = "WS"
          /\ answer' = "101"
          /\ fragment_buf' = <<>>
          /\ UNCHANGED <<script, buf, start_position, executed, state>>
     ELSE /\ answer' = CASE script.request = "page" -> "200"
                         [] script.request = "post" -> "404"
                         [] OTHER -> "none"
          /\ Close("server")

-----------------------------------------------------------------------------
\* Frames

\* web_socket_request_message: a read on an open web socket
Message(n) ==
  /\ Waits /\ connection_type = "WS"
  /\ Sent(n)
  /\ wire' = SubSeq(wire, n + 1, Len(wire))
  /\ IF fragment_buf # <<>> /\ Len(fragment_buf) + n >= MaxFragment
     THEN Close("server") /\ UNCHANGED data_size
     ELSE /\ buf' = Assembled(n)
          /\ SetSize(n)
          /\ fragment_buf' = <<>>
          /\ UNCHANGED <<script, start_position, connection_type, executed, state>>
  /\ UNCHANGED answer

len == Len(buf) - start_position

\* The unit at p[k], and zero behind what has been read.
p(k) == IF start_position + k < Len(buf) THEN buf[start_position + k + 1] ELSE <<"zero", 0>>

Ext == p(1)[1] = "len" /\ script.frames[p(1)[2]].ext
delta_len == IF Ext THEN 3 ELSE 2
msg_data_len == script.frames[p(1)[2]].data
Following == p(delta_len + msg_data_len)

\* Fault: no frame may follow a text frame.
StartsFrameTyped == p(0)[1] \in {"text", "binary"}

\* An opcode, or the zero that the end of the last command has put in its place.
StartsFrame == p(0)[1] \in {"text", "binary", "zero"}

\* Fault: a frame is complete only when something follows it.
ArrivedLate ==
  /\ len > 1
  /\ Ext => len > 2
  /\ len > delta_len + msg_data_len

\* The frame at start_position is complete.
Arrived ==
  /\ len > 1
  /\ Ext => len > 2
  /\ len >= delta_len + msg_data_len

Handling == state = "open" /\ buf # <<>>

Pong ==
  /\ Handling /\ p(0)[1] = "pong"
  /\ Done
  /\ UNCHANGED <<fragment_buf, executed>>

\* A close frame, or what is none.
Bad ==
  /\ Handling /\ p(0)[1] # "pong" /\ ~StartsFrame
  /\ Close("server")
  /\ UNCHANGED <<wire, answer, data_size>>

\* Fault: the fragment is taken from the beginning of the buffer.
KeepFirst ==
  /\ Handling /\ StartsFrame /\ ~Arrived
  /\ fragment_buf' = SubSeq(buf, 1, len)
  /\ Done
  /\ UNCHANGED executed

Keep ==
  /\ Handling /\ StartsFrame /\ ~Arrived
  /\ fragment_buf' = SubSeq(buf, start_position + 1, Len(buf))
  /\ Done
  /\ UNCHANGED executed

\* An undefined command, or one whose handler refuses it.
Refuse ==
  /\ Handling /\ StartsFrame /\ Arrived
  /\ ~script.frames[p(1)[2]].known
  /\ Close("server")
  /\ UNCHANGED <<wire, answer, data_size>>

\* Nothing is expected behind a binary frame but another one.
nextCommandIsEof == p(0)[1] = "binary" /\ Following[1] # "binary"

\* Fault: what is glued to a command is lost.
ExecuteOne ==
  /\ Handling /\ StartsFrame /\ Arrived
  /\ script.frames[p(1)[2]].known
  /\ executed' = Append(executed, [k \in 1..msg_data_len |-> p(delta_len + k - 1)])
  /\ Done
  /\ UNCHANGED fragment_buf

\* A command is executed, and the frame glued to it is next.  The zero that ends
\* the data is written over the opcode of that frame.
Execute ==
  /\ Handling /\ StartsFrame /\ Arrived
  /\ script.frames[p(1)[2]].known
  /\ executed' = Append(executed, [k \in 1..msg_data_len |-> p(delta_len + k - 1)])
  /\ LET end == start_position + delta_len + msg_data_len
         goesOn == ~nextCommandIsEof /\ end < Len(buf)
     IN  /\ start_position' = IF goesOn THEN end ELSE 0
         /\ buf' = IF goesOn THEN [buf EXCEPT ![end + 1][1] = "zero"] ELSE <<>>
  /\ state' = IF nextCommandIsEof THEN "server" ELSE "open"
  /\ connection_type' = IF nextCommandIsEof THEN "NULL" ELSE "WS"
  /\ UNCHANGED <<script, wire, data_size, fragment_buf, answer>>

Handle == Pong \/ Bad \/ Keep \/ Refuse \/ Execute

\* The client closes, or the connection fails.
Break ==
  /\ Breaks /\ Waits
  /\ Close("client")
  /\ UNCHANGED <<wire, answer, data_size>>

Read == \E n \in 1..data_size : Request(n) \/ Message(n)

\* The thread assembles what another of its connections has sent.
Others ==
  /\ Waits
  /\ data_size' \in OtherSizes
  /\ UNCHANGED <<script, wire, buf, start_position, fragment_buf, connection_type,
                 answer, executed, state>>

Next == Read \/ Handle \/ Break \/ Others

Spec == Init /\ [][Next]_vars

\* epoll reports a descriptor as long as there is something to read, and a
\* thread that has read goes on to the end of what it has read.
FairSpec == Spec /\ WF_vars(Read) /\ WF_vars(Handle)

-----------------------------------------------------------------------------
\* Properties

\* The frames that carry commands, and their data.
Carriers ==
  LET upTo[i \in 0..Len(script.frames)] ==
        IF i = 0 THEN <<>>
        ELSE IF script.frames[i].op \in {"text", "binary"} THEN Append(upTo[i - 1], i)
        ELSE upTo[i - 1]
  IN  upTo[Len(script.frames)]
Commands == [k \in DOMAIN Carriers |-> Data(script, Carriers[k])]

\* A client that sends nothing but commands in text frames, in all less than
\* what the server would keep.
Innocent ==
  /\ script.request = "ws"
  /\ Len(Stream(script)) < MaxFragment
  /\ \A i \in DOMAIN script.frames : script.frames[i].op = "text" /\ script.frames[i].known

\* Frames that have been read, up to frame i.
ReadUpTo(i) == \A k \in DOMAIN wire : wire[k][2] > i

\* The commands are executed in the order they were sent, none twice and each
\* with its own data, wherever the stream is cut.
InOrder == IsPrefix(executed, Commands)

\* Messages that come glued together are all handled (comment of
\* web_socket_request_message): while the connection is open and its thread
\* waits, no command that has arrived in full is left undone.
ArrivedExecuted ==
  Waits => \A k \in DOMAIN Carriers : ReadUpTo(Carriers[k]) => k <= Len(executed)

\* A client that does nothing wrong is not thrown out, however the request and
\* the frames are cut.
InnocentStays == Innocent => state # "server"

\* Every client is served to the end: all its commands are executed, or the
\* connection is closed, which is how a page ends.
AllExecuted == <>(state # "open" \/ executed = Commands)
=============================================================================
