------------------------------ MODULE Delivery ------------------------------
(***************************************************************************)
(* Messages to one user: the handlers of `insert into users_messages'      *)
(* (MySql_connection.cpp, internalApi.cpp), the login of the user's        *)
(* devices over websockets and their disconnection (Client_connection.cpp, *)
(* tcpServer.cpp), and the table users_messages that keeps a message until *)
(* the user is online.                                                     *)
(*                                                                         *)
(* The handlers run on different threads and share the user's table of     *)
(* connections, which the sender reads slot by slot without a lock, the    *)
(* map of open connections, and the SQL table.  One access to a slot, one  *)
(* write to a socket or one SQL statement is one action.                   *)
(*                                                                         *)
(* Time is counted by the second, as the code does: a queued message has   *)
(* an age, 0 during the second in which it was stored.  Of two messages    *)
(* stored in different seconds the history variable `earlier' remembers    *)
(* which was the first.                                                    *)
(***************************************************************************)
EXTENDS Integers, FiniteSets, Sequences, SequencesExt

CONSTANTS
  Msg,        \* the messages that are sent, each once
  Conn,       \* the user's connections, each opened once
  NoConn,     \* an empty slot
  MaxConn,    \* MAX_CONECTION_ON_USER_ID
  Limit,      \* how many queued messages a login reads: 10
  KeepAge,    \* age beyond which a message is thrown away: 120 seconds
  MaxAge,     \* bound on the age at which the interval loop has come round
  Overlap,    \* may requests be handled at the same time?
  WriteFails, \* may a write to the socket of an open connection fail?
  DbFails,    \* may a statement on users_messages fail?
  Clears,     \* does the application issue `delete from users_messages'?
  Restarts    \* may the process stop and start again?

ASSUME DeliveryAssumption ==
  /\ NoConn \notin Conn
  /\ IsFiniteSet(Msg)
  /\ {MaxConn, Limit} \subseteq Nat \ {0}
  /\ {KeepAge, MaxAge} \subseteq Nat
  /\ KeepAge < MaxAge
  /\ {Overlap, WriteFails, DbFails, Clears, Restarts} \subseteq BOOLEAN

VARIABLES
  sender,  \* [Msg -> where the handler that sends it is]
  next,    \* [Msg -> the slot the handler looks at next]
  isSend,  \* [Msg -> was a write to some connection successful?]
  device,  \* [Conn -> where the life of the connection is]
  batch,   \* [Conn -> queued messages its login has read and not yet written]
  slots,   \* conection_ids of the user
  age,     \* [Msg -> age of its row in users_messages, NotQueued without one]
  earlier, \* <<a, b>>: a was stored in an earlier second than b
  got      \* [Conn -> what was written to it, in order]

senderVars == <<sender, next, isSend>>
deviceVars == <<device, batch>>
queueVars == <<age, earlier>>
vars == <<sender, next, isSend, device, batch, slots, age, earlier, got>>

NotQueued == -1
Slot == 1..MaxConn
Queue == {m \in Msg : age[m] # NotQueued}

TypeOK ==
  /\ sender \in [Msg -> {"new", "send", "save", "done", "failed"}]
  /\ next \in [Msg -> 1..MaxConn + 1]
  /\ isSend \in [Msg -> BOOLEAN]
  /\ device \in [Conn -> {"new", "login", "link", "on", "leaving", "off"}]
  /\ batch \in [Conn -> Seq(Msg)]
  /\ slots \in [Slot -> Conn \cup {NoConn}]
  /\ age \in [Msg -> NotQueued..MaxAge]
  /\ earlier \subseteq Msg \X Msg
  /\ got \in [Conn -> Seq([msg : Msg, fromQueue : BOOLEAN])]

Init ==
  /\ sender = [m \in Msg |-> "new"]
  /\ next = [m \in Msg |-> 1]
  /\ isSend = [m \in Msg |-> FALSE]
  /\ device = [c \in Conn |-> "new"]
  /\ batch = [c \in Conn |-> <<>>]
  /\ slots = [i \in Slot |-> NoConn]
  /\ age = [m \in Msg |-> NotQueued]
  /\ earlier = {}
  /\ got = [c \in Conn |-> <<>>]

\* A handler starts while no other runs, unless they overlap.
MayStart ==
  Overlap \/ /\ \A m \in Msg : sender[m] \notin {"send", "save"}
             /\ \A c \in Conn : device[c] \notin {"login", "link", "leaving"}

Write(c, m, queued) ==
  got' = [got EXCEPT ![c] = Append(@, [msg |-> m, fromQueue |-> queued])]

-----------------------------------------------------------------------------
\* insert into users_messages: cluster_send_to_user, without a cluster.

\* Fault: the message is stored before it is sent.
InsertStored(m) ==
  /\ MayStart
  /\ sender[m] = "new"
  /\ sender' = [sender EXCEPT ![m] = "send"]
  /\ age' = [age EXCEPT ![m] = 0]
  /\ UNCHANGED <<next, isSend, device, batch, slots, earlier, got>>

Insert(m) ==
  /\ MayStart
  /\ sender[m] = "new"
  /\ sender' = [sender EXCEPT ![m] = "send"]
  /\ UNCHANGED <<next, isSend, device, batch, slots, age, earlier, got>>

\* tcpServer::get finds a connection until it has been erased from the map of
\* open connections.
Open(c) == device[c] \in {"login", "link", "on"}

\* Fault: the result of the last connection is the one that counts.
local_send_to_userLast(m) ==
  /\ sender[m] = "send"
  /\ next[m] \in Slot
  /\ next' = [next EXCEPT ![m] = @ + 1]
  /\ LET c == slots[next[m]] IN
     \/ /\ c \in Conn /\ Open(c)
        /\ Write(c, m, FALSE)
        /\ isSend' = [isSend EXCEPT ![m] = TRUE]
     \/ /\ c \in Conn => ~Open(c) \/ WriteFails
        /\ isSend' = [isSend EXCEPT ![m] = FALSE]
        /\ UNCHANGED got
  /\ UNCHANGED <<sender, device, batch, slots, age, earlier>>

\* Fault: a message counts as delivered whatever the slots hold.
local_send_to_userAny(m) ==
  /\ sender[m] = "send"
  /\ next[m] \in Slot
  /\ next' = [next EXCEPT ![m] = @ + 1]
  /\ isSend' = [isSend EXCEPT ![m] = TRUE]
  /\ LET c == slots[next[m]] IN
     IF c \in Conn /\ Open(c) THEN Write(c, m, FALSE) ELSE UNCHANGED got
  /\ UNCHANGED <<sender, device, batch, slots, age, earlier>>

\* One turn of the loop over the slots (for a user without an item in memory
\* every slot is empty).
local_send_to_user(m) ==
  /\ sender[m] = "send"
  /\ next[m] \in Slot
  /\ next' = [next EXCEPT ![m] = @ + 1]
  /\ LET c == slots[next[m]] IN
     \/ /\ c \in Conn /\ Open(c)
        /\ Write(c, m, FALSE)
        /\ isSend' = [isSend EXCEPT ![m] = TRUE]
     \/ /\ c \in Conn => ~Open(c) \/ WriteFails
        /\ UNCHANGED <<isSend, got>>
  /\ UNCHANGED <<sender, device, batch, slots, age, earlier>>

\* The loop is over; a message nobody received has to be stored.
Sent(m) ==
  /\ sender[m] = "send"
  /\ next[m] \notin Slot
  /\ sender' = [sender EXCEPT ![m] = IF isSend[m] THEN "done" ELSE "save"]
  /\ UNCHANGED <<next, isSend, device, batch, slots, age, earlier, got>>

\* The result of the statement is not looked at.
users_queue_insert(m) ==
  /\ sender[m] = "save"
  /\ sender' = [sender EXCEPT ![m] = "done"]
  /\ \/ /\ age' = [age EXCEPT ![m] = 0]
        /\ earlier' = earlier \cup {<<a, m>> : a \in {n \in Queue : age[n] > 0}}
     \/ DbFails /\ UNCHANGED queueVars
  /\ UNCHANGED <<next, isSend, device, batch, slots, got>>

-----------------------------------------------------------------------------
\* Login of a device: web_socket_request after get_link has accepted it.

\* Fault: `order by time desc'.
NewestFirst ==
  {SubSeq(s, 1, IF Len(s) < Limit THEN Len(s) ELSE Limit) :
     s \in {t \in SetToSeqs(Queue) :
              \A i, j \in DOMAIN t : i < j => age[t[i]] <= age[t[j]]}}

\* The results of `select ... order by time limit Limit'.
OldestFirst ==
  {SubSeq(s, 1, IF Len(s) < Limit THEN Len(s) ELSE Limit) :
     s \in {t \in SetToSeqs(Queue) :
              \A i, j \in DOMAIN t : i < j => age[t[i]] >= age[t[j]]}}

\* A select that fails gives no rows.
users_queue_select(c) ==
  /\ MayStart
  /\ device[c] = "new"
  /\ device' = [device EXCEPT ![c] = "login"]
  /\ \/ \E b \in OldestFirst : batch' = [batch EXCEPT ![c] = b]
     \/ DbFails /\ UNCHANGED batch
  /\ UNCHANGED <<sender, next, isSend, slots, age, earlier, got>>

\* The result of message() is not looked at.
fetch(c) ==
  /\ device[c] = "login"
  /\ batch[c] # <<>>
  /\ batch' = [batch EXCEPT ![c] = Tail(@)]
  /\ \/ Write(c, Head(batch[c]), TRUE)
     \/ WriteFails /\ UNCHANGED got
  /\ UNCHANGED <<sender, next, isSend, device, slots, age, earlier>>

\* `delete ... where time < now': rows of the current second stay.
DeleteQueue == [m \in Msg |-> IF age[m] = 0 THEN 0 ELSE NotQueued]

users_queue_delete(c) ==
  /\ device[c] = "login"
  /\ batch[c] = <<>>
  /\ device' = [device EXCEPT ![c] = "link"]
  /\ \/ age' = DeleteQueue
     \/ DbFails /\ UNCHANGED age
  /\ UNCHANGED <<sender, next, isSend, batch, slots, earlier, got>>

FreeSlots == {i \in Slot : slots[i] = NoConn}

\* Fault: the device is in the table before its queue is read.
set_linkEarly(c) ==
  /\ device[c] \in {"login", "link"}
  /\ device' = [device EXCEPT ![c] = "on"]
  /\ slots' = IF FreeSlots = {} THEN slots
              ELSE [slots EXCEPT ![CHOOSE i \in FreeSlots : \A j \in FreeSlots : i <= j] = c]
  /\ UNCHANGED <<sender, next, isSend, batch, age, earlier, got>>

\* Fault: the loop over the slots runs one too far.
set_linkOverrun(c) ==
  LET i == CHOOSE i \in 1..MaxConn + 1 :
             /\ i \in FreeSlots \/ (FreeSlots = {} /\ i = MaxConn + 1)
             /\ \A j \in FreeSlots : i <= j
  IN  /\ device[c] = "link"
      /\ device' = [device EXCEPT ![c] = "on"]
      /\ slots' = [j \in Slot \cup {i} |-> IF j = i THEN c ELSE slots[j]]
      /\ UNCHANGED <<sender, next, isSend, batch, age, earlier, got>>

\* The connection takes the first free slot, if there is one.
set_link(c) ==
  /\ device[c] = "link"
  /\ device' = [device EXCEPT ![c] = "on"]
  /\ slots' = IF FreeSlots = {} THEN slots
              ELSE [slots EXCEPT ![CHOOSE i \in FreeSlots : \A j \in FreeSlots : i <= j] = c]
  /\ UNCHANGED <<sender, next, isSend, batch, age, earlier, got>>

-----------------------------------------------------------------------------
\* A device disconnects: deleteClient takes it from the map of open
\* connections, then set_offline from the user's table.

deleteClientFromMap(c) ==
  /\ MayStart
  /\ device[c] = "on"
  /\ device' = [device EXCEPT ![c] = "leaving"]
  /\ UNCHANGED <<sender, next, isSend, batch, slots, age, earlier, got>>

un_link(c) ==
  /\ device[c] = "leaving"
  /\ device' = [device EXCEPT ![c] = "off"]
  /\ slots' = [i \in Slot |-> IF slots[i] = c THEN NoConn ELSE slots[i]]
  /\ UNCHANGED <<sender, next, isSend, batch, age, earlier, got>>

-----------------------------------------------------------------------------
\* The table of waiting messages

\* A second passes.  The bound: the interval loop has come round before a row
\* is older than MaxAge.
Tick ==
  /\ Queue # {}
  /\ \A m \in Queue : age[m] < MaxAge
  /\ age' = [m \in Msg |-> IF m \in Queue THEN age[m] + 1 ELSE age[m]]
  /\ UNCHANGED <<sender, next, isSend, device, batch, slots, earlier, got>>

\* Fault: what a row of KeepAge seconds looks like is never reached.
addIntervalRoutineNever ==
  /\ \E m \in Msg : age[m] > MaxAge
  /\ age' = [m \in Msg |-> IF age[m] > MaxAge THEN NotQueued ELSE age[m]]
  /\ UNCHANGED <<sender, next, isSend, device, batch, slots, earlier, got>>

\* The routine of the interval loop that throws old rows away.
addIntervalRoutine ==
  /\ \E m \in Msg : age[m] > KeepAge
  /\ age' = [m \in Msg |-> IF age[m] > KeepAge THEN NotQueued ELSE age[m]]
  /\ UNCHANGED <<sender, next, isSend, device, batch, slots, earlier, got>>

\* `delete from users_messages where id = ...'
sql_delete_from_users_messages ==
  /\ Clears /\ MayStart
  /\ Queue # {}
  /\ age' = DeleteQueue
  /\ UNCHANGED <<sender, next, isSend, device, batch, slots, earlier, got>>

\* The process ends and is started again: only the SQL table remains.
Restart ==
  /\ Restarts
  /\ sender' = [m \in Msg |-> IF sender[m] \in {"send", "save"} THEN "failed"
                                                               ELSE sender[m]]
  /\ device' = [c \in Conn |-> IF device[c] = "new" THEN "new" ELSE "off"]
  /\ batch' = [c \in Conn |-> <<>>]
  /\ slots' = [i \in Slot |-> NoConn]
  /\ UNCHANGED <<next, isSend, age, earlier, got>>

Send(m) == local_send_to_user(m) \/ Sent(m) \/ users_queue_insert(m)
Login(c) == fetch(c) \/ users_queue_delete(c) \/ set_link(c)

Next ==
  \/ \E m \in Msg : Insert(m) \/ Send(m)
  \/ \E c \in Conn :
       users_queue_select(c) \/ Login(c) \/ deleteClientFromMap(c) \/ un_link(c)
  \/ Tick
  \/ addIntervalRoutine
  \/ sql_delete_from_users_messages
  \/ Restart

Spec == Init /\ [][Next]_vars

\* A handler that has started goes on, and so do the clock and the interval
\* loop; nobody has to send, to connect or to leave.
FairSpec ==
  /\ Spec
  /\ \A m \in Msg : WF_vars(Send(m))
  /\ \A c \in Conn : WF_vars(Login(c)) /\ WF_vars(un_link(c))
  /\ WF_vars(Tick)
  /\ WF_vars(addIntervalRoutine)
-----------------------------------------------------------------------------
\* Properties

Shown(m, c) == \E i \in DOMAIN got[c] : got[c][i].msg = m
Received(m) == \E c \in Conn : Shown(m, c)

\* No connection is given the same message twice, whether the handler that
\* sends it meets the login of that connection, its disconnection, another
\* device's login or a restart.
OncePerConnection ==
  \A c \in Conn : \A i, j \in DOMAIN got[c] :
    got[c][i].msg = got[c][j].msg => i = j

\* On every connection what waited in the queue comes before what is sent
\* while the device is online, and in the order in which it was stored: never a
\* message before one that was stored in an earlier second.
QueuedBeforeLive ==
  \A c \in Conn : \A i, j \in DOMAIN got[c] :
    got[c][j].fromQueue /\ i < j =>
      /\ got[c][i].fromQueue
      /\ <<got[c][j].msg, got[c][i].msg>> \notin earlier

\* A message some device received as it was sent is not kept for later: the
\* user does not see it again at the next login.
LiveNotQueued ==
  \A m \in Queue, c \in Conn : [msg |-> m, fromQueue |-> FALSE] \notin
    {got[c][i] : i \in DOMAIN got[c]}

\* A message waits unseen only while its user has no device online ("They will
\* be sending at once when user becomes online", CometQL API.md).
WaitingMeansOffline ==
  \A m \in Queue, c \in Conn : device[c] = "on" => Received(m)

\* "After delivering message to user, it will be automatically deleted from
\* queue" (CometQL API.md): when a login is over, what it has delivered is no
\* longer stored.  Does not hold: see the README.
DeliveredIsDeleted ==
  \A c \in Conn : device[c] \in {"link", "on"} =>
    \A i \in DOMAIN got[c] : got[c][i].fromQueue => got[c][i].msg \notin Queue

\* A queued message does not stay forever: it is read, cleared or expires.
QueueDrains == \A m \in Msg : m \in Queue ~> m \notin Queue

\* What the queue promises (module Mailbox): a message is not lost before it
\* has expired.
Reading(m) == \E c \in Conn : m \in Range(batch[c])

Waits(m) ==
  ~Received(m) /\ (sender[m] \in {"send", "save"} \/ m \in Queue \/ Reading(m))

Status(m) ==
  CASE Received(m) -> "seen"
    [] Waits(m) -> "waiting"
    [] ~Received(m) /\ sender[m] = "new" -> "new"
    [] OTHER -> "gone"

\* A row may expire while a login still holds what it has read.
Old(m) == Waits(m) /\ IF m \in Queue THEN age[m] > KeepAge ELSE Reading(m)

Box == INSTANCE Mailbox WITH
  status <- [m \in Msg |-> Status(m)],
  old <- {m \in Msg : Old(m)}

KeepsMessages == Box!Spec
=============================================================================
