# Verification of comet-server

comet-server (C++, `src/src/`) pushes messages to browsers over WebSockets.
Applications talk to it over the MySQL protocol in a small language, CometQL;
clients open WebSockets, log in, subscribe to channels and receive events. This
directory holds TLA+ models of the parts of it that are hard to get right, the
TLC instances that check them, and theorems that TLAPS proves.

Line numbers below and in `PROJECT.json` are those of the repository; file names
without a directory are in `src/src/`.

## The system

| component | state | operations | interacts with |
|---|---|---|---|
| user index (`user_index.*`) | per `user_id` a `useritem`: table of 16 connection identifiers, `last_online_time`, cached hash; SQL `users_time`, `users_auth` | `set_link`, `un_link`, `add_hash`, `get_last_online_time`, `get_link`, `delete_hash` | called by client connections and CometQL; sends `user_status_N` events |
| personal messages (`internalApi.cpp`, `Client_connection.cpp:525-552, 710-789`) | SQL `users_messages`, the table of connections, sockets | `cluster_send_to_user`, `msg_queue_send`, routine that deletes old rows | user index, connection table, interval loop, database |
| connection table (`tcpServer.*`, `connection.*`, `CP.h`) | `map_index` from descriptor to object, epoll sets, `fd` of each object, reference counts | accept, event handling, `get`, `deleteClient`, `web_write`, `web_close` | everything that sends |
| channels (`devManager.h`, `internalApi.cpp:132-189`, `Client_connection.cpp:58-292`) | per channel a singly linked list of descriptors | `ws_subscription`, `un_subscription`, `send_event_to_pipe` | connection table; `track_` channels send events about themselves |
| channel log (`MySql_connection.cpp:58-109, 2459-3008`, `Client_connection.cpp:564-615, 1525-1670`) | SQL `pipes_settings`, `pipe_messages` | log and trim a message, send it, set or delete the length, clear, read | database links, channels |
| client protocol (`Client_connection.cpp`) | WebSocket frames, fragments, login state | HTTP requests, commands, pings | all of the above |
| CometQL server (`MySql_connection.*`, `MySqlProtocol.*`) | authorisation state, packet buffer | handshake, statements on the virtual tables | all of the above |
| proxy and cluster (`CometQLProxy_connection.*`) | list of nodes | forwards statements and messages | database links |
| database links (`dbLink.*`) | prepared statements | execute, reconnect, prepare again | MySQL |
| developers (`devManager.*`) | `devInfo` by `dev_id`, counters of users online | lazy creation, counting | channels, user index |
| interval loop (`intervalLoop.*`) | routines, step counter | one step per second | old messages, statistics |
| start, configuration, logging, TLS, hashes, statistics | - | - | - |

Threads: one accepts, several read (each with an epoll set), one runs the
interval loop, one deletes old connections. A handler runs on the thread of the
connection that triggered it and reaches into the objects of other connections
through the shared tables. Mutexes protect single tables (`request_mutex` of a
shard, the mutex of a list), never an object across two tables. That is where the
hazards are: a descriptor that is a key in three tables and is reused by the
kernel; a table that is read slot by slot without a lock; a SQL table that is read,
then emptied; a list that is walked while it changes; a second thread that closes a
connection. `PROJECT.json` lists each hazard at its line, with the properties that
catch it or the reason why none does.

What makes each component correct:

* user index: every device of a user is in the table, nothing else is, the announced
  and the stored status agree with that, and eviction never takes a user who is online;
* personal messages: each device sees a message once, queued before live ones and in
  order, nothing is lost but by age, nothing stays forever;
* connection table: a lookup finds the connection that is meant or nothing, no object
  is used after it is freed, no descriptor is forgotten;
* channels: an event reaches everybody who is subscribed throughout, once, and nobody
  else; the list names open connections, each once; sending ends;
* channel log: it keeps to its length and to the latest messages, a client that
  subscribes and then reads it misses nothing, a channel without a setting has none;
* client protocol: however the stream is cut or glued, each command is executed once, in
  order and with its own data; a client that does nothing wrong is not thrown out;
* database links: success is reported only for what was done, a statement is repeated
  only when its answer was lost, and a call comes to its end;
* proxy and cluster: a node that is down keeps nobody on the other nodes from a message,
  what is shown is shown in order and again only for a lost answer, a message for one
  user is carried out by one node, counts count everybody once.

## The modules

| module | models |
|---|---|
| `UserIndex` | the user index: one action per operation, which runs under the shard's mutex |
| `UserIndexProofs` | theorems about `UserIndex` |
| `Mailbox` | abstract: what the documentation promises of a message to a user |
| `Delivery` | sending, queueing, login and expiry of the messages to one user |
| `DeliveryProofs` | theorems about `Delivery`; `Delivery` implements `Mailbox` |
| `ConnTable` | connections, descriptors, the map, epoll, deletion |
| `ConnTableProofs` | theorems about `ConnTable` |
| `Pipes` | channels: lists, subscription commands, sending |
| `PipesProofs` | theorems about `Pipes` |
| `Frames` | the byte stream of one client: request, frames, fragments, glued commands |
| `FramesProofs` | theorems about `Frames` |
| `DbLink` | the calls over the links to MySQL, with their attempts |
| `DbLinkProofs` | theorems about `DbLink` |
| `ChannelLog` | the log of a channel, by threads that each use a link; extends `DbLink` |
| `ChannelLogProofs` | no command takes a call for made that was not; nobody misses a message; the length of the log, and what is left without one |
| `Cluster` | proxy and nodes, statements passed on over links; extends `DbLink` |
| `ClusterProofs` | theorems about `Cluster` |
| `MCUserIndex`, `MCDelivery`, `MCConnTable`, `MCPipes`, `MCFrames`, `MCChannelLog`, `MCCluster` | instances for TLC |

State and actions carry the names of the fields and functions they stand for, and
`map` in `PROJECT.json` gives the lines. Definitions marked `Fault:` are plausible
mistakes in the function they stand beside; the specification does not use them.
`PROJECT.json` pairs each property with one of them that violates it.

**UserIndex.** One shard of one `dev_id`. `conection_ids[u]` is the array of the item
(0 and -1 both mean free), `last_online_time[u]` its field, `users_time` the SQL
table, `user_status` the last event in `user_status_N`, `web_user_id` the field of
each connection. Each action is one critical section of `request_mutex`, the SQL
statement and the event included. `replace into users_time` may fail without being
noticed (`DbFails`); `Restart` keeps the SQL table only. Times are three values:
unknown, 0 (online) and any later time. The 17th connection of a user is the case
`free = {}` of `WithId`. `un_linkRefused` is the end of a connection whose request names
a user (`Client_connection.cpp:330`) but which was closed before it was authorised.

**Delivery.** One user. `sender[m]` is the program counter of the handler that sends
`m`, `device[c]` that of a connection. The sender reads `conection_ids` slot by slot
without a lock, writes to a socket, and stores the message when no write succeeded;
a login reads at most `Limit` rows, writes them one by one, deletes, and only then
registers. One turn of the loop over the slots (the slot is read, the connection looked
up and written to) is one action, as is each write of a login and each statement. A
connection that closes between the lookup and the write of one turn is the case of a
write that fails. A statement may fail without being noticed (`DbFails`): an insert
stores nothing, a select gives no rows, a delete deletes nothing. The fields of a row
that matter are its age in seconds and which rows are of an earlier second (`earlier`):
the delete that follows a login spares rows of age 0, and the select is ordered by time.
The interval loop's statement, when it fails, is the step that is not taken. The
cluster is left out.

**ConnTable.** `sock[f]` is the kernel's side of a descriptor, `map_index[f]` the
server's, `fd[o]` the object's. One system call, one section under the mutex or one
access to a field is one action. An object is freed when neither the map nor a thread
holds it. Counting is atomic in the model; in the code (`CP.h:125`) it is not.

**Pipes.** `first`, `next` and `data` are the pointers of `fastList`. A sender holds
one item (`it`) and follows `next` from there whatever happened to the item. A removed
item keeps pointing to its successor, which is what keeps senders going. `due[t]` is
a history variable: who was subscribed during the whole of a send. Subscribing to or
leaving a `track_` channel is itself a send, done by the connection's thread or by the
thread that throws it out.

**Frames.** One client, which sends a whole script: an HTTP request and the frames of
its commands. The stream (`wire`) is a sequence of units: opcode, length, extended
length, data, each labelled with its frame. `Read` takes any number of units, at most
`data_size`, so that a frame is cut at every place or several are glued; `Handle` is the
handling of one frame in `buf`, whose first `start_position` units are done;
`fragment_buf` keeps what is not complete. `data_size` is the nominal size of the
thread's buffer, from which `connection.cpp:69` takes how much to read. It begins as
`BufSize` (`main/buf_size`); whoever puts together what was kept and what was read sets
it for good to what that needs and `Slack` more (`SetSize`, `Client_connection.cpp:846,
2326`). `Others` is the same by another connection of the thread, which leaves one of
`OtherSizes`. The byte behind a read that fills the buffer, which the code sets to 0, is
taken for zero although it lies outside of it. The zero that ends the data of a command
overwrites the opcode of the frame glued to it (`Client_connection.cpp:1001`), which the
next call must take for a text frame (`StartsFrame`). Masking, the contents of commands
and the answers are left out; a command is known or not.

**DbLink.** A thread has a link and makes one call over it at a time: `stage` is the
attempt it is at (`first`, `again` when out of sync, `prepare` and `second` for a
prepared statement, `reconnect` and `third`), `usable` whether the statements of the
link are prepared on a living connection. MySQL answers an attempt with one of six
outcomes; `unanswered` is the one that was carried out and not heard. `applied` and
`unheard` count this. The caller is the module that extends it.

**ChannelLog.** Threads serve connections, one command at a time; a command is a
sequence of calls over the thread's link (`step`), and MySQL carries a statement out
when `DbLink` says so, against the tables `settings` and `log`. `uid` is the row a
thread inserts, with the time it took before. Each message is logged, then the log is
trimmed (`Trim`), then it is sent to the subscribers. A trim is `order by time desc
limit n, 999`: it deletes the newest of the rows behind the first `n`, at most
`TrimLimit` of them (`Latest`). A statement whose link is given up is carried out at once
or never. `past` is a record of history variables. The sending itself is one action
here, since `Pipes` has its steps.

**Cluster.** A sender is a thread with one link per node. A statement goes to all nodes
in turn (`step = "all"`: a message for a channel, a count), or to one chosen at random
and to another if that fails (`one`, `others`), or, from a client of a node, is first
delivered there and then, if it is for a user or from the JS API (`Forwarded`), passed on
to the other nodes. What a node passes on goes through a buffer of 2000 bytes, so that
the others refuse a `long` channel message; they refuse every message for a user
(`Understood`). What reached nobody on its node is stored, and nobody looks whether the
insert has failed (`Finish`). `MayCome` lets a statement that nobody waits for
any more be carried out later (`inflight`). Nodes crash and come back without their
connections; answers and links are lost. `seen` is a record of history variables.
`proxyCluster` and `wsCluster` are the two lists of links that `thread_data.cpp:183-235`
makes from `comet.ini`, the second one of each node; they name every (other) node once.

## The runs

All bounds are constants or definitions in the `.cfg` files and `MC` modules.

| run | instance | shows |
|---|---|---|
| `UserIndexNormal` | 3 users, 3 connections, 3 slots, room for 1 user; restarts, failing statements | type; the table names only own open connections, all of them; announced status is the truth |
| `DeliveryOverlap` | 2 messages, 3 devices, 2 slots; handlers overlap, writes and statements fail, restarts, explicit deletes | type; once per device; queued before live, and in the order of the seconds in which they were stored; what was received live is not queued |
| `DeliverySerial` | 2 messages, 3 devices, 3 slots, limit 2; handlers one at a time | `Delivery` implements `Mailbox`; waiting means offline; the queue drains |
| `ConnTableNormal` | 3 objects, 2 descriptors (reused), 2 readers, 1 sender | map, epoll, table of the user and kernel agree; no event of a freed object |
| `ConnTableKicks` | 3 objects, no reuse; a thread closes connections of others, epoll may refuse | type; every connection that is read is found; no leak |
| `PipesNormal` | 3 guests, 1 sender, a public and a private channel, 3 subscription commands | type; due subscribers served, once; the list names subscribers only, each once |
| `PipesKicks` | 2 connections, a `track_` channel, 2 commands, 1 thread that throws out | announcing ends, if every write does |
| `FramesNormal` | 85 scripts: up to 4 frames, short, long, unknown, binary, ping answers, close, one that is too long; pages and posts | type, what is read and put together lies within the buffer; commands in order; none that has arrived waits; innocent clients stay; all is executed |
| `ChannelLogNormal` | 9 scripts: 2 threads, 3 connections, 2 failures, log of length 0 to 2, trims of 1 row | type; length and latest messages kept; who reads misses nothing; no orphans; no call reports what was not done, or does it again without a lost answer; every command is answered |
| `ChannelHistory` (violation) | log longer than a select reads | who subscribes and reads the log misses a message |
| `ClusterNormal` | 7 scripts: 2 nodes, a proxy, clients on both; 2 failures or crashes | type; healthy nodes reached by what is passed on to them; shown in order, again only for a lost answer; one node for one user; counts true; direct messages delivered, stored or refused by the database; all is served |
| `ClusterMessage` (violation) | 1 message for a user through the proxy, no failures | it is neither delivered nor stored |

*Why the bounds are enough.* Three connections are the least with which an item in the
middle of a list or a table has a neighbour on either side, and with which two devices
meet a third that logs in or leaves. Two descriptors for three objects force reuse.
Two messages are the least for an order; `MaxAge = 3` lets a row wait beyond
`KeepAge = 1` until the interval loop comes round. A `MaxMap` of 1 makes every third user evict.
Users, connections and objects are otherwise interchangeable, and are symmetry sets
where no temporal property is checked. `MaxItem` never stops an insertion: each command
of these instances makes at most one item. `MaxAsks` bounds the commands of all
connections together, so that one of them may subscribe again.

`Frames` is checked with every way to cut each script, so that no frame boundary is
missed; `BufSize` and `MaxFragment` are shorter than the stream of the longest scripts,
and one frame is longer than both. `OtherSizes` has a size below and one above all that a
read of these scripts needs. A request is not cut exactly at the end of a line
(`LineCuts = FALSE`), since the code takes it to be complete then: see below. In
`ChannelLog` and `Cluster` the scripts, and not all commands in any order, are
enumerated, each made so that two actors meet: two writers with a reader, a writer with
one who changes the length, deletes the setting or clears the log, two senders to one
channel. `MaxFaults = 2` is what takes a call to its third attempt, or fails one call
of each of two threads. `MaxClock = 1` gives two times, with a tie and an order.
`TrimLimit = 1` is what one trim needs in an ordinary log, and less than what the
setting that shrinks from 2 to 1 leaves to be deleted. `SelectLimit = 4` is more than
any log of these scripts has, as 99 is for the default length of a log; `ChannelHistory`
has the other case.

*Deadlock.* `Delivery`, `ConnTable` and `Pipes` open each connection and send each
message once, and `Frames`, `ChannelLog` and `Cluster` end with their scripts, so they
stop when all is done: deadlock is not checked there, and the liveness properties say
that they do not stop earlier. `UserIndex` never stops.

*Fairness.* `DeliverySerial` assumes that a handler that has begun goes on, that the
clock ticks and that the interval loop runs its routine: besides mutexes, handlers wait
for MySQL, whose answers have a read timeout, and for `write`; and `intervalLoop::loop`
steps once per second. `PipesKicks` assumes that a thread that has begun to send goes on.
Nobody is assumed to send, connect, subscribe or leave. `FramesNormal` assumes that what
has arrived is read (epoll is level-triggered, `tcpServer.cpp:734`) and that the thread
goes on with what it has read; the client may break off at any time. `ChannelLogNormal`
assumes that a thread goes on with its command, in which every attempt ends: MySQL
answers or the read timeout of 3 s strikes (`dbLink.cpp:404`); and that each connection
sends its commands. `ClusterNormal` assumes the same of each sender. Nobody is assumed
to fail, to crash, to come back or to join.

Writes to clients have no timeout: accepted sockets block (`O_NONBLOCK` is commented out,
`tcpServer.cpp:571-576`, and `SO_SNDTIMEO` is not set), so that a client who does not read
holds the thread that writes to him for as long as he likes, with all connections of that
thread. `Pipes` says so: nothing is assumed of a write (`message`), and `SendEnds` is that a
send comes to its end or stands in one write for good. In the other modules a write is not a
step of its own; `QueueDrains`, `AllExecuted` and `AllServed` of `ChannelLog` and `Cluster`
are claims about clients that read what they are sent.

## What does not hold

The two violation runs end in a counterexample that is a real disagreement with a
comment or with the documentation; `findings` in `PROJECT.json` quotes it.

* `ChannelHistory`: the log is read with `order by time limit 99`, which are the oldest
  rows; a log may have 1000 (`dbLink.h:1356`, `MySql_connection.h:73`).
* `ClusterMessage`: the node the proxy chooses for a message to a user is not always the
  user's. It delivers to nobody and does not store the message
  (`MySql_connection.cpp:2323-2335`).

The modules state more that other instances refute; no run is kept for these:

* `StatusTruth` and `EveryDeviceRegistered` of `UserIndex` with more connections of a
  user than slots: the 17th is in no table, and when the others close the user is
  announced offline (`user_index.cpp:79`);
* `TimeTruth` of `UserIndex` with restarts: the time 0 an earlier process has stored is
  taken for online (`user_index.cpp:145`);
* `KeepsMessages` with `Limit = 1` in `DeliverySerial`: a login reads 10 messages and
  deletes all (`Client_connection.cpp:533, 549`); with `WriteFails`: the result of
  writing is ignored there (`:546`); and with `DbFails`: so is that of the insert
  (`internalApi.cpp:117`), and a select that has failed is taken for an empty queue, which
  the delete behind it empties;
* `DeliveredIsDeleted` of `Delivery`: a message delivered in the second in which it was
  stored is delivered again (`dbLink.h:1084`);
* `WaitingMeansOffline` of `Delivery` when handlers overlap: a message sent between the
  reading of the queue and `set_link` waits although the user is online
  (`Client_connection.cpp:769`); and with `DbFails`: a message is not read, nor deleted;
* `EventsLive` with a `Kicker`: a connection is closed by another thread while an event
  of it waits (`tcpServer.cpp:734`);
* `FoundByClientId` with `EpollFails` and `Reuse`: a refused connection stays in the map
  and keeps the next one with its number out (`tcpServer.cpp:617-623`);
* `LookupLive`, `WrittenToOwner` of `ConnTable`: the pointer and the descriptor are used
  after the lock that protected them;
* `NoGhosts` with a `Kicker`: a connection that is closed by another thread while it
  subscribes stays in the list (`Client_connection.cpp:262`);
* `DueServed`, `OnlyAsked` and `CountedOnce` of `Pipes` with `Reuse`: a dead descriptor in
  the list has a new owner, who is written to, or whose entry is erased
  (`internalApi.cpp:171, 180`); with a `Kicker` besides also `NotTwice`: the dead and the
  new entry name the same connection;
* `NotTwice` and `CountedOnce` of `Pipes` when a request names a channel twice: it is put
  on the list twice (`Client_connection.cpp:258-270`), and each event comes twice;
* `OthersSubscribed` of `Pipes`: the channels a guest names after a private one are
  dropped (`Client_connection.cpp:206`);
* `InnocentStays` of `Frames` with `LineCuts`: a request cut exactly at the end of a line
  is taken to be complete and refused (`Client_connection.cpp:2344`);
* `ArrivedExecuted` of `Frames` with a command behind an answer to a ping: the rest of
  what was read is dropped (`Client_connection.cpp:873`). `InOrder` fails with it: the
  commands that come later are executed without the one that was dropped.

Modelling met the following, which the models have as the code does it, except where
they leave it out, and which a reader of the code should know:

* a thread that closes a connection tests `isOnLine` and resets it in two steps
  (`Client_connection.cpp:2476-2485`), so that two threads may leave the channels of one
  connection (`set_offline`, `reset` in `ConnTable` and `Pipes`); nothing that is checked
  there suffers;
* the number of users online is counted up at a login (`:787`) and down at the end of
  every connection (`:2483`), also of one that never logged in (not modelled);
* `stmBase::insert` returns -1 though its third attempt has succeeded, and so does what
  succeeds after an out-of-sync error (`dbLink.cpp:136-164`); `select` returns -1 as a
  `bool`, which is true (`:216`); `connect` marks a link as connected that could not be
  made (`:396`), so that its statements fail at once until a query in text connects;
* an empty log and one that could not be read look the same to the client;
* `main/fragment_buf_max_size` does not bound what is kept of a client: the first part is
  kept unchecked, and a request that is put together, without any limit, sets the size of
  later reads of all connections of the thread (`Client_connection.cpp:836, 846, 2326`,
  `thread_data.h:73`, `connection.cpp:69`);
* the zero behind a read that fills the buffer is written, or looked for, behind its end;
* a trim deletes at most 999 rows, the newest of those behind the length
  (`MySql_connection.cpp:104`): when a setting shrinks from 1000 to 1 the oldest row stays
  until a later trim (`LogKept` leaves this out: `past.overdue`);
* an insert into the log that was given up may still be carried out later; `ChannelLog` has
  it at once or never. Late, it would put a row into a log that has been cleared, trimmed or
  read, and `NoGap`, `NoOrphans` and `LogKept` would not hold;
* a message that is on its way when the setting is deleted stays in the table
  (`NoOrphans` leaves this out), a repeated insert may put back what was just trimmed or
  cleared, and a length of 0 leaves the old rows;
* the statement that passes a message for a user on to another node lacks a quote and
  names a column that is not there, so that no node understands it
  (`internalApi.cpp:83`, `MySql_connection.cpp:2251-2258`). A user who is online on another
  node has his message stored until he logs in again; the insert that stores it is not looked
  at (`internalApi.cpp:117`), and when it fails the message is neither delivered nor stored
  (`DirectKept` leaves this out: `seen.unstored`);
* a channel message of the JS API that makes a statement of more than 2000 bytes is cut
  (`dbLink.cpp:513-518`) and refused by the other nodes, and one that a CometQL client sends
  to a node is not passed on to the others at all (`MySql_connection.cpp:2552-2553`):
  `Reached` promises only what is passed on (`PassedOn`);
* each node of a cluster logs a channel message it is passed, so that a shared log has it
  several times; the proxy answers its client before the statement is executed
  (`CometQLProxy_connection.cpp:295`); a count whose answer cannot be stored is asked for
  again without end (`:669`; `MaxFaults` ends it in the model).

## The proofs

`UserIndexProofs` holds for any number of users, connections and
slots, under `UserIndexAssumption` (descriptors are positive numbers, the table has a
slot).

* `TypeCorrect`: `Spec => []TypeOK`. `TypeOK` is inductive.
* `RegisteredAreOnline`: `Spec => []RegisteredIsOnline`, with failing statements and
  restarts and no assumption on the number of connections. `TypeOK /\
  RegisteredIsOnline` is inductive. The lemmas `WithIdFacts` and `WithoutIdFacts` say
  what the two loops over the slots do; `RegisteredEach` restates the invariant for one
  user, which is how each action uses it.
* `DevicesRegistered` and `StatusIsTrue` assume `Bounded`: no more connections than
  slots. The pigeonhole lemma `FreeSlot` gives a free slot to whoever logs in. The
  invariant is `LinkInv`, all four properties together: that an evicted user has no
  connection (`EvictedAreOffline`) needs that his connections would be in the table,
  and that they stay there needs that he is not evicted.
* `TimeIsTrue` assumes `Undisturbed`: in addition no restart and no failing statement.
  `TimeInv` strengthens `TimeTruth`: the SQL table says online only of a user whose item
  is in memory and says so too, since what an eviction leaves in the table is read back
  later. With restarts `TimeTruth` does not hold.

`DeliveryProofs` holds for any finite number of messages and any number of connections
and slots, with handlers that overlap, writes and statements that fail and restarts, under
`DeliveryAssumption` (an empty slot is no connection; there is a slot; a login reads at
least one message).

* `DeliveryTypes`, `ShownOnce`, `QueueFirst`: `Spec => []TypeOK`, `[]OncePerConnection`,
  `[]QueuedBeforeLive`; `LiveIsNotKept`: `Spec => []LiveNotQueued`.
* The inductive invariant `DeliveryInv` adds seven parts. A connection is in the table
  only after its login, in one slot (`Linked`). Until then it has been written queued
  messages only (`OnlyQueued`). The handler of a queued message is done, and one that
  wrote live has gone past every slot of that connection (`Handled`): without this a
  slot taken while the loop runs could be met again. What a login has read and not yet
  written is new to its connection (`BatchNew`). What is stored was not written live
  (`Stored`). Of two messages that wait the one stored in an earlier second is older
  (`Stamps`); what a login has read is in that order, and behind what it has written
  (`BatchOrder`).
  `WriteFacts` and `OldestFirstFacts` say what a write adds and what the
  `select` returns.

* `WaitingIsOffline`: `Spec => []WaitingMeansOffline` under `Serial` (handlers do not
  overlap, writes to open connections and statements succeed), `QueueFits` (no more messages than one
  `select` returns) and `ConnsFit` (no more connections than slots). Each is needed: see
  *What does not hold* and the hazards. `OnlineInv` adds that one handler is under way
  (`OneHandler`), that a sender has written to every connection in the slots it has passed
  (`Passed`), that a login has read all that waits (`Reads`) and that who is online is in a
  slot (`Placed`).
* `DeliveryKeepsMessages`: `Spec => KeepsMessages`, the refinement of `Mailbox`, under
  `Undisturbed`: `Serial`, `QueueFits`, no `delete` by the application and no stop of the
  process. The initial states are initial, and each step is one of the mailbox or none: the
  write to a socket is what shows a message, also of one that a login has read, and the
  routine of the interval loop is what lets it go.

`ConnTableProofs` holds for any number of connections, descriptors and threads that
accept, read, send and close, under `ConnTableAssumption` (descriptors are numbered without
gaps, a thread has one task) and `Careful`: if descriptors are used again, each connection
is closed by its worker only and `epoll_ctl` does not fail. Without reuse nothing is
assumed of closing or of `epoll_ctl`; with it `FoundByClientId` fails, as said above: a
watched connection loses its entry, or never gets one, when an earlier one with its number
was closed twice or refused. Every theorem of the module is under `Careful`.

* `TableTypeOK`, `WatchedIsFound`, `OpenIsHeld`: `Spec => []TypeOK`, `[]FoundByClientId`,
  `[]NoLeak`, under `Careful` only. `LookupsAreTrue`, `[]MapTruth`: besides, without
  `EpollFails`.
* `EventsAreLive` and `RegisteredStaysOpen`: `[]EventsLive` and `[]RegisteredIsOpen`;
  besides, without threads that close the connections of others. So without reuse
  `epoll_ctl` may fail, with reuse it may not.
* The inductive invariant `TableInv` says what each thread may be at (`Roles`), that what
  it works on exists (`Lives`), that the three views of a descriptor agree (`Open`), that
  nobody but its object has a descriptor or will have it (`Owned`: with reuse, because it is
  open; without, because later ones have higher numbers), and where an open
  connection that is not watched or not in the map is on its way to. `RegisterInv` adds who
  is in a user's table and in which events.

`DbLinkProofs` holds for any number of threads and of calls.

* `LinkInvariant`: `LinkSpec => []LinkInv`. `LinkInv` is inductive: at each stage a bound
  on `applied` in terms of `unheard`, the stage giving the number of attempts made.
* `SuccessIsApplied`, `RetriesBounded` follow: success is reported only for what was
  carried out; a call is carried out at most once more than answers to it were lost, and
  at most three times.

`ChannelLogProofs` holds for any number of connections and threads, any scripts and any
number of failures, under `ChannelLogAssumption`.

* `CommandsKeepLinks`: `Spec => []CallsAreTrue`. Each step of `ChannelLog` is a step of a
  link or leaves the links alone (the lemma `CommandsUseLinks`, which holds by the way the
  module makes its calls); with `SuccessIsApplied` and `RetriesBounded` no command of a
  channel is told that a change was made which was not.
* `NothingMissed`: `Spec /\ []LogFits => []NoGap`, where `LogFits` says that the log is
  no longer than what one select reads; `ChannelHistory` shows that it is needed. The
  inductive invariant `NoGapInv` has six parts: the types it needs; a thread serves a
  connection of its own (`Serving`); what has been sent belongs to commands that have been
  answered (`SentServed`); what was logged is in the log or was
  deleted (`StaysLogged`); those who have read have everything (`ReadersHave`); and who
  is about to be given the rows a thread has read will have everything (`WillHave`). The
  order of the code, log before send and subscribe before read, is what the last one
  rests on.

* `LogTypeOK`, `LogStaysShort`, `NoOrphansLeft`: `Spec => []TypeOK`, `[]LogKept`,
  `[]NoOrphans`.
* The inductive invariant `KeptInv` says that a log that is too long has a thread that
  will  trim it, unless the last trim has failed or left rows (`TrimDue`), that what
  trims have deleted has as many messages that are not older  as the setting is long
  (`TrimmedRows`), and that messages without a setting have a thread  that will delete
  them (`Orphans`). A command that fails or races is remembered in  `past.overdue` and
  `past.raced`, whose meaning the module gives: a last trim that failed  or left rows; a
  setting that was deleted while a message was on its way, that could not be deleted
  with  its messages, or that was replaced by 0, which leaves the rows of the log.

`ClusterProofs` holds for any number of nodes, senders and connections, any scripts and any
number of crashes and failures, under `ClusterAssumption` (the lists name each node once, a
node does not name itself, only the proxy counts).

* `ClusterTypes`, `AllAreReached`, `ShownAsSent`, `OneNodeAlone`, `UsersAreCounted`,
  `DirectAreKept`: each safety property of `ClusterNormal`, with no other hypothesis.
  `AllAreReached` is about whom a message is passed on to: from a node, everybody there, and
  the others if it comes from the JS API and is not cut. `DirectAreKept` leaves out the
  messages whose insert failed.
* The inductive invariant `ClusterInv` is, besides types and calls, one formula
  `Progress(s)` per sender: which nodes are left to be asked (`Round`); that only what was
  begun leaves a trace (`Trace`); that each copy a connection has, or may still be sent late,
  is accounted for by an answer that was lost, but for one (`Accounted`), which is what
  bounds repetitions and, with `Trace`, gives the order (`InOrder`); and what has been
  achieved for the nodes already asked: `Reaching`, `Choosing`, `Adding`, `Storing`, with
  `HasReached`, `HasChosen` and `HasStored` for what is finished. TLC has checked
  `ClusterInv` on the instance of `ClusterNormal`.
* The steps of one sender leave what holds of the others (`Apart`, `ApartKeeps`), so that
  each action is shown to keep `Progress` of the one that takes it and to be apart from the
  rest; a crash ends the senders of its node and is apart from the others.

`PipesProofs` holds for any number of channels, connections, senders and threads that throw
connections out, any requests and any number of items, under `PipesAssumption`
(descriptors are numbered without gaps from 1, which is how the kernel gives them out;
there are finitely many of them and of connections; a thread has one task).

* `PipesTypeOK`: `Spec => []TypeOK`, and `PipesTypes`, `Spec => []BaseInv`, without any
  hypothesis. `BaseInv` adds that the lists end (`Graph`) and what a thread may be at and has
  then (`Roles`).
* `PipesNotTwice`, `[]NotTwice`, and `PipesNoGhosts`, `[]NoGhosts`, under `NoKicks` (nobody
  closes the connection of another) and `OwnNames` (no request names a channel twice),
  descriptors used again or not. `TidyInv` says that descriptor, flag and map of a
  connection agree with the command it is at (`SocketOf`), which channels it remembers
  (`SlotsOf`, `ApartOf`), that the lists name only who remembers the channel (`ListedOf`,
  `Owners`), once on each way (`Distinct`), and that whom a sender has served is not ahead
  of it again (`WalkOf`). `Distinct` is about the way behind any item, also one that was
  taken from its list while a sender stood on it.
* `PipesDueServed`, `[]DueServed`, and `PipesListTruth`, `[]ListTruth`, under `~Reuse`
  besides. `DueInv` says that descriptors are given out in order (`Numbers`), that what a
  sender takes from a list is dead (`DeadOf`), that who is subscribed is on the list
  (`ReachedOf`) and that who is due has been served or is ahead (`DueOf`).
* `ListTruth` fails with a `Kicker`, and with `Reuse`; `NotTwice` fails when a channel is
  named twice, and `DueServed` with `Reuse`: see *What does not hold*.
* What follows an item (`Chain`) is a recursive function. Instead of an induction, the
  proofs use that every set of items has one whose successor is outside (`Ends`): a claim
  about chains is shown by taking the set of items for which it is wrong. `ChainLeast` and
  `ChainAgree` say what a chain is and on what it depends, `AppendFacts`, `RemoveFacts` and
  `AdvanceFacts` what the operations of `fastList` do to all lists at once.

`FramesProofs` holds for any scripts and any sizes of the buffers, under `FramesAssumption`.

* `FramesTypeOK`: `Spec => []TypeOK`, without any hypothesis: what is read, and what is put
  together from what was kept and read, lies within the size the buffer has then, whatever
  other connections have left. It does not bound that size, and the code does not either.
* `FramesInOrder` and `FramesArrivedExecuted`, `[]InOrder` and `[]ArrivedExecuted`, for
  scripts that are `Orderly`: nothing follows an answer to a ping, which is needed (see
  *What does not hold*), and pong and close frames are not commands themselves.
  `FramesInnocentStays`, `[]InnocentStays`, under `~LineCuts`, which is needed too.
* `TextInv` says that what is left in `buf` or in `fragment_buf`, with the wire behind it, is
  the stream from some position on, but for the opcode that the zero behind a command may
  have overwritten (`Matches`). `OrderInv` says that the position is the beginning of a
  frame and that the commands before it have been executed, in order. `InnocentInv` says
  that an innocent client has not been thrown out and, once its web socket is open, that the
  request is behind the position.
* Where each frame begins in the stream (`StreamLayout`) and which frames carry the
  commands (`CarriersFacts`) are facts about flattened and filtered sequences. They rest on
  `Smallest`, that a set of numbers has a least one.

Every invariant of the passing runs is stated by a theorem, and so is the refinement
`KeepsMessages`. Only model-checked are the liveness properties under
fairness, `QueueDrains`, `SendEnds`, `AllExecuted` and `AllServed`: the prover has no rules
for `ENABLED`. The induction rules of the library take an operator as a parameter, which the
provers cannot instantiate; where a claim about recursive functions was needed it is proved
from a least counterexample, as described. The modules declare no recursive operators.

## Plan

1. `UserIndex` with proofs, `Delivery` with proofs and `Mailbox`, `ConnTable`, `Pipes`,
   `Frames`, `DbLink` and `ChannelLog` with proofs, `Cluster`: done.
2. Theorems about all of them, with the refinement of `Mailbox`: done.
3. Components that would be worth a model: the reference counts of `CP.h`, whose counter
   is changed without a lock; the counters of users online, under `set_offline` by two
   threads; the packets of the MySQL protocol, where the first of several that arrive at
   once is handled each time (`MySql_connection.cpp:197`).

## Not modelled

* CometQL grammar and its generated code: pure parsing.
* Packets and handshake of CometQL, conferences, and the statements that only read or
  write a table through (`users_auth`, statistics, the union selects of the proxy).
* Authorisation data (hashes, tokens): taken as accepted or not.
* Channels named `trust_`, whose log a routine trims, and the JSON of announcements.
* Counters of users online, limits and creation of developers (`devManager`): nothing
  but statistics and limits reads them.
* The reaper of old connections (`tcpServer.cpp:422`): it walks with an iterator that
  stands behind the last entry of the map as soon as it closes anything, which leaves no
  behaviour to model. The start of the threads (`:593`), during which connections may be
  handed to an epoll set that is not there yet.
* The buffers of a thread, of which `answer_buf` is unlocked only when there are other
  nodes (`Client_connection.cpp:1641`); string handling; configuration, logging, TLS,
  base64, SHA-1 and MIME tables; statistics and the FreeSWITCH client: I/O, or no state
  of their own.

The reason is with each component in `PROJECT.json`. Most of the repository's lines are
vendored code (`src/dependencies/`), the JavaScript client (`src/api/`) and reports
(`src/coverage/`), none of which is part of the server.
