------------------------------ MODULE UserIndex ------------------------------
(***************************************************************************)
(* The index of authorised users (user_index.h, user_index.cpp): for each  *)
(* user in memory a `useritem' with a table of MAX_CONECTION_ON_USER_ID    *)
(* connection identifiers and the time the user was last online.           *)
(*                                                                         *)
(* One shard of one dev_id is modelled: every operation below runs under   *)
(* the mutex of the user's shard (request_mutex[user_id % 51]), including  *)
(* the event it sends to the pipe user_status_N and its SQL statement, so  *)
(* each is one action.  What the code keeps in the useritem's hash field   *)
(* is the subject of a module of its own.  The options                     *)
(* send_user_online_events and send_user_offline_events are taken to be    *)
(* true, as in comet.ini.                                                  *)
(***************************************************************************)
EXTENDS Integers, FiniteSets, FiniteSetsExt

CONSTANTS
  User,      \* user_id values, all in one shard
  Conn,      \* connection identifiers: the descriptors accept() returns
  NoUser,    \* web_user_id = 0
  MaxConn,   \* MAX_CONECTION_ON_USER_ID
  MaxMap,    \* MAX_MAP_SIZE
  SaveTime,  \* comet.ini: save_users_last_online_time
  Cluster,   \* thread_data::isWSClusterActive()
  DbFails,   \* may a statement on users_time fail?
  Restarts   \* may the process stop and start again?

NotConnected == -1   \* USER_INDEX_NO_CONNECT
Unknown == -1        \* last_online_time not loaded, or no row in users_time
Online == 0          \* last_online_time of a user who is online
Left == 1            \* any time(0) > 0 at which a user went offline

ASSUME UserIndexAssumption ==
  /\ Conn \subseteq Nat \ {0}
  /\ NoUser \notin User
  /\ MaxConn \in Nat \ {0}
  /\ MaxMap \in Nat
  /\ {SaveTime, Cluster, DbFails, Restarts} \subseteq BOOLEAN

VARIABLES
  map_index,         \* the users that have a useritem in memory
  conection_ids,     \* [User -> [slot -> Conn, 0 (never used) or -1]]
  last_online_time,  \* [User -> Unknown, Online or Left]
  users_time,        \* the SQL table users_time; Unknown when there is no row
  user_status,       \* the last event sent to the pipe user_status_N
  web_user_id        \* per open connection, the user it is authorised as

vars == <<map_index, conection_ids, last_online_time, users_time,
          user_status, web_user_id>>

Slot == 1..MaxConn
Time == {Unknown, Online, Left}
NoSlots == [i \in Slot |-> 0]

TypeOK ==
  /\ map_index \subseteq User
  /\ conection_ids \in [User -> [Slot -> Conn \cup {0, NotConnected}]]
  /\ last_online_time \in [User -> Time]
  /\ users_time \in [User -> Time]
  /\ user_status \in [User -> {"none", "online", "offline"}]
  /\ web_user_id \in [Conn -> User \cup {NoUser}]

Init ==
  /\ map_index = {}
  /\ conection_ids = [u \in User |-> NoSlots]
  /\ last_online_time = [u \in User |-> Unknown]
  /\ users_time = [u \in User |-> Unknown]
  /\ user_status = [u \in User |-> "none"]
  /\ web_user_id = [c \in Conn |-> NoUser]

-----------------------------------------------------------------------------
\* useritem

Used(ids) == {i \in Slot : ids[i] > 0}

\* The table of a user's item; a new item starts with an empty one.
Ids(u) == IF u \in map_index THEN conection_ids[u] ELSE NoSlots

\* `replace into users_time': a failed query is not noticed by the caller.
SaveUsersTime(u, t) ==
  \/ users_time' = [users_time EXCEPT ![u] = t]
  \/ DbFails /\ UNCHANGED users_time

setOnline_time(u) ==
  /\ last_online_time' = [last_online_time EXCEPT ![u] = Online]
  /\ IF SaveTime /\ ~Cluster THEN SaveUsersTime(u, Online)
                             ELSE UNCHANGED users_time
  /\ user_status' = [user_status EXCEPT ![u] = "online"]

setOffline_time(u) ==
  /\ last_online_time' = [last_online_time EXCEPT ![u] = Left]
  /\ IF SaveTime THEN SaveUsersTime(u, Left) ELSE UNCHANGED users_time
  /\ user_status' = [user_status EXCEPT ![u] = "offline"]

\* Fault: the loop starts one element before the table.
WithIdOffByOne(ids, c) ==
  LET i == Min((0..MaxConn) \ Used(ids))
  IN  [j \in Slot \cup {i} |-> IF j = i THEN c ELSE ids[j]]

\* The identifier goes to the first free slot; when there is none the
\* connection stays authorised but is not in the table.
WithId(ids, c) ==
  LET free == Slot \ Used(ids)
  IN  IF free = {} THEN ids ELSE [ids EXCEPT ![Min(free)] = c]

setConection_id(u, c) ==
  /\ conection_ids' = [conection_ids EXCEPT ![u] = WithId(Ids(u), c)]
  /\ IF Used(Ids(u)) = {}
     THEN setOnline_time(u)
     ELSE UNCHANGED <<last_online_time, users_time, user_status>>

\* Fault: the loop starts at the second slot.
WithoutIdOffByOne(ids, c) ==
  LET held == {i \in Slot \ {1} : ids[i] = c}
  IN  IF held = {} THEN ids ELSE [ids EXCEPT ![Min(held)] = NotConnected]

\* The first slot that holds the identifier is freed, if there is one.
WithoutId(ids, c) ==
  LET held == {i \in Slot : ids[i] = c}
  IN  IF held = {} THEN ids ELSE [ids EXCEPT ![Min(held)] = NotConnected]

\* Fault: the remaining connections are not looked at.
unsetConection_idUnchecked(u, c) ==
  /\ conection_ids' = [conection_ids EXCEPT ![u] = WithoutId(conection_ids[u], c)]
  /\ setOffline_time(u)

unsetConection_id(u, c) ==
  LET ids == WithoutId(conection_ids[u], c)
  IN  /\ conection_ids' = [conection_ids EXCEPT ![u] = ids]
      /\ IF Used(ids) = {}
         THEN setOffline_time(u)
         ELSE UNCHANGED <<last_online_time, users_time, user_status>>

-----------------------------------------------------------------------------
\* user_index

\* A connection whose authorisation data was accepted is linked to its user.
set_link(u, c) ==
  /\ web_user_id[c] = NoUser
  /\ map_index' = map_index \cup {u}
  /\ setConection_id(u, c)
  /\ web_user_id' = [web_user_id EXCEPT ![c] = u]

\* Client_connection::set_offline unlinks the connection it closes.
un_link(u, c) ==
  /\ web_user_id[c] = u
  /\ web_user_id' = [web_user_id EXCEPT ![c] = NoUser]
  /\ IF u \in map_index
     THEN unsetConection_id(u, c)
     ELSE UNCHANGED <<conection_ids, last_online_time, users_time, user_status>>
  /\ UNCHANGED map_index

\* A connection that is closed before it was accepted: it is unlinked from the
\* user its request names, in whose table it is not.
un_linkRefused(u, c) ==
  /\ web_user_id[c] = NoUser
  /\ u \in map_index
  /\ unsetConection_id(u, c)
  /\ UNCHANGED <<map_index, web_user_id>>

\* Fault: users who are online are thrown out as well.
EvictedAll == IF Cardinality(map_index) > MaxMap THEN map_index ELSE {}

\* What add_hash throws out of a shard that has grown too large.
Evicted ==
  IF Cardinality(map_index) > MaxMap
  THEN {v \in map_index : last_online_time[v] # Online}
  ELSE {}

\* A hash for a user who has no item: items of offline users make room.  For a
\* user who has one, add_hash only stores the hash.
add_hash(u) ==
  /\ u \notin map_index
  /\ map_index' = (map_index \ Evicted) \cup {u}
  /\ conection_ids' = [conection_ids EXCEPT ![u] = NoSlots]
  /\ last_online_time' = [last_online_time EXCEPT ![u] = Unknown]
  /\ UNCHANGED <<users_time, user_status, web_user_id>>

\* The answer to `select time from users_time where id = u'.
Reported(u) ==
  IF u \in map_index
  THEN IF last_online_time[u] = Unknown THEN users_time[u]
                                        ELSE last_online_time[u]
  ELSE IF users_time[u] = Online THEN Unknown ELSE users_time[u]

\* Asking for the time also stores in the item what the table says.
get_last_online_time(u) ==
  /\ u \in map_index
  /\ last_online_time[u] = Unknown
  /\ last_online_time' = [last_online_time EXCEPT ![u] = users_time[u]]
  /\ UNCHANGED <<map_index, conection_ids, users_time, user_status, web_user_id>>

\* The process ends (a signal handler calls exit, or it is killed) and is
\* started again: memory and connections are gone, the tables remain.
Restart ==
  /\ Restarts
  /\ map_index' = {}
  /\ conection_ids' = [u \in User |-> NoSlots]
  /\ last_online_time' = [u \in User |-> Unknown]
  /\ user_status' = [u \in User |-> "none"]
  /\ web_user_id' = [c \in Conn |-> NoUser]
  /\ UNCHANGED users_time

Next ==
  \/ \E u \in User, c \in Conn : set_link(u, c) \/ un_link(u, c) \/ un_linkRefused(u, c)
  \/ \E u \in User : add_hash(u) \/ get_last_online_time(u)
  \/ Restart

Spec == Init /\ [][Next]_vars

-----------------------------------------------------------------------------
\* Properties

Linked(u) == {c \in Conn : web_user_id[c] = u}

\* The table never names a connection that is not open and authorised as this
\* user, nor the same one twice, and an item with a connection is neither
\* marked offline (which would let add_hash evict it) nor announced offline.
\* Holds whatever the load, the failures and the restarts.
RegisteredIsOnline ==
  \A u \in map_index : \A i \in Used(conection_ids[u]) :
    /\ conection_ids[u][i] \in Linked(u)
    /\ \A j \in Slot : conection_ids[u][j] = conection_ids[u][i] => j = i
    /\ last_online_time[u] = Online
    /\ user_status[u] = "online"

\* With at most MAX_CONECTION_ON_USER_ID connections, a message to a user
\* finds every connection the user has: each is in the table of an item that
\* is still in memory.
EveryDeviceRegistered ==
  \A u \in User : \A c \in Linked(u) :
    u \in map_index /\ \E i \in Slot : conection_ids[u][i] = c

\* The last event in user_status_N tells whether the user has a connection
\* (comment of useritem::unsetConection_id: setOffline_time is called when
\* the connection that goes away is the user's last one).
StatusTruth ==
  \A u \in User : user_status[u] = "online" <=> Linked(u) # {}

\* `select ... from users_time' answers 0 exactly for the users that are
\* online now.
TimeTruth ==
  \A u \in User : Reported(u) = Online <=> Linked(u) # {}
=============================================================================
