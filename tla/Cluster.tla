------------------------------ MODULE Cluster ------------------------------
(***************************************************************************)
(* Messages in a cluster of comet servers (CometQLProxy_connection.cpp,    *)
(* the forwarding of web_pipe_msg_v2 in Client_connection.cpp and of       *)
(* internalApi::cluster_send_to_user).                                     *)
(*                                                                         *)
(* A sender is a thread with a link (DbLink) to every node it knows.  A    *)
(* proxy passes the statements of its client on to the nodes.  A client of *)
(* the JS API or of CometQL has its message delivered by the node it is    *)
(* connected to; the node's thread then passes a channel message of the    *)
(* JS API, and a message for a user, on to the other nodes, as a statement *)
(* that query_format cuts at 2000 bytes.                                   *)
(* A statement that comes over such a link begins with cometqlcluster_v1:  *)
(* a node delivers its message to its own connections and to nobody else.  *)
(* A statement whose answer was not waited for may still be carried out    *)
(* later.                                                                  *)
(***************************************************************************)
EXTENDS DbLink, FiniteSets, Sequences, SequencesExt

CONSTANTS
  Node,
  proxyCluster, \* the nodes, in the order of cometqlproxy/cluster
  wsCluster,  \* [Node -> the other nodes, in the order of its ws/cluster]
  Sender,     \* threads that send
  Place,      \* the node each of them runs on, or Proxy
  Proxy,
  Conn,       \* connections of the JS API; a sender may be one
  Home,       \* the node of each of them
  Scripts,    \* what may be sent: functions from Sender to sequences of statements
  MaxFaults   \* bounds the answers and links that are lost and the crashes of nodes

\* A long channel message does not fit into the 2000 bytes of query_format.  Only
\* the proxy adds up what the nodes answer to a select of pipes.
Message == [op : {"pipe"}, long : BOOLEAN] \cup [op : {"user"}, to : Conn]
Request == Message \cup [op : {"count"}]

ASSUME ClusterAssumption ==
  /\ Thread = Sender \X Node
  /\ proxyCluster \in Seq(Node)
  /\ IsInjective(proxyCluster) /\ Range(proxyCluster) = Node
  /\ wsCluster \in [Node -> Seq(Node)]
  /\ \A n \in Node : IsInjective(wsCluster[n]) /\ Range(wsCluster[n]) = Node \ {n}
  /\ Place \in [Sender -> Node \cup {Proxy}] /\ Proxy \notin Node
  /\ IsFiniteSet(Conn) /\ Home \in [Conn -> Node]
  /\ Scripts \subseteq [Sender -> Seq(Request)]
  /\ \A talk \in Scripts, s \in Sender : Place[s] # Proxy => talk[s] \in Seq(Message)
  /\ MaxFaults \in Nat

VARIABLES
  script, served,
  step,       \* how a sender goes through the nodes with its statement
  todo,       \* nodes it has not asked yet, the one it asks first
  sum,        \* the users a select of pipes has added up
  reply,      \* the users the node it asks has counted
  undelivered,\* its message has reached nobody on its own node
  up,         \* nodes that run
  online,     \* connections that are logged in and have subscribed to the channel
  got,        \* messages each connection was sent, in order
  queued,     \* messages in users_queue
  inflight,   \* statements a node has received and nobody waits for
  faults,
  seen        \* ghosts: see Seen

work == <<script, served, step, todo, sum, reply, undelivered>>
nodes == <<up, online, got, queued, inflight>>
vars == <<work, nodes, faults, seen, linkVars>>

Id == UNION {{s} \X DOMAIN script[s] : s \in Sender}
Current(s) == <<s, served[s] + 1>>
Of(id) == script[id[1]][id[2]]
Statement(s) == Of(Current(s))

\* audience: who was online when a statement was begun.  met: who has been since
\* a sender has begun its present one.  unheard: how many answers to a statement
\* were lost.  troubled: links that have failed; those of a node that has
\* crashed are all among them.  executed: nodes that have carried out messages for
\* users.  abandoned: statements of a sender whose node crashed.  unstored: messages
\* that reached nobody and could not be stored.  counts: answers to selects of
\* pipes.
Seen == [audience : [Id -> SUBSET Conn], met : [Sender -> SUBSET Conn],
         unheard : [Id -> Nat], troubled : SUBSET Thread,
         executed : SUBSET (Id \X Node), abandoned : SUBSET Id,
         unstored : SUBSET Id,
         counts : SUBSET [users : Nat, least : Nat, most : Nat]]

TypeOK ==
  /\ LinkTypeOK
  /\ script \in Scripts
  /\ served \in [Sender -> Nat]
  /\ \A s \in Sender : served[s] <= Len(script[s])
  /\ step \in [Sender -> {"idle", "all", "one", "others"}]
  /\ todo \in [Sender -> Seq(Node)]
  /\ \A s \in Sender :
       /\ todo[s] # <<>> => step[s] # "idle" /\ Head(todo[s]) # Place[s]
       /\ \A n \in Node : stage[<<s, n>>] # "idle" => todo[s] # <<>> /\ n = Head(todo[s])
  /\ {sum, reply} \subseteq [Sender -> Nat]
  /\ undelivered \in [Sender -> BOOLEAN]
  /\ up \in SUBSET Node
  /\ online \in SUBSET {c \in Conn : Home[c] \in up}
  /\ got \in [Conn -> Seq(Id)]
  /\ queued \in SUBSET Id
  /\ inflight \in SUBSET (up \X Id \X (1..MaxFaults))
  /\ faults \in 0..MaxFaults
  /\ seen \in Seen

Init ==
  /\ LinkInit
  /\ script \in Scripts
  /\ served = [s \in Sender |-> 0]
  /\ step = [s \in Sender |-> "idle"]
  /\ todo = [s \in Sender |-> <<>>]
  /\ sum = [s \in Sender |-> 0]
  /\ reply = [s \in Sender |-> 0]
  /\ undelivered = [s \in Sender |-> FALSE]
  /\ up = Node
  /\ online \in SUBSET Conn
  /\ got = [c \in Conn |-> <<>>]
  /\ queued = {}
  /\ inflight = {}
  /\ faults = 0
  /\ seen = [audience |-> [id \in Id |-> {}], met |-> [s \in Sender |-> {}],
             unheard |-> [id \in Id |-> 0], troubled |-> {},
             executed |-> {}, abandoned |-> {}, unstored |-> {}, counts |-> {}]

Count(failed) ==
  /\ failed => faults < MaxFaults
  /\ faults' = IF failed THEN faults + 1 ELSE faults

-----------------------------------------------------------------------------
\* What a node does with a message

\* Those who are online but not the sender, or the user it is for.
Receivers(n, id) ==
  {c \in online : /\ Home[c] = n
                  /\ \/ Of(id).op = "pipe" /\ c # id[1]
                     \/ Of(id).op = "user" /\ c = Of(id).to}

Deliver(n, id) ==
  got' = [c \in Conn |-> IF c \in Receivers(n, id) THEN Append(got[c], id) ELSE got[c]]

Users(n, id) ==
  IF Of(id).op = "count" THEN Cardinality({c \in online : Home[c] = n}) ELSE 0

\* A node carries out a statement that came over a link: a message is delivered
\* here, and one for a user who is not is neither passed on nor stored.
Run(n, id) ==
  /\ IF Of(id).op = "count" THEN UNCHANGED got ELSE Deliver(n, id)
  /\ seen' = [seen EXCEPT !.executed = @ \cup
                IF Of(id).op = "user" THEN {<<id, n>>} ELSE {}]

\* A statement nobody waits for is carried out at last.
RunLate(n) ==
  \E id \in Id, k \in 1..MaxFaults :
    /\ <<n, id, k>> \in inflight
    /\ inflight' = inflight \ {<<n, id, k>>}
    /\ Run(n, id)
    /\ UNCHANGED <<work, up, online, queued, faults, linkVars>>

-----------------------------------------------------------------------------
\* A sender begins a statement

Ready(s) == step[s] = "idle" /\ served[s] < Len(script[s])

Begun(s) ==
  seen' = [seen EXCEPT !.audience[Current(s)] = online,
                       !.met[s] = IF Statement(s).op = "count" THEN online ELSE {}]

Go(s, how, list) ==
  /\ step' = [step EXCEPT ![s] = how]
  /\ todo' = [todo EXCEPT ![s] = list]
  /\ Begun(s)
  /\ UNCHANGED <<script, served, sum, reply, up, online, queued, inflight, faults,
                 linkVars>>

\* query_router: an insert into pipes_messages and a select of pipes go to every
\* node, an insert into users_messages to one.  Its client has been told OK.
Route(s) ==
  /\ Ready(s)
  /\ Place[s] = Proxy
  /\ IF Statement(s).op = "user" THEN \E n \in Node : Go(s, "one", <<n>>)
                                 ELSE Go(s, "all", proxyCluster)
  /\ UNCHANGED <<got, undelivered>>

\* sql_insert_into_pipes_messages passes nothing on.
Forwarded(s) == Statement(s).op = "user" \/ s \in Conn

\* web_pipe_msg_v2, cluster_send_to_user: the node's own connections come first.
SendHere(s) ==
  /\ Ready(s)
  /\ Place[s] \in up
  /\ Deliver(Place[s], Current(s))
  /\ undelivered' = [undelivered EXCEPT ![s] = Receivers(Place[s], Current(s)) = {}]
  /\ Go(s, "all", IF Forwarded(s) THEN wsCluster[Place[s]] ELSE <<>>)

-----------------------------------------------------------------------------
\* A sender asks the first of the nodes it has to ask

Link(s) == <<s, Head(todo[s])>>

Ask(s) ==
  /\ todo[s] # <<>>
  /\ stage[Link(s)] = "idle"
  /\ Call(Link(s), "query")
  /\ UNCHANGED <<work, nodes, faults, seen>>

\* A node refuses a channel message that was cut, and what cluster_send_to_user
\* passes on, which lacks a quote.  The proxy passes statements on as they are.
Understood(s) ==
  Place[s] = Proxy \/ (Statement(s).op = "pipe" /\ ~Statement(s).long)

\* The node has the statement, although nobody waits for its answer.
MayCome(o) == o = "unanswered"

\* An attempt; a node that is down is a server that is gone.
Attempted(s, o) ==
  /\ todo[s] # <<>>
  /\ o \in {"ok", "refused", "lost", "unanswered"}
  /\ Execute(Link(s), o)
  /\ LET n == Head(todo[s])  id == Current(s)  reached == n \in up /\ usable[Link(s)] IN
       /\ ~reached => o = "lost"
       /\ o # "lost" => (o = "refused" <=> ~Understood(s))
       /\ Count(reached /\ o \in {"lost", "unanswered"})
       /\ IF o = "ok"
            THEN /\ Run(n, id)
                 /\ reply' = [reply EXCEPT ![s] = Users(n, id)]
            ELSE /\ seen' = [seen EXCEPT
                               !.troubled = @ \cup IF o = "refused" THEN {} ELSE {Link(s)},
                               !.unheard[id] = @ + IF o = "unanswered" THEN 1 ELSE 0]
                 /\ UNCHANGED <<got, reply>>
       /\ inflight' = inflight \cup
                        IF MayCome(o) /\ reached THEN {<<n, id, faults'>>} ELSE {}
  /\ UNCHANGED <<script, served, step, todo, sum, undelivered, up, online, queued>>

Relink(s, ok) ==
  /\ todo[s] # <<>>
  /\ ok => Head(todo[s]) \in up
  /\ Reconnect(Link(s), ok)
  /\ Count(~ok /\ Head(todo[s]) \in up)
  /\ seen' = [seen EXCEPT !.troubled = @ \cup IF ok THEN {} ELSE {Link(s)}]
  /\ UNCHANGED <<work, nodes>>

Answered(s) == todo[s] # <<>> /\ stage[Link(s)] = "done"

\* Fault: the answer of the node is not released.
AskedUnread(s, how, list) ==
  /\ step' = [step EXCEPT ![s] = how]
  /\ todo' = [todo EXCEPT ![s] = list]
  /\ UNCHANGED <<script, served, reply, undelivered, nodes, linkVars>>

Asked(s, how, list) ==
  /\ step' = [step EXCEPT ![s] = how]
  /\ todo' = [todo EXCEPT ![s] = list]
  /\ Rest(Link(s))
  /\ UNCHANGED <<script, served, reply, undelivered, nodes>>

\* Fault: the first error ends the loop.
AskNextStops(s) ==
  /\ Answered(s)
  /\ step[s] = "all"
  /\ sum' = [sum EXCEPT ![s] = @ + IF result[Link(s)] = "ok" THEN reply[s] ELSE 0]
  /\ Asked(s, "all", IF result[Link(s)] = "ok" THEN Tail(todo[s]) ELSE <<>>)
  /\ UNCHANGED <<faults, seen>>

\* Fault: the row of the last answer is added once more after an error.
AskNextStale(s) ==
  /\ Answered(s)
  /\ step[s] = "all"
  /\ sum' = [sum EXCEPT ![s] = @ + reply[s]]
  /\ Asked(s, "all", Tail(todo[s]))
  /\ UNCHANGED <<faults, seen>>

\* proxy_insert with PROXY_TO_ALL and the forwarding loops: an error is ignored.
\* sql_select_from_pipes adds up what the nodes answer.
AskNext(s) ==
  /\ Answered(s)
  /\ step[s] = "all"
  /\ sum' = [sum EXCEPT ![s] = @ + IF result[Link(s)] = "ok" THEN reply[s] ELSE 0]
  /\ Asked(s, "all", Tail(todo[s]))
  /\ UNCHANGED <<faults, seen>>

\* An answer that cannot be stored: sql_select_from_pipes asks the node again.
AskAgain(s) ==
  /\ Answered(s)
  /\ Statement(s).op = "count" /\ result[Link(s)] = "ok"
  /\ Count(TRUE)
  /\ seen' = [seen EXCEPT !.troubled = @ \cup {Link(s)}]
  /\ Asked(s, "all", todo[s])
  /\ UNCHANGED sum

\* Fault: the loop has no break.
AskAnotherStill(s) ==
  /\ Answered(s)
  /\ step[s] \in {"one", "others"}
  /\ IF result[Link(s)] = "ok" /\ step[s] = "one" THEN Asked(s, "one", <<>>)
     ELSE Asked(s, "others", IF step[s] = "one" THEN proxyCluster ELSE Tail(todo[s]))
  /\ UNCHANGED <<sum, faults, seen>>

\* Fault: the loop does not go on after an error.
AskAnotherStuck(s) ==
  /\ Answered(s)
  /\ step[s] \in {"one", "others"}
  /\ IF result[Link(s)] = "ok" THEN Asked(s, step[s], <<>>)
     ELSE Asked(s, "others", IF step[s] = "one" THEN proxyCluster ELSE todo[s])
  /\ UNCHANGED <<sum, faults, seen>>

\* proxy_insert with PROXY_TO_RANDOM: after an error the nodes are asked in
\* order until one has carried the statement out.
AskAnother(s) ==
  /\ Answered(s)
  /\ step[s] \in {"one", "others"}
  /\ IF result[Link(s)] = "ok" THEN Asked(s, step[s], <<>>)
     ELSE Asked(s, "others", IF step[s] = "one" THEN proxyCluster ELSE Tail(todo[s]))
  /\ UNCHANGED <<sum, faults, seen>>

\* Fault: what was delivered is stored too.
ToStoreAll(s) == Statement(s).op = "user" /\ Place[s] # Proxy

\* cluster_send_to_user stores what reached nobody.
ToStore(s) == Statement(s).op = "user" /\ undelivered[s]

\* The statement is done.  Nobody looks whether the message could be stored.
Finish(s, stored) ==
  /\ step[s] # "idle"
  /\ todo[s] = <<>>
  /\ ~stored => ToStore(s)
  /\ Count(~stored)
  /\ served' = [served EXCEPT ![s] = @ + 1]
  /\ step' = [step EXCEPT ![s] = "idle"]
  /\ queued' = queued \cup IF ToStore(s) /\ stored THEN {Current(s)} ELSE {}
  /\ sum' = [sum EXCEPT ![s] = 0]
  /\ reply' = [reply EXCEPT ![s] = 0]
  /\ undelivered' = [undelivered EXCEPT ![s] = FALSE]
  /\ LET sure == {c \in seen.audience[Current(s)] : <<s, Home[c]>> \notin seen.troubled} IN
       seen' = [seen EXCEPT !.met[s] = {},
                  !.unstored = @ \cup IF stored THEN {} ELSE {Current(s)},
                  !.counts = @ \cup
                    IF Statement(s).op = "count"
                      THEN {[users |-> sum[s], least |-> Cardinality(sure),
                             most |-> Cardinality(seen.met[s])]}
                      ELSE {}]
  /\ UNCHANGED <<script, todo, up, online, got, inflight, linkVars>>

-----------------------------------------------------------------------------
\* Nodes and connections

\* The process of a node ends: its connections are gone, and what its senders
\* were doing.
Crash(n) ==
  /\ n \in up
  /\ Count(TRUE)
  /\ up' = up \ {n}
  /\ online' = {c \in online : Home[c] # n}
  /\ inflight' = {f \in inflight : f[1] # n}
  /\ LET gone == {s \in Sender : Place[s] = n}  old == {t \in Thread : t[1] \in gone} IN
       /\ served' = [s \in Sender |-> IF s \in gone THEN Len(script[s]) ELSE served[s]]
       /\ step' = [s \in Sender |-> IF s \in gone THEN "idle" ELSE step[s]]
       /\ todo' = [s \in Sender |-> IF s \in gone THEN <<>> ELSE todo[s]]
       /\ undelivered' = [s \in Sender |-> undelivered[s] /\ s \notin gone]
       /\ stage' = [t \in Thread |-> IF t \in old THEN "idle" ELSE stage[t]]
       /\ seen' = [seen EXCEPT
            !.troubled = @ \cup {t \in Thread : t[2] = n},
            !.abandoned = @ \cup {id \in Id : id[1] \in gone /\ id[2] > served[id[1]]}]
  /\ UNCHANGED <<script, sum, reply, got, queued, kind, usable, applied, unheard, result>>

Restart(n) ==
  /\ n \notin up
  /\ up' = up \cup {n}
  /\ UNCHANGED <<work, online, got, queued, inflight, faults, seen, linkVars>>

Counting(s) == step[s] # "idle" /\ Statement(s).op = "count"

\* A client logs in and subscribes.
Join(c) ==
  /\ c \notin online
  /\ Home[c] \in up
  /\ online' = online \cup {c}
  /\ seen' = [seen EXCEPT !.met = [s \in Sender |-> seen.met[s] \cup IF Counting(s) THEN {c} ELSE {}]]
  /\ UNCHANGED <<work, up, got, queued, inflight, faults, linkVars>>

SenderStep(s) ==
  \/ Route(s) \/ SendHere(s) \/ Ask(s)
  \/ \E o \in Outcome : Attempted(s, o)
  \/ \E ok \in BOOLEAN : Relink(s, ok)
  \/ AskNext(s) \/ AskAgain(s) \/ AskAnother(s)
  \/ \E stored \in BOOLEAN : Finish(s, stored)

Next ==
  \/ \E s \in Sender : SenderStep(s)
  \/ \E n \in Node : RunLate(n) \/ Crash(n) \/ Restart(n)
  \/ \E c \in Conn : Join(c)

Spec == Init /\ [][Next]_vars

\* The threads of the senders run: a node answers or is taken for lost after
\* the read timeout, and the clients read what they are sent.
FairSpec == Spec /\ \A s \in Sender : WF_vars(SenderStep(s))

-----------------------------------------------------------------------------
\* Properties

Finished == {id \in Id \ seen.abandoned : id[2] <= served[id[1]]}

Times(id, c) == Cardinality({i \in DOMAIN got[c] : got[c][i] = id})

\* A proxy passes every channel message on, a node the short ones of the JS API.
PassedOn(id) ==
  Place[id[1]] = Proxy \/ (Of(id).op = "pipe" /\ id[1] \in Conn /\ ~Of(id).long)

\* Whom a message is for: whoever is on the sender's own node, and on the others
\* if it is passed on.
Addressed(id, c) == PassedOn(id) \/ Home[c] = Place[id[1]]

\* A node that is down, whose answers are lost or that refused an earlier
\* message keeps nobody on the other nodes, or from later messages: a channel
\* message has reached whoever it is for and was online when it was sent, but
\* for those on nodes its sender had trouble with (proxy_insert 337-350,
\* web_pipe_msg_v2 1619-1641).
Reached ==
  \A id \in Finished : Of(id).op = "pipe" =>
    \A c \in seen.audience[id] \ {id[1]} :
      Addressed(id, c) => Times(id, c) > 0 \/ <<id[1], Home[c]>> \in seen.troubled

\* A client is shown a message again only because an answer was lost
\* (dbLink::query repeats what was not answered).
AgainOnlyIfUnheard ==
  \A id \in Id, c \in Conn : Times(id, c) <= 1 + seen.unheard[id]

\* Messages of one sender whose answers were not lost reach a client in the
\* order in which they were sent, though each passes through several nodes.
SentInOrder ==
  \A c \in Conn : \A i, j \in DOMAIN got[c] :
    LET m == got[c][i]  n == got[c][j] IN
      i < j /\ m[1] = n[1] /\ seen.unheard[m] = 0 /\ seen.unheard[n] = 0 => m[2] < n[2]

\* What a client is shown is what was sent: once, but for lost answers, and in order.
AsSent == AgainOnlyIfUnheard /\ SentInOrder

\* A message the proxy passes on for one user is carried out by one node alone,
\* unless an answer was lost or every node was in trouble (proxy_insert 277-316).
OneNode ==
  \A id \in Finished :
    /\ Place[id[1]] = Proxy /\ Of(id).op = "user"
    /\ seen.unheard[id] = 0
    /\ \E n \in Node : <<id[1], n>> \notin seen.troubled
    => \E n \in Node : {m \in Node : <<id, m>> \in seen.executed} = {n}

\* The number of users the proxy reports for a channel counts everybody on a
\* node it had no trouble with, and nobody twice (sql_select_from_pipes).
CountIsTrue == \A r \in seen.counts : r.least <= r.users /\ r.users <= r.most

\* A message for a user is delivered or stored for him.
Kept(id) == Times(id, Of(id).to) > 0 \/ id \in queued

\* What is sent to a user on a node of the cluster is delivered or stored, or
\* its insert has failed, and it is never both (cluster_send_to_user 68-118).
DirectKept ==
  \A id \in Finished : Of(id).op = "user" /\ Place[id[1]] # Proxy =>
    /\ Kept(id) \/ id \in seen.unstored
    /\ id \in queued => Times(id, Of(id).to) = 0

\* What is sent to a user through the proxy is delivered or stored
\* (MySql_connection.cpp 2335).
UserMessageKept ==
  \A id \in Finished : Of(id).op = "user" => Kept(id)

\* Every sender is done with all its statements, whatever nodes are down.
AllServed == <>(\A s \in Sender : served[s] = Len(script[s]))
=============================================================================
