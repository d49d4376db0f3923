------------------------------- MODULE Pipes -------------------------------
(***************************************************************************)
(* Channels and their subscribers: the linked lists of descriptors         *)
(* (devManager.h: fastList, Pipe), the command `subscription' of the JS    *)
(* API and the end of a connection (Client_connection.cpp), and the        *)
(* sending of an event to a channel (internalApi.cpp).                     *)
(*                                                                         *)
(* A list is changed under its mutex, but a sender walks through it        *)
(* without: it holds a counted pointer to one item and follows `next' from *)
(* there, also when the item has been removed meanwhile.  One access to a  *)
(* list, to the map of open connections or to a socket is one action.      *)
(*                                                                         *)
(* A channel name is a model value.  A request names at most MaxSub        *)
(* channels, as many as un_subscription's bzero clears (32 bytes of an     *)
(* array of pointers), so that what it leaves behind is left out.          *)
(***************************************************************************)
EXTENDS Integers, Sequences, FiniteSets, FiniteSetsExt, Functions

CONSTANTS
  Pipe,      \* channels
  Track,     \* those named track_*
  Private,   \* those named private_*
  Conn,      \* connections, each opened once; a thread of its own handles each
  Guests,    \* connections that are not authorised
  Fd,        \* descriptors
  Requests,  \* what a client subscribes to: sequences of channels
  MaxSub,    \* bound on their length
  MaxAsks,   \* bound on all the subscription commands
  Sender,    \* threads that send an event to a channel
  Kicker,    \* threads that close connections of others
  MaxItem,   \* bound on the list items that exist at a time
  None,
  Reuse      \* may a descriptor be used again after close?

ASSUME PipesAssumption ==
  /\ Fd = 1..Cardinality(Fd)
  /\ IsFiniteSet(Fd) /\ IsFiniteSet(Conn)
  /\ Conn \cap Sender = {} /\ Conn \cap Kicker = {} /\ Sender \cap Kicker = {}
  /\ {MaxSub, MaxAsks, MaxItem} \subseteq Nat
  /\ Requests \subseteq UNION {[1..n -> Pipe] : n \in 0..MaxSub}
  /\ None \notin Pipe \cup Conn
  /\ Reuse \in BOOLEAN

VARIABLES
  first,         \* [Pipe -> the item its list begins with]
  next,          \* [Item -> the item that follows it]
  data,          \* [Item -> the descriptor of a subscriber]
  map_index,     \* [Fd -> the connection found under the descriptor]
  fd,            \* [Conn -> its descriptor, Closed before and after]
  isOnLine,      \* the connections whose field isOnLine is true
  subscriptions, \* [Conn -> the channels it remembers to leave]
  pc,            \* [Thread -> what it does next]
  back,          \* [Thread -> what it does after an event it sends]
  at,            \* [Thread -> index in subscriptions of the channel in hand]
  client,        \* [Thread -> the connection it handles]
  pipe,          \* [Thread -> the channel it sends to]
  it,            \* [Thread -> the item it holds while it sends]
  r,             \* [Thread -> the connection it has looked up]
  due,           \* [Thread -> who was subscribed all the time while it sends]
  served,        \* [Thread -> whom it has written to]
  asked          \* [Conn -> its subscription commands so far]

lists == <<first, next, data>>
conns == <<map_index, fd, isOnLine, subscriptions, asked>>
send == <<pipe, it, r, due, served, back>>
vars == <<first, next, data, map_index, fd, isOnLine, subscriptions, pc, back,
          at, client, pipe, it, r, due, served, asked>>

Closed == -1
Nil == 0
Item == 1..MaxItem
Slot == 1..MaxSub
Thread == Conn \cup Sender \cup Kicker

TypeOK ==
  /\ first \in [Pipe -> Item \cup {Nil}]
  /\ next \in [Item -> Item \cup {Nil}]
  /\ data \in [Item -> Fd \cup {Closed}]
  /\ map_index \in [Fd -> Conn \cup {None}]
  /\ fd \in [Conn -> Fd \cup {Closed}]
  /\ isOnLine \subseteq Conn
  /\ subscriptions \in [Conn -> [Slot -> Pipe \cup {None}]]
  /\ pc \in [Thread -> {"new", "idle", "unsub", "quit", "name", "insert", "begin", "get", "message",
                        "erase", "next", "sent", "leave", "offline", "reset", "close", "gone"}]
  /\ back \in [Thread -> {"idle", "unsub", "quit", "insert"}]
  /\ at \in [Thread -> 1..MaxSub + 1]
  /\ client \in [Thread -> Conn \cup {None}]
  /\ pipe \in [Thread -> Pipe \cup {None}]
  /\ it \in [Thread -> Item \cup {Nil}]
  /\ r \in [Thread -> Conn \cup {None}]
  /\ due \in [Thread -> SUBSET Conn]
  /\ served \in [Thread -> SUBSET Conn]
  /\ asked \in [Conn -> UNION {[1..n -> Requests] : n \in 0..MaxAsks}]

NoSlots == [i \in Slot |-> None]

\* The channels in the last subscription command, and in all of them.
Request(c) == IF asked[c] = <<>> THEN <<>> ELSE asked[c][Len(asked[c])]
Asked(c) == UNION {Range(names) : names \in Range(asked[c])}

Init ==
  /\ first = [p \in Pipe |-> Nil]
  /\ next = [i \in Item |-> Nil]
  /\ data = [i \in Item |-> Closed]
  /\ map_index = [f \in Fd |-> None]
  /\ fd = [c \in Conn |-> Closed]
  /\ isOnLine = {}
  /\ subscriptions = [c \in Conn |-> NoSlots]
  /\ pc = [t \in Thread |-> IF t \in Conn THEN "new" ELSE "idle"]
  /\ back = [t \in Thread |-> "idle"]
  /\ at = [t \in Thread |-> 1]
  /\ client = [t \in Thread |-> IF t \in Conn THEN t ELSE None]
  /\ pipe = [t \in Thread |-> None]
  /\ it = [t \in Thread |-> Nil]
  /\ r = [t \in Thread |-> None]
  /\ due = [t \in Thread |-> {}]
  /\ served = [t \in Thread |-> {}]
  /\ asked = [c \in Conn |-> <<>>]

Go(t, there) == pc' = [pc EXCEPT ![t] = there]

-----------------------------------------------------------------------------
\* fastList

\* The items one comes to from i when n is followed.
Chain(i, n) ==
  LET from[j \in Item \cup {Nil}] == IF j = Nil THEN {} ELSE {j} \cup from[n[j]]
  IN  from[i]

Entries(p) == Chain(first[p], next)

\* The items that a channel or a thread still points to.
Live(f, n, held) ==
  (UNION {Chain(f[p], n) : p \in Pipe}) \cup (UNION {Chain(held[t], n) : t \in Thread})

\* The pointers are f, n and those the threads hold; an item without any is
\* deleted.
Pointers(f, n, d, held) ==
  LET live == Live(f, n, held)
  IN  /\ first' = f
      /\ next' = [i \in Item |-> IF i \in live THEN n[i] ELSE Nil]
      /\ data' = [i \in Item |-> IF i \in live THEN d[i] ELSE Closed]
      /\ it' = held

\* A new item is put in front.
append(p, id) ==
  LET new == Min(Item \ Live(first, next, it))
  IN  Pointers([first EXCEPT ![p] = new],
               [next EXCEPT ![new] = first[p]],
               [data EXCEPT ![new] = id],
               it)

\* The first item with this descriptor, Nil if there is none.
Found(p, id) ==
  LET from[j \in Item \cup {Nil}] == IF j = Nil \/ data[j] = id THEN j ELSE from[next[j]]
  IN  from[first[p]]

\* Fault: the removed item no longer leads to the rest of the list.
removeUnlinks(p, id) ==
  LET i == Found(p, id) IN
  IF i = Nil THEN UNCHANGED <<lists, it>>
  ELSE Pointers([first EXCEPT ![p] = IF @ = i THEN next[i] ELSE @],
                [j \in Item |-> IF j = i THEN Nil
                                ELSE IF next[j] = i THEN next[i] ELSE next[j]],
                data, it)

\* It is cut out of the list.  What it points to stays, and so does what points
\* to it from items that were cut out before.
remove(p, id) ==
  LET i == Found(p, id) IN
  IF i = Nil THEN UNCHANGED <<lists, it>>
  ELSE Pointers([first EXCEPT ![p] = IF @ = i THEN next[i] ELSE @],
                [j \in Item |-> IF next[j] = i /\ j \in Entries(p) THEN next[i] ELSE next[j]],
                data, it)

-----------------------------------------------------------------------------
\* A connection is opened and asks for channels.

Unused ==
  {f \in Fd : /\ \A c \in Conn : fd[c] # f
              /\ Reuse \/ f > Cardinality({c \in Conn : pc[c] # "new"})}

Open(c) ==
  /\ pc[c] = "new"
  /\ Unused # {}
  /\ fd' = [fd EXCEPT ![c] = Min(Unused)]
  /\ map_index' = [map_index EXCEPT ![Min(Unused)] = c]
  /\ isOnLine' = isOnLine \cup {c}
  /\ Go(c, "idle")
  /\ UNCHANGED <<lists, subscriptions, asked, at, client, send>>

MayAsk == Cardinality(UNION {{c} \X DOMAIN asked[c] : c \in Conn}) < MaxAsks

\* No longer subscribed all the time.
Leaves(c) == due' = [t \in Thread |-> due[t] \ {c}]

\* Fault: the channels asked for before are not left.
subscriptionAdds(c, names) ==
  /\ pc[c] = "idle" /\ fd[c] # Closed
  /\ MayAsk
  /\ asked' = [asked EXCEPT ![c] = Append(@, names)]
  /\ at' = [at EXCEPT ![c] = 1]
  /\ Leaves(c)
  /\ Go(c, "name")
  /\ UNCHANGED <<lists, map_index, fd, isOnLine, subscriptions, client, pipe, it, r,
                 served, back>>

subscription(c, names) ==
  /\ pc[c] = "idle" /\ fd[c] # Closed
  /\ MayAsk
  /\ asked' = [asked EXCEPT ![c] = Append(@, names)]
  /\ at' = [at EXCEPT ![c] = 1]
  /\ Leaves(c)
  /\ Go(c, "unsub")
  /\ UNCHANGED <<lists, map_index, fd, isOnLine, subscriptions, client, pipe, it, r,
                 served, back>>

\* ws_subscription: one channel of the request.  A guest who comes to a
\* private one gets no further: the loop does not move on to the next name,
\* and when what is left is too long for one the connection is closed.
ws_subscription(c) ==
  /\ pc[c] = "name"
  /\ IF at[c] > Len(Request(c))
     THEN /\ Go(c, "idle")
          /\ at' = [at EXCEPT ![c] = 1]
          /\ UNCHANGED <<subscriptions, pipe, back>>
     ELSE LET p == Request(c)[at[c]] IN
          /\ UNCHANGED at
          /\ subscriptions' = [subscriptions EXCEPT ![c][at[c]] = p]
          /\ IF p \in Private /\ c \in Guests
             THEN /\ \/ Go(c, "idle")
                     \/ at[c] < Len(Request(c)) /\ Go(c, "leave")
                  /\ UNCHANGED <<pipe, back>>
             ELSE IF p \in Track
             THEN /\ Go(c, "begin")
                  /\ pipe' = [pipe EXCEPT ![c] = p]
                  /\ back' = [back EXCEPT ![c] = "insert"]
             ELSE /\ Go(c, "insert")
                  /\ UNCHANGED <<pipe, back>>
  /\ UNCHANGED <<lists, map_index, fd, isOnLine, asked, client, it, r, due, served>>

insert(c) ==
  /\ pc[c] = "insert"
  /\ Live(first, next, it) # Item
  /\ append(Request(c)[at[c]], fd[c])
  /\ at' = [at EXCEPT ![c] = @ + 1]
  /\ Go(c, "name")
  /\ UNCHANGED <<conns, client, pipe, r, due, served, back>>

-----------------------------------------------------------------------------
\* Channels are left: before others are asked for, and at the end.

Unsubscribing(t) == at[t] \in Slot /\ subscriptions[client[t]][at[t]] # None

un_subscription(t) ==
  LET c == client[t]
      p == subscriptions[c][at[t]]
  IN  /\ pc[t] \in {"unsub", "quit"}
      /\ IF Unsubscribing(t)
         THEN /\ remove(p, fd[c])
              /\ at' = [at EXCEPT ![t] = @ + 1]
              /\ IF p \in Track
                 THEN /\ Go(t, "begin")
                      /\ pipe' = [pipe EXCEPT ![t] = p]
                      /\ back' = [back EXCEPT ![t] = pc[t]]
                 ELSE UNCHANGED <<pc, pipe, back>>
              /\ UNCHANGED subscriptions
         ELSE /\ subscriptions' = [subscriptions EXCEPT ![c] = NoSlots]
              /\ at' = [at EXCEPT ![t] = 1]
              /\ Go(t, IF pc[t] = "unsub" THEN "name" ELSE "close")
              /\ UNCHANGED <<lists, it, pipe, back>>
      /\ UNCHANGED <<map_index, fd, isOnLine, asked, client, r, due, served>>

\* The client goes away, or another thread throws it out.
hangup(c) ==
  /\ pc[c] = "idle" /\ fd[c] # Closed
  /\ Leaves(c)
  /\ Go(c, "leave")
  /\ UNCHANGED <<lists, conns, at, client, pipe, it, r, served, back>>

kick(k, c) ==
  /\ pc[k] = "idle"
  /\ c \in Range(map_index)
  /\ client' = [client EXCEPT ![k] = c]
  /\ Leaves(c)
  /\ Go(k, "leave")
  /\ UNCHANGED <<lists, conns, at, pipe, it, r, served, back>>

Leave(t) == Go(t, IF t \in Conn THEN "gone" ELSE "idle")

deleteClientFromMap(t) ==
  /\ pc[t] = "leave"
  /\ map_index' = [f \in Fd |-> IF f = fd[client[t]] THEN None ELSE map_index[f]]
  /\ Go(t, "offline")
  /\ UNCHANGED <<lists, fd, isOnLine, subscriptions, asked, at, client, send>>

\* The threads that find the connection online leave its channels.
set_offline(t) ==
  /\ pc[t] = "offline"
  /\ IF fd[client[t]] = Closed THEN Leave(t)
     ELSE Go(t, IF client[t] \in isOnLine THEN "reset" ELSE "close")
  /\ UNCHANGED <<lists, conns, at, client, send>>

\* Fault: the channels are counted from zero.
resetZero(t) ==
  /\ pc[t] = "reset"
  /\ isOnLine' = isOnLine \ {client[t]}
  /\ at' = [at EXCEPT ![t] = 0]
  /\ Go(t, "quit")
  /\ UNCHANGED <<lists, map_index, fd, subscriptions, asked, client, send>>

\* Nothing is locked between the test and the reset: two threads may leave the
\* channels of one connection.
reset(t) ==
  /\ pc[t] = "reset"
  /\ isOnLine' = isOnLine \ {client[t]}
  /\ at' = [at EXCEPT ![t] = 1]
  /\ Go(t, "quit")
  /\ UNCHANGED <<lists, map_index, fd, subscriptions, asked, client, send>>

web_close(t) ==
  /\ pc[t] = "close"
  /\ fd' = [fd EXCEPT ![client[t]] = Closed]
  /\ Leave(t)
  /\ UNCHANGED <<lists, map_index, isOnLine, subscriptions, asked, at, client,
                 send>>

-----------------------------------------------------------------------------
\* send_event_to_pipe

Start(s, p) ==
  /\ pc[s] = "idle"
  /\ pipe' = [pipe EXCEPT ![s] = p]
  /\ Go(s, "begin")
  /\ UNCHANGED <<lists, conns, at, client, it, r, due, served, back>>

Listens(c, p) ==
  /\ pc[c] = "idle" /\ fd[c] # Closed
  /\ \A k \in Kicker : pc[k] # "idle" => client[k] # c
  /\ p \in Range(subscriptions[c])
  /\ ~(p \in Private /\ c \in Guests)

begin(t) ==
  /\ pc[t] = "begin"
  /\ it' = [it EXCEPT ![t] = first[pipe[t]]]
  /\ due' = [due EXCEPT ![t] = {c \in Conn : Listens(c, pipe[t])}]
  /\ served' = [served EXCEPT ![t] = {}]
  /\ Go(t, IF first[pipe[t]] = Nil THEN "sent" ELSE "get")
  /\ UNCHANGED <<lists, conns, at, client, pipe, r, back>>

get(t) ==
  LET f == data[it[t]]
      c == IF f = Closed THEN None ELSE map_index[f]
  IN  /\ pc[t] = "get"
      /\ r' = [r EXCEPT ![t] = c]
      /\ Go(t, IF c = None THEN "erase" ELSE "message")
      /\ UNCHANGED <<lists, conns, at, client, pipe, it, due, served, back>>

message(t) ==
  /\ pc[t] = "message"
  /\ served' = [served EXCEPT ![t] = IF fd[r[t]] = Closed THEN @ ELSE @ \cup {r[t]}]
  /\ r' = [r EXCEPT ![t] = None]
  /\ Go(t, "next")
  /\ UNCHANGED <<lists, conns, at, client, pipe, it, due, back>>

\* A subscriber that is not connected is taken from the list.
erase(t) ==
  /\ pc[t] = "erase"
  /\ remove(pipe[t], data[it[t]])
  /\ Go(t, "next")
  /\ UNCHANGED <<conns, at, client, pipe, r, due, served, back>>

\* Fault: the walk begins anew after every item.
NextRestarts(t) ==
  /\ pc[t] = "next"
  /\ Pointers(first, next, data, [it EXCEPT ![t] = first[pipe[t]]])
  /\ Go(t, IF first[pipe[t]] = Nil THEN "sent" ELSE "get")
  /\ UNCHANGED <<conns, at, client, pipe, r, due, served, back>>

Next(t) ==
  /\ pc[t] = "next"
  /\ Pointers(first, next, data, [it EXCEPT ![t] = next[it[t]]])
  /\ Go(t, IF next[it[t]] = Nil THEN "sent" ELSE "get")
  /\ UNCHANGED <<conns, at, client, pipe, r, due, served, back>>

sent(t) ==
  /\ pc[t] = "sent"
  /\ pipe' = [pipe EXCEPT ![t] = None]
  /\ due' = [due EXCEPT ![t] = {}]
  /\ served' = [served EXCEPT ![t] = {}]
  /\ Go(t, back[t])
  /\ UNCHANGED <<lists, conns, at, client, it, r, back>>

send_event_to_pipe(t) ==
  begin(t) \/ get(t) \/ message(t) \/ erase(t) \/ Next(t) \/ sent(t)

-----------------------------------------------------------------------------
Step ==
  \/ \E c \in Conn :
       \/ Open(c) \/ ws_subscription(c) \/ insert(c) \/ hangup(c)
       \/ \E names \in Requests : subscription(c, names)
  \/ \E t \in Conn \cup Kicker :
       un_subscription(t) \/ deleteClientFromMap(t) \/ set_offline(t) \/ reset(t) \/ web_close(t)
  \/ \E k \in Kicker, c \in Conn : kick(k, c)
  \/ \E s \in Sender, p \in Pipe : Start(s, p)
  \/ \E t \in Thread : send_event_to_pipe(t)

Spec == Init /\ [][Step]_vars

\* A thread that has begun to send goes on, but for the write to a subscriber: the
\* sockets block, and who does not read may hold it for ever.
FairSpec == Spec /\ \A t \in Thread : WF_vars(pc[t] # "message" /\ send_event_to_pipe(t))

-----------------------------------------------------------------------------
\* Properties

\* "This message sends to all channel's subscribers" (CometQL API.md): when an
\* event has been sent, every connection that was subscribed from the
\* beginning to the end has got it, whoever subscribed, left or was erased
\* meanwhile.
DueServed == \A t \in Thread : pc[t] = "sent" => due[t] \subseteq served[t]

\* No connection is given an event of a channel twice.
NotTwice == \A t \in Thread : pc[t] = "message" => r[t] \notin served[t]

\* A connection is never given an event of a channel it has not asked for.
OnlyAsked == \A t \in Thread : pc[t] = "message" => pipe[t] \in Asked(r[t])

\* The list of a channel names connections that are open and have asked for
\* it: none stays behind when a connection is closed.
NoGhosts ==
  \A p \in Pipe : \A i \in Entries(p) :
    \E c \in Conn : fd[c] = data[i] /\ p \in Asked(c)

\* The number of entries of a channel (`users' in the table pipes) counts each
\* subscriber once.
CountedOnce ==
  \A p \in Pipe : \A c \in Conn : Listens(c, p) =>
    Cardinality({i \in Entries(p) : data[i] = fd[c]}) = 1

\* The list of a channel names its subscribers, each once, and nobody else,
\* whatever subscribes, leaves and closes while events are sent.
ListTruth == NoGhosts /\ CountedOnce

\* Only a channel of type private_ is refused to a guest (comment in
\* ws_subscription): when a subscription has been handled, the others it named
\* are subscribed.  Does not hold: see the README.
OthersSubscribed ==
  \A c \in Conn : pc[c] = "idle" /\ fd[c] # Closed =>
    Range(Request(c)) \ Private \subseteq Range(subscriptions[c])

\* Sending comes to an end although the list may change all the time, unless one
\* write never returns: the walk itself goes round no circle, and nothing but a
\* subscriber who does not read can hold it.
SendEnds ==
  \A t \in Thread : pc[t] = "begin" ~> (pc[t] = "sent" \/ [](pc[t] = "message"))
=============================================================================
