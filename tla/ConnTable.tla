------------------------------ MODULE ConnTable ------------------------------
(***************************************************************************)
(* The open connections of a tcpServer (tcpServer.cpp): descriptors, the   *)
(* connection objects behind them, the map from a descriptor to its object,*)
(* the epoll sets of the threads that read from the connections, and the   *)
(* reference-counting pointer CP that frees an object when the map and all *)
(* threads have let go of it.                                              *)
(*                                                                         *)
(* The accepting thread, the reading threads, threads that send to a       *)
(* connection they look up and threads that close one they look up run at  *)
(* the same time; the map has a mutex, the objects have none.  A system    *)
(* call, a section under the mutex and an access to a field of an object   *)
(* are each one action.  Counting is taken to be exact here; that the      *)
(* counter is not atomic is left out.  maxUptime is 0, as in comet.ini.    *)
(***************************************************************************)
EXTENDS Integers, FiniteSets, FiniteSetsExt

CONSTANTS
  Obj,        \* connection objects, one for each accepted connection
  Fd,         \* descriptors, reused after close
  Acceptor,   \* the thread that accepts
  Workers,    \* threads that read, each with its epoll set
  Senders,    \* threads in local_send_to_user or send_event_to_pipe
  Kickers,    \* threads in sql_delete_from_users_auth
  None,
  Reuse,      \* may a descriptor be used again after close?
  EpollFails  \* may EPOLL_CTL_ADD fail?

\* The kernel numbers descriptors without gaps; a thread has one task.
ASSUME ConnTableAssumption ==
  /\ IsFiniteSet(Fd) /\ Fd = 1 .. Cardinality(Fd)
  /\ IsFiniteSet(Obj)
  /\ None \notin Obj \cup Workers
  /\ Acceptor \notin Workers \cup Senders \cup Kickers
  /\ Workers \cap Senders = {}
  /\ Kickers \cap (Workers \cup Senders) = {}
  /\ {Reuse, EpollFails} \subseteq BOOLEAN

VARIABLES
  map_index, \* [Fd -> the object found under the descriptor]
  fd,        \* [Obj -> the field fd, Closed when there is none]
  life,      \* [Obj -> not yet allocated, allocated or freed]
  isOnLine,  \* the objects whose field isOnLine is true
  epfd,      \* [Obj -> the worker that reads from the connection]
  conection_ids, \* [Obj -> the descriptor under which the connection is in the
                 \* table of its user (module UserIndex)]
  sock,      \* kernel: [Fd -> the object whose connection the descriptor is]
  watched,   \* kernel: the objects whose descriptor is in an epoll set
  events,    \* [Workers -> objects that epoll_wait returned, still to handle]
  pc,        \* [Thread -> what it does next]
  cur,       \* [Thread -> the object it works on]
  client_id, \* [Thread -> the descriptor it works on]
  held,      \* [Thread -> the objects it holds a CP to]
  aim        \* [Thread -> the connection meant by the descriptor it looks up]

vars == <<map_index, fd, life, isOnLine, epfd, conection_ids, sock, watched, events, pc,
          cur, client_id, held, aim>>
memory == <<map_index, fd, life, sock, watched, held>>
others == <<isOnLine, epfd, conection_ids, aim>>

Closed == -1
Thread == {Acceptor} \cup Workers \cup Senders \cup Kickers
Deleters == Workers \cup Kickers

TypeOK ==
  /\ map_index \in [Fd -> Obj \cup {None}]
  /\ fd \in [Obj -> Fd \cup {Closed}]
  /\ life \in [Obj -> {"new", "live", "freed"}]
  /\ isOnLine \subseteq Obj
  /\ epfd \in [Obj -> Workers \cup {None}]
  /\ conection_ids \in [Obj -> Fd \cup {Closed}]
  /\ sock \in [Fd -> Obj \cup {None}]
  /\ watched \subseteq Obj
  /\ events \in [Workers -> SUBSET Obj]
  /\ pc \in [Thread -> {"idle", "insert", "add", "release", "lookup", "found",
                        "message", "write", "kick", "fromMap", "erase", "close", "detach",
                        "offline", "reset", "un_link", "closing", "web_close", "forget"}]
  /\ cur \in [Thread -> Obj \cup {None}]
  /\ client_id \in [Thread -> Fd \cup {Closed}]
  /\ \A t \in Thread : pc[t] = "erase" => client_id[t] \in Fd
  /\ held \in [Thread -> SUBSET Obj]
  /\ aim \in [Thread -> Obj \cup {None}]

Init ==
  /\ map_index = [f \in Fd |-> None]
  /\ fd = [o \in Obj |-> Closed]
  /\ life = [o \in Obj |-> "new"]
  /\ isOnLine = {}
  /\ epfd = [o \in Obj |-> None]
  /\ conection_ids = [o \in Obj |-> Closed]
  /\ sock = [f \in Fd |-> None]
  /\ watched = {}
  /\ events = [w \in Workers |-> {}]
  /\ pc = [t \in Thread |-> "idle"]
  /\ cur = [t \in Thread |-> None]
  /\ client_id = [t \in Thread |-> Closed]
  /\ held = [t \in Thread |-> {}]
  /\ aim = [t \in Thread |-> None]

-----------------------------------------------------------------------------
\* Memory and descriptors

\* close(f): whatever connection the descriptor is leaves its epoll set.
CloseFds(F) ==
  /\ sock' = [f \in Fd |-> IF f \in F THEN None ELSE sock[f]]
  /\ watched' = watched \ {sock[f] : f \in F}

\* The pointers that remain are those in map m and those in h.  An object
\* without any is deleted, and its destructor closes the descriptor it has.
References(m, h) ==
  LET dead == {o \in Obj : /\ life[o] = "live"
                           /\ \A f \in Fd : m[f] # o
                           /\ \A t \in Thread : o \notin h[t]}
  IN  /\ map_index' = m
      /\ held' = h
      /\ life' = [o \in Obj |-> IF o \in dead THEN "freed" ELSE life[o]]
      /\ fd' = [o \in Obj |-> IF o \in dead THEN Closed ELSE fd[o]]
      /\ CloseFds({fd[o] : o \in dead} \ {Closed})

\* The thread leaves the function that holds the pointers.
Return(t) ==
  /\ References(map_index, [held EXCEPT ![t] = {}])
  /\ pc' = [pc EXCEPT ![t] = "idle"]
  /\ cur' = [cur EXCEPT ![t] = None]
  /\ client_id' = [client_id EXCEPT ![t] = Closed]
  /\ aim' = [aim EXCEPT ![t] = None]
  /\ UNCHANGED <<isOnLine, epfd, conection_ids, events>>

Go(t, there) == pc' = [pc EXCEPT ![t] = there]

-----------------------------------------------------------------------------
\* A new connection

\* Descriptors the kernel may give to a connection: it takes the smallest.
Unused ==
  {f \in Fd : /\ sock[f] = None
              /\ Reuse \/ f > Cardinality({o \in Obj : life[o] # "new"})}

accept(o, w) ==
  LET f == Min(Unused) IN
  /\ pc[Acceptor] = "idle"
  /\ life[o] = "new"
  /\ Unused # {}
  /\ sock' = [sock EXCEPT ![f] = o]
  /\ life' = [life EXCEPT ![o] = "live"]
  /\ fd' = [fd EXCEPT ![o] = f]
  /\ epfd' = [epfd EXCEPT ![o] = w]
  /\ isOnLine' = isOnLine \cup {o}
  /\ held' = [held EXCEPT ![Acceptor] = {o}]
  /\ cur' = [cur EXCEPT ![Acceptor] = o]
  /\ client_id' = [client_id EXCEPT ![Acceptor] = f]
  /\ Go(Acceptor, "insert")
  /\ UNCHANGED <<map_index, conection_ids, watched, events, aim>>

\* Fault: the object is not in the map when reading from it starts.
insertNothing ==
  /\ pc[Acceptor] = "insert"
  /\ Go(Acceptor, "add")
  /\ UNCHANGED <<memory, others, events, cur, client_id>>

\* std::map::insert changes nothing when the key is there.
insert ==
  /\ pc[Acceptor] = "insert"
  /\ LET f == client_id[Acceptor] IN
     map_index' = IF map_index[f] = None
                  THEN [map_index EXCEPT ![f] = cur[Acceptor]] ELSE map_index
  /\ Go(Acceptor, "add")
  /\ UNCHANGED <<fd, life, sock, watched, held, others, events, cur, client_id>>

epoll_add ==
  /\ pc[Acceptor] = "add"
  /\ \/ /\ sock[client_id[Acceptor]] = cur[Acceptor]
        /\ watched' = watched \cup {cur[Acceptor]}
        /\ UNCHANGED sock
     \/ /\ EpollFails \/ sock[client_id[Acceptor]] = None
        /\ CloseFds({client_id[Acceptor]})
  /\ Go(Acceptor, "release")
  /\ UNCHANGED <<map_index, fd, life, held, others, events, cur, client_id>>

accepted ==
  /\ pc[Acceptor] = "release"
  /\ Return(Acceptor)

-----------------------------------------------------------------------------
\* A reading thread

epoll_wait(w) ==
  /\ pc[w] = "idle"
  /\ events[w] = {}
  /\ \E E \in SUBSET {o \in watched : epfd[o] = w} :
       E # {} /\ events' = [events EXCEPT ![w] = E]
  /\ UNCHANGED <<memory, others, pc, cur, client_id>>

\* A request that leaves the connection open; it may authorise the client.
handle_message(w, o) ==
  /\ pc[w] = "idle"
  /\ o \in events[w] /\ life[o] = "live"
  /\ events' = [events EXCEPT ![w] = @ \ {o}]
  /\ conection_ids' \in {conection_ids, [conection_ids EXCEPT ![o] = fd[o]]}
  /\ UNCHANGED <<memory, isOnLine, epfd, aim, pc, cur, client_id>>

\* Fault: the connection is closed first and only then taken from the map.
hangupReversed(w, o) ==
  /\ pc[w] = "idle"
  /\ o \in events[w] /\ life[o] = "live"
  /\ events' = [events EXCEPT ![w] = @ \ {o}]
  /\ held' = [held EXCEPT ![w] = {o}]
  /\ cur' = [cur EXCEPT ![w] = o]
  /\ Go(w, "close")
  /\ UNCHANGED <<map_index, fd, life, sock, watched, others, client_id>>

\* The client has closed its end, or its request is answered by closing:
\* deleteClient is called.
hangup(w, o) ==
  /\ pc[w] = "idle"
  /\ o \in events[w] /\ life[o] = "live"
  /\ events' = [events EXCEPT ![w] = @ \ {o}]
  /\ held' = [held EXCEPT ![w] = {o}]
  /\ cur' = [cur EXCEPT ![w] = o]
  /\ Go(w, "fromMap")
  /\ UNCHANGED <<map_index, fd, life, sock, watched, others, client_id>>

-----------------------------------------------------------------------------
\* deleteClient(clientObj): deleteClientFromMap, then closeClientConnection

ReadFd(t, there) ==
  /\ client_id' = [client_id EXCEPT ![t] = fd[cur[t]]]
  /\ Go(t, there)
  /\ UNCHANGED <<memory, others, events, cur>>

\* Fault: the test for a connection that is closed already is missing.
deleteClientFromMapUnchecked(t) ==
  /\ pc[t] = "fromMap"
  /\ ReadFd(t, "erase")

deleteClientFromMap(t) ==
  /\ pc[t] = "fromMap"
  /\ ReadFd(t, IF fd[cur[t]] = Closed THEN "close" ELSE "erase")

\* What is under the descriptor goes, whichever object that is.
erase(t) ==
  /\ pc[t] = "erase"
  /\ References([map_index EXCEPT ![client_id[t]] = None], held)
  /\ Go(t, "close")
  /\ UNCHANGED <<others, events, cur, client_id>>

closeClientConnection(t) ==
  /\ pc[t] = "close"
  /\ IF fd[cur[t]] = Closed THEN Return(t) ELSE ReadFd(t, "detach")

\* EPOLL_CTL_DEL of the descriptor from the epoll set of the object's worker.
epoll_detached(t) ==
  /\ pc[t] = "detach"
  /\ LET o == sock[client_id[t]] IN
     watched' = IF o # None /\ epfd[o] = epfd[cur[t]] THEN watched \ {o} ELSE watched
  /\ Go(t, "offline")
  /\ UNCHANGED <<map_index, fd, life, sock, held, others, events, cur, client_id>>

\* Every thread that gets here closes; those who find the connection online
\* unlink the user before.
set_offline(t) ==
  /\ pc[t] = "offline"
  /\ Go(t, IF cur[t] \in isOnLine THEN "reset" ELSE "closing")
  /\ UNCHANGED <<memory, epfd, isOnLine, conection_ids, aim, events, cur, client_id>>

\* Fault: a connection that closes is not taken from its user's table.
resetUnlinked(t) ==
  /\ pc[t] = "reset"
  /\ isOnLine' = isOnLine \ {cur[t]}
  /\ Go(t, "closing")
  /\ UNCHANGED <<memory, epfd, conection_ids, aim, events, cur, client_id>>

\* Nothing is locked between the test and the reset.
reset(t) ==
  /\ pc[t] = "reset"
  /\ isOnLine' = isOnLine \ {cur[t]}
  /\ Go(t, "un_link")
  /\ UNCHANGED <<memory, epfd, conection_ids, aim, events, cur, client_id>>

\* un_link(web_user_id, fd) finds the connection if fd still is its number.
un_link(t) ==
  /\ pc[t] = "un_link"
  /\ conection_ids' = [conection_ids EXCEPT ![cur[t]] =
                         IF @ = fd[cur[t]] THEN Closed ELSE @]
  /\ Go(t, "closing")
  /\ UNCHANGED <<memory, isOnLine, epfd, aim, events, cur, client_id>>

web_close_start(t) ==
  /\ pc[t] = "closing"
  /\ IF fd[cur[t]] = Closed THEN Return(t) ELSE ReadFd(t, "web_close")

\* Fault: the field is reset before the descriptor has been closed.
web_closeForgets(t) ==
  /\ pc[t] = "web_close"
  /\ fd' = [fd EXCEPT ![cur[t]] = Closed]
  /\ Go(t, "forget")
  /\ UNCHANGED <<map_index, life, sock, watched, held, others, events, cur, client_id>>

web_close(t) ==
  /\ pc[t] = "web_close"
  /\ CloseFds({client_id[t]})
  /\ Go(t, "forget")
  /\ UNCHANGED <<map_index, fd, life, held, others, events, cur, client_id>>

\* fd = -1, and the object is left.
forget(t) ==
  /\ pc[t] = "forget"
  /\ fd' = [fd EXCEPT ![cur[t]] = Closed]
  /\ Go(t, "release")
  /\ UNCHANGED <<map_index, life, sock, watched, held, others, events, cur, client_id>>

deleted(t) ==
  /\ pc[t] = "release"
  /\ Return(t)

deleteClient(t) ==
  \/ deleteClientFromMap(t) \/ erase(t)
  \/ closeClientConnection(t) \/ epoll_detached(t) \/ set_offline(t)
  \/ reset(t) \/ un_link(t) \/ web_close_start(t)
  \/ web_close(t) \/ forget(t) \/ deleted(t)

-----------------------------------------------------------------------------
\* Looking up a connection by its descriptor

\* A slot of the user's table, or a subscriber of a pipe, is read.
read_slot(t, o) ==
  /\ pc[t] = "idle"
  /\ conection_ids[o] # Closed
  /\ client_id' = [client_id EXCEPT ![t] = conection_ids[o]]
  /\ aim' = [aim EXCEPT ![t] = o]
  /\ Go(t, "lookup")
  /\ UNCHANGED <<memory, isOnLine, epfd, conection_ids, events, cur>>

\* tcpServer::get unlocks the mutex before it copies the pointer it found.
find(t) ==
  /\ pc[t] = "lookup"
  /\ IF map_index[client_id[t]] = None
     THEN Return(t)
     ELSE /\ cur' = [cur EXCEPT ![t] = map_index[client_id[t]]]
          /\ Go(t, "found")
          /\ UNCHANGED <<memory, others, events, client_id>>

\* Copying from an entry whose object is gone has no defined result; the
\* thread is then taken to find nothing.
get(t, there) ==
  /\ pc[t] = "found"
  /\ IF life[cur[t]] = "live"
     THEN /\ held' = [held EXCEPT ![t] = {cur[t]}]
          /\ Go(t, there)
          /\ UNCHANGED <<map_index, fd, life, sock, watched, others, events, cur, client_id>>
     ELSE Return(t)

\* r->message: web_write evaluates the field, then the kernel writes.
message(s) ==
  \/ get(s, "message")
  \/ /\ pc[s] = "message"
     /\ ReadFd(s, "write")
  \/ /\ pc[s] = "write"
     /\ Return(s)

\* deleteClient(r->getfd()): a second lookup decides which object is closed.
kick(k) ==
  \/ get(k, "kick")
  \/ /\ pc[k] = "kick"
     /\ LET f == fd[cur[k]]
            o == IF f = Closed THEN None ELSE map_index[f]
        IN  IF o = None THEN Return(k)
            ELSE /\ held' = [held EXCEPT ![k] = @ \cup {o}]
                 /\ cur' = [cur EXCEPT ![k] = o]
                 /\ Go(k, "fromMap")
                 /\ UNCHANGED <<map_index, fd, life, sock, watched, others, events, client_id>>

-----------------------------------------------------------------------------
Next ==
  \/ \E o \in Obj, w \in Workers :
       accept(o, w) \/ handle_message(w, o) \/ hangup(w, o)
  \/ insert \/ epoll_add \/ accepted
  \/ \E w \in Workers : epoll_wait(w)
  \/ \E t \in Deleters : deleteClient(t)
  \/ \E t \in Senders \cup Kickers :
       find(t) \/ \E o \in Obj : read_slot(t, o)
  \/ \E s \in Senders : message(s)
  \/ \E k \in Kickers : kick(k)

Spec == Init /\ [][Next]_vars

-----------------------------------------------------------------------------
\* Properties

Deleting(o) == \E t \in Deleters : o \in held[t]

\* A lookup never returns the object of a connection that has been closed, or
\* another connection that was given the same descriptor: an object leaves
\* the map before its descriptor is closed.
MapTruth ==
  \A f \in Fd : map_index[f] # None =>
    sock[f] = map_index[f] /\ fd[map_index[f]] = f /\ life[map_index[f]] = "live"

\* A connection that is read from is found under its descriptor until it is
\* being closed ("so that the object can be found by its client_id", comment
\* in tcpServer::start's accept branch).
FoundByClientId ==
  \A o \in watched : ~Deleting(o) => fd[o] # Closed /\ map_index[fd[o]] = o

\* "After this line there will be no events from the client in epoll, and so
\* the memory events[i].data.ptr points to can be freed" (comment in
\* closeClientConnection): no event that is still to be handled is of an
\* object that has been freed.
EventsLive ==
  \A w \in Workers : \A o \in events[w] : life[o] = "live"

\* The table of a user never names a descriptor that has been closed or given
\* to another connection: the connection is unlinked before it is closed.
RegisteredIsOpen ==
  \A o \in Obj : conection_ids[o] # Closed => sock[conection_ids[o]] = o

\* Every open descriptor will be closed: somebody reads from it, or is about
\* to, or is closing it.
NoLeak ==
  \A f \in Fd : sock[f] # None =>
    \/ sock[f] \in watched
    \/ \E t \in {Acceptor} \cup Deleters : sock[f] \in held[t]

\* tcpServer::get copies a pointer to an object that exists.  Does not hold: see
\* the README.
LookupLive ==
  \A t \in Senders \cup Kickers : pc[t] = "found" => life[cur[t]] = "live"

\* What is sent to a connection of a user is not written to another one;
\* web_close resets fd because "otherwise we could also try to send something
\* there".  Does not hold either.
WrittenToOwner ==
  \A s \in Senders : pc[s] = "write" /\ client_id[s] # Closed =>
    sock[client_id[s]] \in {aim[s], None}
=============================================================================
