---------------------------- MODULE ConnTableProofs ----------------------------
(***************************************************************************)
(* Proofs about the connection table, for every number of connections,     *)
(* descriptors and threads.                                                *)
(***************************************************************************)
EXTENDS ConnTable, FiniteSetTheorems, WellFoundedInduction, NaturalsInduction, TLAPS

\* If a descriptor may be used again after it is closed, each connection is closed
\* by its worker only and epoll refuses none.
Careful == Reuse => Kickers = {} /\ ~EpollFails

Born == {o \in Obj : life[o] # "new"}

\* Where a thread in deleteClient is; from "close" on, the object has left the
\* map; up to "web_close", it may have left its epoll set.
DeletePc == {"fromMap", "erase", "close", "detach", "offline", "reset", "un_link",
              "closing", "web_close", "forget", "release"}
Erased == {"close", "detach", "offline", "reset", "un_link", "closing", "web_close"}
Detached == {"offline", "reset", "un_link", "closing", "web_close"}

\* Nobody but o has, or will have, the descriptor f.
Owns(o, f) ==
  /\ f \in Fd
  /\ sock[f] \in {o, None}
  /\ map_index[f] \in {o, None}
  /\ IF Reuse THEN sock[f] = o ELSE f =< Cardinality(Born)

Unmapped(o) == \A f \in Fd : map_index[f] # o

\* What a thread may be doing, and with what.
Roles ==
  /\ pc[Acceptor] \in {"idle", "insert", "add", "release"}
  /\ \A w \in Workers : pc[w] \in {"idle"} \cup DeletePc
  /\ \A s \in Senders : pc[s] \in {"idle", "lookup", "found", "message", "write"}
  /\ \A k \in Kickers : pc[k] \in {"idle", "lookup", "found", "kick"} \cup DeletePc
  /\ \A t \in Thread : pc[t] = "lookup" => client_id[t] \in Fd
  /\ \A t \in Thread : pc[t] \notin {"idle", "lookup"} => cur[t] \in Obj

\* Objects that are in use exist.
Lives ==
  /\ \A t \in Thread : cur[t] # None => life[cur[t]] # "new"
  /\ \A t \in Thread : \A o \in held[t] : life[o] = "live"
  /\ \A t \in Deleters : pc[t] \in DeletePc => cur[t] \in held[t]
  /\ pc[Acceptor] # "idle" => cur[Acceptor] \in held[Acceptor]
  /\ \A w \in Workers : \A o \in events[w] : life[o] # "new"

\* The kernel's, the map's and the objects' view of a descriptor.
Open ==
  /\ \A f \in Fd : sock[f] # None => fd[sock[f]] = f /\ life[sock[f]] = "live"
  /\ \A f \in Fd : map_index[f] # None =>
       /\ fd[map_index[f]] = f /\ life[map_index[f]] = "live"
       /\ ~EpollFails => sock[f] = map_index[f]

Owned ==
  /\ \A o \in Obj : fd[o] # Closed =>
       \/ Owns(o, fd[o])
       \/ Reuse /\ \E t \in Deleters : cur[t] = o /\ pc[t] = "forget"
  /\ \A t \in Thread : pc[t] \in {"erase", "detach", "web_close", "insert", "add"} =>
       Owns(cur[t], client_id[t]) /\ fd[cur[t]] \in {client_id[t], Closed}

\* How far a thread in deleteClient has come.
Progress ==
  \A t \in Deleters :
    /\ pc[t] \in Erased \cup {"forget", "release"} => Unmapped(cur[t])
    /\ pc[t] \in {"forget", "release"} => \A f \in Fd : sock[f] # cur[t]
    /\ pc[t] = "release" => fd[cur[t]] = Closed

\* A connection the kernel has open can be found, will be, or is being deleted;
\* and it is read from, will be, or is being deleted.
Found(o) ==
  \/ map_index[fd[o]] = o
  \/ pc[Acceptor] = "insert" /\ cur[Acceptor] = o
  \/ \E t \in Deleters : cur[t] = o /\ pc[t] \in Erased

Watched(o) ==
  \/ o \in watched
  \/ pc[Acceptor] \in {"insert", "add"} /\ cur[Acceptor] = o
  \/ \E t \in Deleters : cur[t] = o /\ pc[t] \in Detached

Reachable ==
  /\ \A f \in Fd : sock[f] # None => Found(sock[f]) /\ Watched(sock[f])
  /\ \A o \in watched : fd[o] # Closed /\ sock[fd[o]] = o

\* The connection the accepting thread has made is its own.
Fresh ==
  /\ pc[Acceptor] = "insert" =>
       /\ fd[cur[Acceptor]] = client_id[Acceptor]
       /\ sock[client_id[Acceptor]] = cur[Acceptor]
       /\ Unmapped(cur[Acceptor])
       /\ \A t \in Thread \ {Acceptor} : cur[t] # cur[Acceptor]
  /\ pc[Acceptor] \in {"insert", "add"} =>
       /\ cur[Acceptor] \notin watched
       /\ \A w \in Workers : cur[Acceptor] \notin events[w] /\ cur[w] # cur[Acceptor]

\* A worker deals with its own connections only, and with one at a time.
OwnEvents ==
  \A w \in Workers :
    /\ pc[w] # "idle" => epfd[cur[w]] = w /\ cur[w] \notin events[w]
    /\ \A o \in events[w] : epfd[o] = w

TableInv ==
  /\ TypeOK /\ Roles /\ Lives /\ Open /\ Owned /\ Progress /\ Reachable
  /\ Fresh /\ OwnEvents

\* The user's table, when nobody is thrown out: what is registered is the open
\* descriptor of a connection that is, or is about to be, unlinked.
Unlinked == {"closing", "web_close", "forget", "release"}

RegisteredTruly ==
  \A o \in Obj : conection_ids[o] # Closed =>
    /\ conection_ids[o] = fd[o] /\ sock[fd[o]] = o
    /\ o \in isOnLine \/ \E w \in Workers : cur[w] = o /\ pc[w] = "un_link"

Unlinking ==
  \A w \in Workers :
    /\ pc[w] \in Unlinked => conection_ids[cur[w]] = Closed
    /\ pc[w] \in Detached \cup Unlinked => cur[w] \notin watched

Online ==
  /\ watched \subseteq isOnLine
  /\ pc[Acceptor] \in {"insert", "add"} =>
       cur[Acceptor] \in isOnLine /\ conection_ids[cur[Acceptor]] = Closed
  /\ \A w \in Workers : events[w] \subseteq watched

Registered == RegisteredTruly /\ Unlinking /\ Online

RegisterInv == Kickers = {} => Registered

-----------------------------------------------------------------------------
\* What the assumptions on the constants say

LEMMA ConstantFacts ==
  /\ Fd \subseteq Nat \ {0}
  /\ Closed \notin Fd
  /\ None \notin Obj /\ None \notin Workers
  /\ Acceptor \notin Deleters
  /\ Deleters \subseteq Thread /\ Acceptor \in Thread
  /\ Workers \subseteq Thread /\ Senders \subseteq Thread /\ Kickers \subseteq Thread
<1>1. Cardinality(Fd) \in Nat
  BY ConnTableAssumption, FS_CardinalityType
<1>2. Fd = 1 .. Cardinality(Fd)
  BY ConnTableAssumption
<1>3. Fd \subseteq Nat \ {0} /\ Closed \notin Fd
  BY <1>1, <1>2 DEF Closed
<1> QED BY <1>3, ConnTableAssumption DEF Deleters, Thread

-----------------------------------------------------------------------------
\* Letting go of pointers

\* The effect of References when no object with an open descriptor dies.
Quiet(m, h) ==
  /\ map_index' = m
  /\ held' = h
  /\ sock' = sock
  /\ watched' = watched
  /\ life' \in [Obj -> {"new", "live", "freed"}]
  /\ fd' \in [Obj -> Fd \cup {Closed}]
  /\ \A o \in Obj :
       \/ life'[o] = life[o] /\ fd'[o] = fd[o]
       \/ /\ life[o] = "live" /\ life'[o] = "freed" /\ fd'[o] = Closed
          /\ \A f \in Fd : m[f] # o /\ sock[f] # o
          /\ \A t \in Thread : o \notin h[t]

\* An object whose descriptor is open is in the map or held by a thread, so
\* that its destructor never closes anything.
LEMMA QuietReferences ==
  ASSUME TableInv, NEW m, NEW h, References(m, h),
         \A f \in Fd : m[f] \in {map_index[f], None},
         \A t \in Thread : h[t] \subseteq held[t],
         \A t \in Deleters : pc[t] = "forget" => h[t] = held[t],
         \A f \in Fd : sock[f] # None =>
           \/ \E g \in Fd : m[g] = sock[f]
           \/ \E t \in Thread : sock[f] \in h[t]
  PROVE  Quiet(m, h)
<1> DEFINE dead == {o \in Obj : /\ life[o] = "live"
                                /\ \A f \in Fd : m[f] # o
                                /\ \A t \in Thread : o \notin h[t]}
           F == {fd[o] : o \in dead} \ {Closed}
<1>1. ASSUME NEW f \in F PROVE f \in Fd /\ sock[f] = None
  <2>1. PICK o \in dead : f = fd[o]
    OBVIOUS
  <2>2. f \in Fd
    BY <2>1 DEF TableInv, TypeOK
  <2>3. \A t \in Deleters : cur[t] = o => pc[t] # "forget"
    BY <2>1, ConstantFacts DEF TableInv, Lives, DeletePc
  <2>4. sock[f] \in {o, None}
    BY <2>1, <2>3 DEF TableInv, Owned, Owns
  <2> QED BY <2>1, <2>2, <2>4, ConstantFacts
<1>2. sock' = [f \in Fd |-> IF f \in F THEN None ELSE sock[f]]
      /\ watched' = watched \ {sock[f] : f \in F}
  BY DEF References, CloseFds
<1>3. sock' = sock
  BY <1>1, <1>2 DEF TableInv, TypeOK
<1>4. watched' = watched
  BY <1>1, <1>2, ConstantFacts DEF TableInv, TypeOK
<1>5. \A o \in dead : /\ life[o] = "live" /\ \A f \in Fd : m[f] # o /\ sock[f] # o
                      /\ \A t \in Thread : o \notin h[t]
  BY ConstantFacts
<1>6. /\ life' = [o \in Obj |-> IF o \in dead THEN "freed" ELSE life[o]]
      /\ fd' = [o \in Obj |-> IF o \in dead THEN Closed ELSE fd[o]]
      /\ map_index' = m /\ held' = h
  BY DEF References
<1> HIDE DEF dead
<1> QED BY <1>3, <1>4, <1>5, <1>6 DEF Quiet, TableInv, TypeOK

LEMMA BornSame ==
  ASSUME \A o \in Obj : life'[o] = "new" <=> life[o] = "new"
  PROVE  Born' = Born
BY DEF Born

-----------------------------------------------------------------------------
\* A thread returns

\* What returning needs: the thread leaves nothing half done.
MayReturn(t) ==
  /\ pc[t] \notin {"insert", "add", "forget"}
  /\ t \in Deleters /\ pc[t] \in Erased => \A f \in Fd : sock[f] # cur[t]

LEMMA ReturnQuiet ==
  ASSUME TableInv, NEW t \in Thread, MayReturn(t), Return(t)
  PROVE  Quiet(map_index, [held EXCEPT ![t] = {}])
<1> DEFINE h == [held EXCEPT ![t] = {}]
<1>1. h \in [Thread -> SUBSET Obj] /\ h[t] = {}
      /\ \A u \in Thread : h[u] \subseteq held[u] /\ (u # t => h[u] = held[u])
  BY DEF TableInv, TypeOK
<1>2. References(map_index, h)
  BY DEF Return
<1> HIDE DEF h
<1>3. ASSUME NEW f \in Fd, sock[f] # None
      PROVE  \/ \E g \in Fd : map_index[g] = sock[f]
             \/ \E u \in Thread : sock[f] \in h[u]
  <2>1. sock[f] \in Obj /\ fd[sock[f]] = f
    BY <1>3 DEF TableInv, TypeOK, Open
  <2>2. CASE map_index[f] = sock[f]
    BY <2>2
  <2>3. CASE pc[Acceptor] = "insert" /\ cur[Acceptor] = sock[f]
    BY <2>3, <1>1, ConstantFacts DEF TableInv, Lives, MayReturn
  <2>4. ASSUME NEW u \in Deleters, cur[u] = sock[f], pc[u] \in Erased
        PROVE  \E v \in Thread : sock[f] \in h[v]
    <3>1. u # t
      BY <2>4 DEF MayReturn
    <3>2. cur[u] \in held[u]
      BY <2>4 DEF TableInv, Lives, Erased, DeletePc
    <3> QED BY <2>4, <3>1, <3>2, <1>1, ConstantFacts
  <2> QED BY <1>3, <2>1, <2>2, <2>3, <2>4 DEF TableInv, Reachable, Found
<1>4. \A u \in Deleters : pc[u] = "forget" => h[u] = held[u]
  BY <1>1, ConstantFacts DEF MayReturn
<1>5. Quiet(map_index, h)
  BY <1>1, <1>2, <1>3, <1>4, QuietReferences
<1> QED BY <1>5 DEF h

LEMMA ReturnKeeps ==
  ASSUME TableInv, NEW t \in Thread, MayReturn(t), Return(t)
  PROVE  TableInv'
<1> DEFINE h == [held EXCEPT ![t] = {}]
<1>1. Quiet(map_index, h)
  BY ReturnQuiet
<1>2. h \in [Thread -> SUBSET Obj] /\ \A u \in Thread : h[u] = IF u = t THEN {} ELSE held[u]
  BY DEF TableInv, TypeOK
<1> HIDE DEF h
<1>3. /\ pc' = [pc EXCEPT ![t] = "idle"] /\ cur' = [cur EXCEPT ![t] = None]
      /\ client_id' = [client_id EXCEPT ![t] = Closed] /\ aim' = [aim EXCEPT ![t] = None]
      /\ UNCHANGED <<isOnLine, epfd, conection_ids, events>>
  BY DEF Return
<1>4. /\ map_index' = map_index /\ held' = h /\ sock' = sock /\ watched' = watched
      /\ life' \in [Obj -> {"new", "live", "freed"}] /\ fd' \in [Obj -> Fd \cup {Closed}]
      /\ \A o \in Obj :
           \/ life'[o] = life[o] /\ fd'[o] = fd[o]
           \/ /\ life[o] = "live" /\ life'[o] = "freed" /\ fd'[o] = Closed
              /\ \A f \in Fd : map_index[f] # o /\ sock[f] # o
              /\ \A u \in Thread : o \notin h[u]
  BY <1>1 DEF Quiet
<1>5. Born' = Born
  BY <1>4, BornSame
<1>6. \A u \in Thread : u # t => pc'[u] = pc[u] /\ cur'[u] = cur[u] /\ client_id'[u] = client_id[u]
  BY <1>3 DEF TableInv, TypeOK
<1>7. pc'[t] = "idle" /\ cur'[t] = None
  BY <1>3 DEF TableInv, TypeOK
<1>8. TypeOK'
  BY <1>2, <1>3, <1>4 DEF TableInv, TypeOK
<1>9. Roles'
  BY <1>6, <1>7, ConstantFacts DEF TableInv, Roles
<1>10. Lives'
  BY <1>2, <1>3, <1>4, <1>6, <1>7, ConstantFacts DEF TableInv, TypeOK, Lives, DeletePc
<1>11. Open'
  <2>1. \A f \in Fd : sock[f] # None =>
          sock[f] \in Obj /\ fd'[sock[f]] = f /\ life'[sock[f]] = "live"
    BY <1>4 DEF TableInv, TypeOK, Open
  <2>2. \A f \in Fd : map_index[f] # None =>
          /\ map_index[f] \in Obj /\ fd'[map_index[f]] = f /\ life'[map_index[f]] = "live"
          /\ ~EpollFails => sock[f] = map_index[f]
    BY <1>4 DEF TableInv, TypeOK, Open
  <2> QED BY <2>1, <2>2, <1>4 DEF Open
<1>12. Owned'
  <2>1. ASSUME NEW o \in Obj, fd'[o] # Closed
        PROVE  \/ Owns(o, fd[o])'
               \/ Reuse /\ \E u \in Deleters : cur'[u] = o /\ pc'[u] = "forget"
    <3>1. fd'[o] = fd[o]
      BY <1>4, <2>1
    <3>2. CASE Owns(o, fd[o])
      BY <3>1, <3>2, <1>4, <1>5 DEF Owns
    <3>3. ASSUME NEW u \in Deleters, cur[u] = o, pc[u] = "forget"
          PROVE  cur'[u] = o /\ pc'[u] = "forget"
      BY <3>3, <1>6, ConstantFacts DEF MayReturn
    <3> QED BY <2>1, <3>1, <3>2, <3>3 DEF TableInv, Owned
  <2>2. ASSUME NEW u \in Thread, pc'[u] \in {"erase", "detach", "web_close", "insert", "add"}
        PROVE  Owns(cur[u], client_id[u])' /\ fd'[cur'[u]] \in {client_id'[u], Closed}
    <3>1. u # t
      BY <2>2, <1>7
    <3>2. Owns(cur[u], client_id[u]) /\ fd[cur[u]] \in {client_id[u], Closed}
      BY <3>1, <2>2, <1>6 DEF TableInv, Owned
    <3>3. cur[u] \in Obj
      BY <3>1, <2>2, <1>6 DEF TableInv, Roles
    <3> QED BY <3>1, <3>2, <3>3, <1>4, <1>5, <1>6 DEF Owns
  <2> QED BY <2>1, <2>2 DEF Owned
<1>13. Progress'
  <2> SUFFICES ASSUME NEW u \in Deleters, pc'[u] \in Erased \cup {"forget", "release"}
               PROVE  /\ Unmapped(cur[u])'
                      /\ pc'[u] \in {"forget", "release"} => \A f \in Fd : sock'[f] # cur'[u]
                      /\ pc'[u] = "release" => fd'[cur'[u]] = Closed
    BY DEF Progress
  <2>1. u # t /\ u \in Thread
    BY <1>7, ConstantFacts DEF Erased
  <2>2. pc'[u] = pc[u] /\ cur'[u] = cur[u] /\ cur[u] \in Obj
    BY <2>1, <1>6 DEF TableInv, Roles, Erased
  <2> QED BY <2>1, <2>2, <1>4 DEF TableInv, Progress, Unmapped
<1>14. Reachable'
  <2>1. ASSUME NEW f \in Fd, sock[f] # None
        PROVE  Found(sock[f])' /\ Watched(sock[f])'
    <3>1. sock[f] \in Obj /\ fd'[sock[f]] = fd[sock[f]] /\ Found(sock[f]) /\ Watched(sock[f])
      BY <2>1, <1>4 DEF TableInv, TypeOK, Reachable
    <3>2. ASSUME NEW u \in Deleters, cur[u] = sock[f], pc[u] \in Erased
          PROVE  cur'[u] = cur[u] /\ pc'[u] = pc[u]
      BY <3>2, <1>6, ConstantFacts DEF MayReturn
    <3>3. pc[Acceptor] \in {"insert", "add"} =>
            pc'[Acceptor] = pc[Acceptor] /\ cur'[Acceptor] = cur[Acceptor]
      BY <1>6, ConstantFacts DEF MayReturn
    <3>4. Found(sock[f])'
      BY <3>1, <3>2, <3>3, <1>4 DEF Found
    <3>5. Watched(sock[f])'
      BY <3>1, <3>2, <3>3, <1>4 DEF Watched, Detached, Erased
    <3> QED BY <3>4, <3>5
  <2>2. \A o \in watched : fd'[o] # Closed /\ sock[fd'[o]] = o
    BY <1>4 DEF TableInv, TypeOK, Reachable
  <2> QED BY <2>1, <2>2, <1>4 DEF Reachable
<1>15. Fresh'
  <2>1. CASE t = Acceptor
    BY <2>1, <1>7 DEF Fresh
  <2>2. ASSUME t # Acceptor, pc[Acceptor] \in {"insert", "add"}
        PROVE  /\ cur[Acceptor] \in Obj
               /\ fd'[cur[Acceptor]] = fd[cur[Acceptor]]
    BY <2>2, <1>2, <1>4, ConstantFacts DEF TableInv, Roles, Lives
  <2>3. \A u \in Thread : cur'[u] \in {cur[u], None}
    BY <1>6, <1>7
  <2>4. CASE t # Acceptor
    BY <2>2, <2>3, <2>4, <1>3, <1>4, <1>6, ConstantFacts DEF TableInv, Fresh, Unmapped
  <2> QED BY <2>1, <2>4
<1>16. OwnEvents'
  BY <1>3, <1>6, <1>7, ConstantFacts DEF TableInv, TypeOK, OwnEvents
<1> QED BY <1>8, <1>9, <1>10, <1>11, <1>12, <1>13, <1>14, <1>15, <1>16 DEF TableInv

-----------------------------------------------------------------------------
\* A thread other than the accepting one goes on without touching the map,
\* the objects or the descriptors

Move(t) ==
  /\ UNCHANGED <<map_index, fd, life, sock, watched, epfd>>
  /\ \A u \in Thread \ {t} : /\ pc'[u] = pc[u] /\ cur'[u] = cur[u]
                             /\ client_id'[u] = client_id[u] /\ held'[u] = held[u]
  /\ \A w \in Workers : events'[w] \subseteq events[w]

\* What the parts of the invariant ask of the thread that moves.
MoveRole(t) ==
  /\ t \in Workers => pc'[t] \in DeletePc
  /\ t \in Senders => pc'[t] \in {"lookup", "found", "message", "write"}
  /\ t \in Kickers => pc'[t] \in {"lookup", "found", "kick"} \cup DeletePc
  /\ pc'[t] = "lookup" => client_id'[t] \in Fd
  /\ pc'[t] # "lookup" => cur'[t] \in Obj
  /\ pc'[t] \notin {"forget", "release"}

MoveLives(t) ==
  /\ cur'[t] # None => life[cur'[t]] # "new"
  /\ \A o \in held'[t] : life[o] = "live"
  /\ t \in Deleters /\ pc'[t] \in DeletePc => cur'[t] \in held'[t]

MoveOwned(t) ==
  /\ pc[t] # "forget"
  /\ pc'[t] \in {"erase", "detach", "web_close"} =>
       Owns(cur'[t], client_id'[t]) /\ fd[cur'[t]] \in {client_id'[t], Closed}

MoveProgress(t) ==
  /\ pc'[t] \in Erased => Unmapped(cur'[t])
  /\ pc[t] \in Erased => pc'[t] \in Erased /\ cur'[t] = cur[t]
  /\ pc[t] \in Detached => pc'[t] \in Detached

MoveFresh(t) ==
  /\ cur'[t] # cur[t] => /\ pc[Acceptor] = "insert" => cur'[t] # cur[Acceptor]
                         /\ t \in Workers /\ pc[Acceptor] = "add" => cur'[t] # cur[Acceptor]
  /\ t \in Workers => epfd[cur'[t]] = t /\ cur'[t] \notin events'[t]

LEMMA MoveKeeps ==
  ASSUME TableInv, TypeOK', NEW t \in Thread \ {Acceptor}, Move(t), MoveRole(t),
         MoveLives(t), MoveOwned(t), MoveProgress(t), MoveFresh(t)
  PROVE  TableInv'
<1>1. /\ map_index' = map_index /\ fd' = fd /\ life' = life /\ sock' = sock
      /\ watched' = watched /\ epfd' = epfd
      /\ \A w \in Workers : events'[w] \subseteq events[w]
  BY DEF Move
<1>2. \A u \in Thread : u # t => /\ pc'[u] = pc[u] /\ cur'[u] = cur[u]
                                 /\ client_id'[u] = client_id[u] /\ held'[u] = held[u]
  BY DEF Move
<1>3. Born' = Born
  BY <1>1 DEF Born
<1>4. pc'[Acceptor] = pc[Acceptor] /\ cur'[Acceptor] = cur[Acceptor]
      /\ client_id'[Acceptor] = client_id[Acceptor] /\ held'[Acceptor] = held[Acceptor]
  BY <1>2, ConstantFacts
<1>5. Roles'
  BY <1>2, <1>4, ConstantFacts DEF TableInv, Roles, MoveRole
<1>6. Lives'
  BY <1>1, <1>2, <1>4, ConstantFacts DEF TableInv, Lives, MoveLives
<1>7. Open'
  BY <1>1 DEF TableInv, Open
<1>8. Owned'
  <2>1. ASSUME NEW o \in Obj, fd[o] # Closed
        PROVE  \/ Owns(o, fd[o])'
               \/ Reuse /\ \E u \in Deleters : cur'[u] = o /\ pc'[u] = "forget"
    <3>1. CASE Owns(o, fd[o])
      BY <3>1, <1>1, <1>3 DEF Owns
    <3>2. ASSUME NEW u \in Deleters, cur[u] = o, pc[u] = "forget"
          PROVE  cur'[u] = o /\ pc'[u] = "forget"
      BY <3>2, <1>2, ConstantFacts DEF MoveOwned
    <3> QED BY <2>1, <3>1, <3>2 DEF TableInv, Owned
  <2>2. ASSUME NEW u \in Thread, pc'[u] \in {"erase", "detach", "web_close", "insert", "add"}
        PROVE  Owns(cur[u], client_id[u])' /\ fd[cur'[u]] \in {client_id'[u], Closed}
    <3>1. CASE u = t
      <4>1. pc'[t] \in {"erase", "detach", "web_close"}
        BY <3>1, <2>2, ConstantFacts DEF MoveRole, DeletePc, Thread
      <4> QED BY <4>1, <3>1, <1>1, <1>3 DEF MoveOwned, Owns
    <3>2. CASE u # t
      BY <2>2, <3>2, <1>1, <1>2, <1>3 DEF TableInv, Owned, Owns
    <3> QED BY <3>1, <3>2
  <2> QED BY <2>1, <2>2, <1>1 DEF Owned
<1>9. Progress'
  BY <1>1, <1>2, ConstantFacts DEF TableInv, Progress, Unmapped, MoveRole, MoveProgress
<1>10. Reachable'
  <2>1. \A u \in Deleters :
          /\ pc[u] \in Erased => pc'[u] \in Erased /\ cur'[u] = cur[u]
          /\ pc[u] \in Detached => pc'[u] \in Detached /\ cur'[u] = cur[u]
    BY <1>2, ConstantFacts DEF MoveProgress, Erased, Detached
  <2> QED BY <2>1, <1>1, <1>4 DEF TableInv, Reachable, Found, Watched
<1>11. Fresh'
  BY <1>1, <1>2, <1>4, ConstantFacts DEF TableInv, Fresh, Unmapped, MoveFresh
<1>12. OwnEvents'
  BY <1>1, <1>2, ConstantFacts DEF TableInv, OwnEvents, MoveFresh
<1> QED BY <1>5, <1>6, <1>7, <1>8, <1>9, <1>10, <1>11, <1>12 DEF TableInv

\* The descriptor in the object's field is that of its own connection, unless
\* another thread is about to reset the field.
LEMMA FieldIsOwned ==
  ASSUME TableInv, Careful, NEW t \in Deleters, pc[t] \in DeletePc \ {"forget"},
         fd[cur[t]] # Closed
  PROVE  Owns(cur[t], fd[cur[t]])
<1>1. cur[t] \in Obj
  BY ConstantFacts DEF TableInv, Roles, DeletePc
<1>2. ASSUME Reuse, NEW u \in Deleters, cur[u] = cur[t], pc[u] = "forget" PROVE FALSE
  <2>1. t \in Workers /\ u \in Workers
    BY <1>2 DEF Careful, Deleters
  <2>2. epfd[cur[u]] = u /\ epfd[cur[t]] = t
    BY <2>1, <1>2 DEF TableInv, OwnEvents, DeletePc
  <2> QED BY <2>2, <1>2
<1> QED BY <1>1, <1>2 DEF TableInv, Owned

LEMMA HangupKeeps ==
  ASSUME TableInv, NEW w \in Workers, NEW o \in Obj, hangup(w, o)
  PROVE  TableInv'
<1>1. w \in Thread \ {Acceptor} /\ w \in Deleters /\ w \notin Senders \cup Kickers
  BY ConnTableAssumption, ConstantFacts DEF Deleters
<1>2. TypeOK'
  BY <1>1 DEF hangup, Go, others, TableInv, TypeOK
<1>3. Move(w)
  BY <1>1 DEF hangup, Go, others, TableInv, TypeOK, Move
<1>4. pc[w] = "idle" /\ pc'[w] = "fromMap" /\ cur'[w] = o /\ held'[w] = {o}
      /\ o \in events[w] /\ o \notin events'[w] /\ life[o] = "live"
  BY <1>1 DEF hangup, Go, TableInv, TypeOK
<1>5. MoveRole(w) /\ MoveOwned(w) /\ MoveProgress(w) /\ MoveLives(w)
  BY <1>1, <1>4 DEF MoveRole, MoveOwned, MoveProgress, MoveLives, DeletePc, Erased, Detached
<1>6. MoveFresh(w)
  BY <1>1, <1>4 DEF MoveFresh, TableInv, Fresh, OwnEvents
<1> QED BY <1>1, <1>2, <1>3, <1>5, <1>6, MoveKeeps

\* A thread in deleteClient goes on: what it works on stays the same.
LEMMA DeleterMoves ==
  ASSUME TableInv, NEW t \in Deleters, NEW there \in DeletePc \ {"forget", "release"},
         NEW f \in Fd \cup {Closed},
         pc[t] \in DeletePc \ {"forget", "release"},
         pc' = [pc EXCEPT ![t] = there], client_id' = [client_id EXCEPT ![t] = f],
         UNCHANGED <<map_index, fd, life, sock, watched, held, epfd, events, cur, aim>>,
         isOnLine' \subseteq Obj, conection_ids' \in [Obj -> Fd \cup {Closed}],
         there \in {"erase", "detach", "web_close"} =>
           Owns(cur[t], f) /\ fd[cur[t]] \in {f, Closed},
         there \in Erased => Unmapped(cur[t]),
         pc[t] \in Erased => there \in Erased,
         pc[t] \in Detached => there \in Detached
  PROVE  TableInv'
<1>1. t \in Thread \ {Acceptor} /\ t \notin Senders /\ cur[t] \in Obj /\ pc[t] # "idle"
  BY ConnTableAssumption, ConstantFacts DEF Deleters, TableInv, Roles, DeletePc
<1>2. pc'[t] = there /\ client_id'[t] = f /\ cur'[t] = cur[t] /\ held'[t] = held[t]
  BY <1>1 DEF TableInv, TypeOK
<1>3. TypeOK'
  <2>1. pc' \in [Thread -> {"idle", "insert", "add", "release", "lookup", "found",
                        "message", "write", "kick", "fromMap", "erase", "close", "detach",
                        "offline", "reset", "un_link", "closing", "web_close", "forget"}]
        /\ client_id' \in [Thread -> Fd \cup {Closed}]
    BY <1>1 DEF TableInv, TypeOK, DeletePc
  <2>2. \A u \in Thread : pc'[u] = "erase" => client_id'[u] \in Fd
    BY <1>1, <1>2 DEF TableInv, TypeOK, Owns
  <2> QED BY <2>1, <2>2 DEF TableInv, TypeOK
<1>4. Move(t)
  BY <1>1 DEF TableInv, TypeOK, Move
<1>5. MoveRole(t)
  BY <1>1, <1>2 DEF MoveRole, DeletePc
<1>6. MoveLives(t)
  BY <1>1, <1>2 DEF MoveLives, TableInv, Lives
<1>7. MoveOwned(t)
  BY <1>1, <1>2 DEF MoveOwned
<1>8. MoveProgress(t)
  BY <1>1, <1>2 DEF MoveProgress, Unmapped
<1>9. MoveFresh(t)
  BY <1>1, <1>2 DEF MoveFresh, TableInv, OwnEvents
<1> QED BY <1>1, <1>3, <1>4, <1>5, <1>6, <1>7, <1>8, <1>9, MoveKeeps

LEMMA DeleterReadsKeep ==
  ASSUME TableInv, Careful, NEW t \in Deleters,
         \/ deleteClientFromMap(t)
         \/ closeClientConnection(t) /\ fd[cur[t]] # Closed
         \/ web_close_start(t) /\ fd[cur[t]] # Closed
  PROVE  TableInv'
<1> DEFINE f == fd[cur[t]]
           there == CASE pc[t] = "fromMap" -> IF f = Closed THEN "close" ELSE "erase"
                      [] pc[t] = "close" -> "detach"
                      [] pc[t] = "closing" -> "web_close"
<1>1. pc[t] \in {"fromMap", "close", "closing"} /\ (pc[t] # "fromMap" => f # Closed)
      /\ ReadFd(t, there)
  BY DEF deleteClientFromMap, closeClientConnection, web_close_start
<1>2. t \in Thread /\ cur[t] \in Obj /\ f \in Fd \cup {Closed}
  BY <1>1, ConstantFacts DEF TableInv, TypeOK, Roles
<1>3. f # Closed => Owns(cur[t], f)
  BY <1>1, FieldIsOwned DEF DeletePc
<1>4. f = Closed => Unmapped(cur[t])
  BY <1>2, ConstantFacts DEF TableInv, Open, Unmapped
<1>5. pc[t] \in Erased => Unmapped(cur[t])
  BY DEF TableInv, Progress
<1>6. /\ there \in DeletePc \ {"forget", "release"} /\ pc[t] \in DeletePc \ {"forget", "release"}
      /\ there \in {"erase", "detach", "web_close"} => f # Closed
      /\ there \in Erased => Unmapped(cur[t])
      /\ pc[t] \in Erased => there \in Erased
      /\ pc[t] \in Detached => there \in Detached
  BY <1>1, <1>4, <1>5 DEF DeletePc, Erased, Detached
<1>7. /\ pc' = [pc EXCEPT ![t] = there] /\ client_id' = [client_id EXCEPT ![t] = f]
      /\ UNCHANGED <<memory, others, events, cur>>
  BY <1>1 DEF ReadFd, Go
<1>8. isOnLine' \subseteq Obj /\ conection_ids' \in [Obj -> Fd \cup {Closed}]
  BY <1>7 DEF others, TableInv, TypeOK
<1> HIDE DEF there, f
<1>9. there \in {"erase", "detach", "web_close"} => Owns(cur[t], f) /\ fd[cur[t]] \in {f, Closed}
  BY <1>3, <1>6 DEF f
<1> QED BY <1>2, <1>6, <1>7, <1>8, <1>9, DeleterMoves DEF memory, others

LEMMA UnlinkKeeps ==
  ASSUME TableInv, NEW t \in Deleters, set_offline(t) \/ reset(t) \/ un_link(t)
  PROVE  TableInv'
<1>1. PICK there \in {"reset", "un_link", "closing"} : pc' = [pc EXCEPT ![t] = there]
  BY DEF set_offline, reset, un_link, Go
<1>2. pc[t] \in {"offline", "reset", "un_link"}
      /\ UNCHANGED <<memory, epfd, aim, events, cur, client_id>>
  BY DEF set_offline, reset, un_link
<1>3. t \in Thread /\ client_id[t] \in Fd \cup {Closed}
      /\ client_id' = [client_id EXCEPT ![t] = client_id[t]]
  BY <1>2, ConstantFacts DEF TableInv, TypeOK
<1>4. isOnLine' \subseteq Obj
  BY DEF set_offline, reset, un_link, TableInv, TypeOK
<1>5. conection_ids' \in [Obj -> Fd \cup {Closed}]
  BY DEF set_offline, reset, un_link, TableInv, TypeOK
<1>6. Unmapped(cur[t])
  BY <1>2 DEF TableInv, Progress, Erased
<1> QED BY <1>1, <1>2, <1>3, <1>4, <1>5, <1>6, DeleterMoves
        DEF memory, DeletePc, Erased, Detached

-----------------------------------------------------------------------------
\* Threads that look up a connection

LEMMA LookupReturns ==
  ASSUME TableInv, NEW t \in Senders \cup Kickers,
         pc[t] \in {"lookup", "found", "write", "kick"}, Return(t)
  PROVE  TableInv'
<1>1. t \in Thread
  BY ConstantFacts
<1>2. MayReturn(t)
  BY DEF MayReturn, Erased
<1> QED BY <1>1, <1>2, ReturnKeeps

\* Such a thread goes on with the object o, one that exists.
LEMMA LookupMoves ==
  ASSUME TableInv, NEW t \in Senders \cup Kickers, NEW o \in Obj \cup {None},
         NEW f \in Fd \cup {Closed}, NEW H \in SUBSET Obj,
         NEW there \in {"lookup", "found", "message", "write", "kick", "fromMap"},
         pc[t] \in {"idle", "lookup", "found", "message", "kick"},
         t \in Senders => there \in {"lookup", "found", "message", "write"},
         t \in Kickers => there \in {"lookup", "found", "kick", "fromMap"},
         there = "lookup" => f \in Fd,
         there # "lookup" => o # None,
         o # None => life[o] # "new" /\ (o = cur[t] \/ \E g \in Fd : map_index[g] = o),
         \A p \in H : life[p] = "live",
         there = "fromMap" => o \in H,
         pc' = [pc EXCEPT ![t] = there], cur' = [cur EXCEPT ![t] = o],
         client_id' = [client_id EXCEPT ![t] = f], held' = [held EXCEPT ![t] = H],
         aim' \in [Thread -> Obj \cup {None}],
         UNCHANGED <<map_index, fd, life, sock, watched, isOnLine, epfd, conection_ids, events>>
  PROVE  TableInv'
<1>1. t \in Thread \ {Acceptor} /\ t \notin Workers
      /\ (t \in Senders => t \notin Deleters)
      /\ (t \in Deleters => t \in Kickers)
  BY ConnTableAssumption, ConstantFacts DEF Deleters
<1>2. pc'[t] = there /\ client_id'[t] = f /\ cur'[t] = o /\ held'[t] = H
  BY <1>1 DEF TableInv, TypeOK
<1>3. TypeOK'
  <2>1. pc' \in [Thread -> {"idle", "insert", "add", "release", "lookup", "found",
                        "message", "write", "kick", "fromMap", "erase", "close", "detach",
                        "offline", "reset", "un_link", "closing", "web_close", "forget"}]
        /\ client_id' \in [Thread -> Fd \cup {Closed}]
        /\ cur' \in [Thread -> Obj \cup {None}] /\ held' \in [Thread -> SUBSET Obj]
    BY <1>1 DEF TableInv, TypeOK
  <2>2. \A u \in Thread : pc'[u] = "erase" => client_id'[u] \in Fd
    BY <1>1, <1>2 DEF TableInv, TypeOK
  <2> QED BY <2>1, <2>2 DEF TableInv, TypeOK
<1>4. Move(t)
  BY <1>1 DEF TableInv, TypeOK, Move
<1>5. MoveRole(t)
  BY <1>1, <1>2 DEF MoveRole, DeletePc
<1>6. MoveLives(t)
  BY <1>1, <1>2 DEF MoveLives, DeletePc
<1>7. MoveOwned(t) /\ MoveProgress(t)
  BY <1>1, <1>2 DEF MoveOwned, MoveProgress, Erased, Detached
<1>8. pc[Acceptor] = "insert" => Unmapped(cur[Acceptor]) /\ cur[Acceptor] # None
  BY ConstantFacts DEF TableInv, Fresh, Roles
<1>9. MoveFresh(t)
  BY <1>1, <1>2, <1>8 DEF MoveFresh, Unmapped
<1> QED BY <1>1, <1>3, <1>4, <1>5, <1>6, <1>7, <1>9, MoveKeeps

LEMMA ReadSlotKeeps ==
  ASSUME TableInv, NEW t \in Senders \cup Kickers, NEW o \in Obj, read_slot(t, o)
  PROVE  TableInv'
<1>1. t \in Thread /\ conection_ids[o] \in Fd /\ cur[t] \in Obj \cup {None}
      /\ held[t] \in SUBSET Obj /\ cur' = [cur EXCEPT ![t] = cur[t]]
      /\ held' = [held EXCEPT ![t] = held[t]]
  BY ConstantFacts DEF read_slot, memory, TableInv, TypeOK
<1>2. /\ cur[t] # None => life[cur[t]] # "new"
      /\ \A p \in held[t] : life[p] = "live"
  BY <1>1 DEF TableInv, Lives
<1>3. /\ pc[t] = "idle" /\ pc' = [pc EXCEPT ![t] = "lookup"]
      /\ client_id' = [client_id EXCEPT ![t] = conection_ids[o]]
      /\ aim' \in [Thread -> Obj \cup {None}]
      /\ UNCHANGED <<map_index, fd, life, sock, watched, isOnLine, epfd, conection_ids, events>>
  BY DEF read_slot, Go, memory, TableInv, TypeOK
<1> QED BY <1>1, <1>2, <1>3, LookupMoves

LEMMA FindKeeps ==
  ASSUME TableInv, NEW t \in Senders \cup Kickers, find(t)
  PROVE  TableInv'
<1> DEFINE f == client_id[t]
           o == map_index[f]
<1>1. t \in Thread /\ f \in Fd /\ o \in Obj \cup {None} /\ held[t] \in SUBSET Obj
      /\ pc[t] = "lookup"
  BY ConstantFacts DEF find, TableInv, TypeOK, Roles
<1>2. CASE o = None
  BY <1>1, <1>2, LookupReturns DEF find
<1>3. CASE o # None
  <2>1. life[o] # "new" /\ \A p \in held[t] : life[p] = "live"
    BY <1>1, <1>3 DEF TableInv, Lives, Open
  <2>2. /\ pc' = [pc EXCEPT ![t] = "found"] /\ cur' = [cur EXCEPT ![t] = o]
        /\ client_id' = [client_id EXCEPT ![t] = f] /\ held' = [held EXCEPT ![t] = held[t]]
        /\ aim' \in [Thread -> Obj \cup {None}]
        /\ UNCHANGED <<map_index, fd, life, sock, watched, isOnLine, epfd, conection_ids, events>>
    BY <1>1, <1>3 DEF find, Go, memory, others, TableInv, TypeOK
  <2> HIDE DEF o, f
  <2>3. \E g \in Fd : map_index[g] = o
    BY <1>1 DEF o
  <2> QED BY <1>1, <1>3, <2>1, <2>2, <2>3, LookupMoves
<1> QED BY <1>2, <1>3

LEMMA GetKeeps ==
  ASSUME TableInv, NEW t \in Senders \cup Kickers, NEW there \in {"message", "kick"},
         there = "kick" <=> t \in Kickers, get(t, there)
  PROVE  TableInv'
<1> DEFINE o == cur[t]
<1>1. t \in Thread /\ cur[t] \in Obj /\ client_id[t] \in Fd \cup {Closed} /\ pc[t] = "found"
  BY ConstantFacts DEF get, TableInv, TypeOK, Roles
<1>2. CASE life[cur[t]] # "live"
  BY <1>1, <1>2, LookupReturns DEF get
<1>3. CASE life[cur[t]] = "live"
  <2>1. /\ pc' = [pc EXCEPT ![t] = there] /\ cur' = [cur EXCEPT ![t] = o]
        /\ client_id' = [client_id EXCEPT ![t] = client_id[t]]
        /\ held' = [held EXCEPT ![t] = {o}]
        /\ aim' \in [Thread -> Obj \cup {None}]
        /\ UNCHANGED <<map_index, fd, life, sock, watched, isOnLine, epfd, conection_ids, events>>
    BY <1>1, <1>3 DEF get, Go, memory, others, TableInv, TypeOK
  <2>2. t \in Senders => there = "message"
    BY ConnTableAssumption
  <2>3. /\ o \in Obj /\ o # None /\ o = cur[t] /\ life[o] # "new"
        /\ {o} \in SUBSET Obj /\ \A p \in {o} : life[p] = "live"
    BY <1>1, <1>3, ConstantFacts
  <2> HIDE DEF o
  <2> QED BY <1>1, <2>1, <2>2, <2>3, LookupMoves
<1> QED BY <1>2, <1>3

LEMMA MessageKeeps ==
  ASSUME TableInv, NEW s \in Senders, message(s)
  PROVE  TableInv'
<1>1. s \in Thread /\ s \notin Kickers
  BY ConnTableAssumption, ConstantFacts
<1>2. CASE get(s, "message")
  BY <1>1, <1>2, GetKeeps
<1>3. CASE pc[s] = "message" /\ ReadFd(s, "write")
  <2>1. cur[s] \in Obj /\ fd[cur[s]] \in Fd \cup {Closed} /\ held[s] \in SUBSET Obj
    BY <1>1, <1>3 DEF TableInv, TypeOK, Roles
  <2>2. life[cur[s]] # "new" /\ \A p \in held[s] : life[p] = "live"
    BY <1>1, <2>1, ConstantFacts DEF TableInv, Lives
  <2>3. /\ pc' = [pc EXCEPT ![s] = "write"] /\ cur' = [cur EXCEPT ![s] = cur[s]]
        /\ client_id' = [client_id EXCEPT ![s] = fd[cur[s]]]
        /\ held' = [held EXCEPT ![s] = held[s]]
        /\ aim' \in [Thread -> Obj \cup {None}]
        /\ UNCHANGED <<map_index, fd, life, sock, watched, isOnLine, epfd, conection_ids, events>>
    BY <1>1, <1>3 DEF ReadFd, Go, memory, others, TableInv, TypeOK
  <2> QED BY <1>1, <1>3, <2>1, <2>2, <2>3, ConstantFacts, LookupMoves
<1>4. CASE pc[s] = "write" /\ Return(s)
  BY <1>4, LookupReturns
<1> QED BY <1>2, <1>3, <1>4 DEF message

LEMMA KickKeeps ==
  ASSUME TableInv, NEW k \in Kickers, kick(k)
  PROVE  TableInv'
<1>1. k \in Thread /\ k \notin Senders
  BY ConnTableAssumption, ConstantFacts
<1>2. CASE get(k, "kick")
  BY <1>1, <1>2, GetKeeps
<1>3. CASE pc[k] = "kick" /\ ~get(k, "kick")
  <2> DEFINE o == IF fd[cur[k]] = Closed THEN None ELSE map_index[fd[cur[k]]]
  <2>1. cur[k] \in Obj /\ o \in Obj \cup {None} /\ client_id[k] \in Fd \cup {Closed}
        /\ held[k] \in SUBSET Obj
    BY <1>1, <1>3 DEF TableInv, TypeOK, Roles
  <2>2. CASE o = None
    BY <1>3, <2>2, LookupReturns DEF kick
  <2>3. CASE o # None
    <3>1. life[o] = "live" /\ \E g \in Fd : map_index[g] = o
      BY <2>1, <2>3 DEF TableInv, TypeOK, Open
    <3>2. \A p \in held[k] \cup {o} : life[p] = "live"
      BY <1>1, <3>1 DEF TableInv, Lives
    <3>3. /\ pc' = [pc EXCEPT ![k] = "fromMap"] /\ cur' = [cur EXCEPT ![k] = o]
          /\ client_id' = [client_id EXCEPT ![k] = client_id[k]]
          /\ held' = [held EXCEPT ![k] = held[k] \cup {o}]
          /\ aim' \in [Thread -> Obj \cup {None}]
          /\ UNCHANGED <<map_index, fd, life, sock, watched, isOnLine, epfd, conection_ids, events>>
      BY <1>1, <1>3, <2>1, <2>3 DEF kick, Go, others, TableInv, TypeOK
    <3> HIDE DEF o
    <3> QED BY <1>1, <1>3, <2>1, <2>3, <3>1, <3>2, <3>3, LookupMoves
  <2> QED BY <2>2, <2>3
<1> QED BY <1>2, <1>3 DEF kick

-----------------------------------------------------------------------------
\* The object leaves the map

LEMMA EraseQuiet ==
  ASSUME TableInv, NEW t \in Deleters, erase(t)
  PROVE  Quiet([map_index EXCEPT ![client_id[t]] = None], held)
<1> DEFINE f == client_id[t]
           m == [map_index EXCEPT ![f] = None]
<1>1. t \in Thread \ {Acceptor} /\ t \notin Senders /\ pc[t] = "erase" /\ cur[t] \in Obj
      /\ f \in Fd /\ Owns(cur[t], f) /\ fd[cur[t]] \in {f, Closed} /\ cur[t] \in held[t]
  BY ConnTableAssumption, ConstantFacts
     DEF erase, Deleters, TableInv, TypeOK, Roles, Owned, Lives, DeletePc
<1>2. /\ m \in [Fd -> Obj \cup {None}] /\ m[f] = None
      /\ \A g \in Fd : g # f => m[g] = map_index[g]
  BY <1>1 DEF TableInv, TypeOK
<1>3. References(m, held)
  BY DEF erase
<1> HIDE DEF m
<1>4. ASSUME NEW g \in Fd, sock[g] # None
      PROVE  \/ \E e \in Fd : m[e] = sock[g]
             \/ \E u \in Thread : sock[g] \in held[u]
  <2>1. sock[g] \in Obj /\ fd[sock[g]] = g
    BY <1>4 DEF TableInv, TypeOK, Open
  <2>2. CASE map_index[g] = sock[g] /\ g # f
    BY <2>2, <1>2
  <2>3. CASE g = f
    BY <2>3, <1>1, <1>4 DEF Owns
  <2>4. CASE pc[Acceptor] = "insert" /\ cur[Acceptor] = sock[g]
    BY <2>4, ConstantFacts DEF TableInv, Lives
  <2>5. ASSUME NEW u \in Deleters, cur[u] = sock[g], pc[u] \in Erased
        PROVE  \E v \in Thread : sock[g] \in held[v]
    BY <2>5, ConstantFacts DEF TableInv, Lives, Erased, DeletePc
  <2> QED BY <1>4, <2>1, <2>2, <2>3, <2>4, <2>5 DEF TableInv, Reachable, Found
<1>5. \A g \in Fd : m[g] \in {map_index[g], None}
  BY <1>2
<1> QED BY <1>3, <1>4, <1>5, QuietReferences DEF m

LEMMA EraseKeeps ==
  ASSUME TableInv, NEW t \in Deleters, erase(t)
  PROVE  TableInv'
<1> DEFINE f == client_id[t]
           m == [map_index EXCEPT ![f] = None]
<1>1. t \in Thread \ {Acceptor} /\ t \notin Senders /\ pc[t] = "erase" /\ cur[t] \in Obj
      /\ f \in Fd /\ Owns(cur[t], f) /\ fd[cur[t]] \in {f, Closed} /\ cur[t] \in held[t]
  BY ConnTableAssumption, ConstantFacts
     DEF erase, Deleters, TableInv, TypeOK, Roles, Owned, Lives, DeletePc
<1>2. /\ m \in [Fd -> Obj \cup {None}] /\ m[f] = None
      /\ \A g \in Fd : g # f => m[g] = map_index[g]
  BY <1>1 DEF TableInv, TypeOK
<1>3. Quiet(m, held)
  BY EraseQuiet
<1> HIDE DEF m
<1>4. /\ map_index' = m /\ held' = held /\ sock' = sock /\ watched' = watched
      /\ life' \in [Obj -> {"new", "live", "freed"}] /\ fd' \in [Obj -> Fd \cup {Closed}]
      /\ \A o \in Obj :
           \/ life'[o] = life[o] /\ fd'[o] = fd[o]
           \/ /\ life[o] = "live" /\ life'[o] = "freed" /\ fd'[o] = Closed
              /\ \A g \in Fd : m[g] # o /\ sock[g] # o
              /\ \A u \in Thread : o \notin held[u]
  BY <1>3 DEF Quiet
<1>5. /\ pc' = [pc EXCEPT ![t] = "close"] /\ cur' = cur /\ client_id' = client_id
      /\ UNCHANGED <<isOnLine, epfd, conection_ids, aim, events>>
  BY DEF erase, Go, others
<1>6. pc'[t] = "close" /\ \A u \in Thread : u # t => pc'[u] = pc[u]
  BY <1>1, <1>5 DEF TableInv, TypeOK
<1>7. Born' = Born
  BY <1>4, BornSame
<1>8. \A g \in Fd : map_index'[g] \in {map_index[g], None}
  BY <1>2, <1>4
<1>9. TypeOK'
  <2>1. pc' \in [Thread -> {"idle", "insert", "add", "release", "lookup", "found",
                        "message", "write", "kick", "fromMap", "erase", "close", "detach",
                        "offline", "reset", "un_link", "closing", "web_close", "forget"}]
    BY <1>1, <1>5 DEF TableInv, TypeOK
  <2>2. \A u \in Thread : pc'[u] = "erase" => client_id'[u] \in Fd
    BY <1>5, <1>6 DEF TableInv, TypeOK
  <2> QED BY <2>1, <2>2, <1>2, <1>4, <1>5 DEF TableInv, TypeOK
<1>10. Roles'
  BY <1>1, <1>5, <1>6, ConstantFacts DEF TableInv, Roles, DeletePc
<1>11. Lives'
  BY <1>1, <1>4, <1>5, <1>6, ConstantFacts DEF TableInv, TypeOK, Lives, DeletePc
<1>12. Open'
  <2>1. \A g \in Fd : sock[g] # None =>
          sock[g] \in Obj /\ fd'[sock[g]] = g /\ life'[sock[g]] = "live"
    BY <1>4 DEF TableInv, TypeOK, Open
  <2>2. \A g \in Fd : m[g] # None =>
          /\ m[g] \in Obj /\ fd'[m[g]] = g /\ life'[m[g]] = "live"
          /\ ~EpollFails => sock[g] = m[g]
    BY <1>2, <1>4 DEF TableInv, TypeOK, Open
  <2> QED BY <2>1, <2>2, <1>4 DEF Open
<1>13. Owned'
  <2>1. ASSUME NEW o \in Obj, fd'[o] # Closed
        PROVE  \/ Owns(o, fd[o])'
               \/ Reuse /\ \E u \in Deleters : cur'[u] = o /\ pc'[u] = "forget"
    <3>1. fd'[o] = fd[o]
      BY <1>4, <2>1
    <3>2. CASE Owns(o, fd[o])
      BY <3>1, <3>2, <1>4, <1>7, <1>8 DEF Owns
    <3>3. ASSUME NEW u \in Deleters, cur[u] = o, pc[u] = "forget"
          PROVE  cur'[u] = o /\ pc'[u] = "forget"
      BY <3>3, <1>1, <1>5, <1>6, ConstantFacts
    <3> QED BY <2>1, <3>1, <3>2, <3>3 DEF TableInv, Owned
  <2>2. ASSUME NEW u \in Thread, pc'[u] \in {"erase", "detach", "web_close", "insert", "add"}
        PROVE  Owns(cur[u], client_id[u])' /\ fd'[cur'[u]] \in {client_id'[u], Closed}
    <3>1. /\ Owns(cur[u], client_id[u]) /\ fd[cur[u]] \in {client_id[u], Closed}
          /\ cur[u] \in Obj
      BY <2>2, <1>6 DEF TableInv, Owned, Roles
    <3> QED BY <3>1, <1>4, <1>5, <1>7, <1>8 DEF Owns
  <2> QED BY <2>1, <2>2 DEF Owned
<1>14. Progress'
  <2> SUFFICES ASSUME NEW u \in Deleters, pc'[u] \in Erased \cup {"forget", "release"}
               PROVE  /\ Unmapped(cur[u])'
                      /\ pc'[u] \in {"forget", "release"} => \A g \in Fd : sock'[g] # cur'[u]
                      /\ pc'[u] = "release" => fd'[cur'[u]] = Closed
    BY DEF Progress
  <2>1. CASE u = t
    <3>1. \A g \in Fd : map_index'[g] # cur[t]
      BY <1>1, <1>2, <1>4, <1>8, ConstantFacts DEF TableInv, Open
    <3> QED BY <2>1, <3>1, <1>5, <1>6 DEF Unmapped
  <2>2. CASE u # t
    <3>1. u \in Thread /\ pc'[u] = pc[u] /\ cur'[u] = cur[u] /\ cur[u] \in Obj
      BY <2>2, <1>5, <1>6, ConstantFacts DEF TableInv, Roles, Erased
    <3> QED BY <3>1, <1>4, <1>8, ConstantFacts DEF TableInv, Progress, Unmapped
  <2> QED BY <2>1, <2>2
<1>15. Reachable'
  <2>1. ASSUME NEW g \in Fd, sock[g] # None
        PROVE  Found(sock[g])' /\ Watched(sock[g])'
    <3>1. /\ sock[g] \in Obj /\ fd[sock[g]] = g /\ fd'[sock[g]] = g
          /\ Found(sock[g]) /\ Watched(sock[g])
      BY <2>1, <1>4 DEF TableInv, TypeOK, Open, Reachable
    <3>2. \A u \in Deleters : pc[u] \in Erased \cup Detached => pc'[u] = pc[u]
      BY <1>1, <1>6, ConstantFacts DEF Erased, Detached
    <3>3. pc'[Acceptor] = pc[Acceptor]
      BY <1>1, <1>6, ConstantFacts
    <3>4. Found(sock[g])'
      <4>1. CASE g = f
        BY <4>1, <2>1, <1>1, <1>4, <1>5, <1>6 DEF Owns, Found, Erased
      <4>2. CASE g # f
        BY <4>2, <3>1, <3>2, <3>3, <1>2, <1>4, <1>5 DEF Found
      <4> QED BY <4>1, <4>2
    <3>5. Watched(sock[g])'
      BY <3>1, <3>2, <3>3, <1>4, <1>5 DEF Watched
    <3> QED BY <3>4, <3>5
  <2>2. \A o \in watched : fd'[o] # Closed /\ sock[fd'[o]] = o
    BY <1>4 DEF TableInv, TypeOK, Reachable
  <2> QED BY <2>1, <2>2, <1>4 DEF Reachable
<1>16. Fresh'
  <2>1. pc'[Acceptor] = pc[Acceptor]
    BY <1>1, <1>6, ConstantFacts
  <2>2. ASSUME pc[Acceptor] \in {"insert", "add"}
        PROVE  cur[Acceptor] \in Obj /\ fd'[cur[Acceptor]] = fd[cur[Acceptor]]
    BY <2>2, <1>4, ConstantFacts DEF TableInv, Roles, Lives
  <2> QED BY <2>1, <2>2, <1>4, <1>5, <1>8, ConstantFacts DEF TableInv, Fresh, Unmapped
<1>17. OwnEvents'
  BY <1>1, <1>5, <1>6, ConstantFacts DEF TableInv, OwnEvents
<1> QED BY <1>9, <1>10, <1>11, <1>12, <1>13, <1>14, <1>15, <1>16, <1>17 DEF TableInv

-----------------------------------------------------------------------------
\* The descriptor leaves the epoll set, and is closed

LEMMA DetachKeeps ==
  ASSUME TableInv, NEW t \in Deleters, epoll_detached(t)
  PROVE  TableInv'
<1>1. t \in Thread \ {Acceptor} /\ pc[t] = "detach" /\ cur[t] \in Obj /\ cur[t] \in held[t]
      /\ Owns(cur[t], client_id[t])
  BY ConnTableAssumption, ConstantFacts
     DEF epoll_detached, Deleters, TableInv, TypeOK, Roles, Owned, Lives, DeletePc
<1>2. watched' \subseteq watched /\ watched \ watched' \subseteq {cur[t]}
  BY <1>1, ConstantFacts DEF epoll_detached, Owns, TableInv, TypeOK
<1>3. /\ pc' = [pc EXCEPT ![t] = "offline"]
      /\ UNCHANGED <<map_index, fd, life, sock, held, others, events, cur, client_id>>
  BY DEF epoll_detached, Go
<1>4. pc'[t] = "offline" /\ \A u \in Thread : u # t => pc'[u] = pc[u]
  BY <1>1, <1>3 DEF TableInv, TypeOK
<1>5. Born' = Born
  BY <1>3 DEF Born
<1>6. TypeOK'
  <2>1. pc' \in [Thread -> {"idle", "insert", "add", "release", "lookup", "found",
                        "message", "write", "kick", "fromMap", "erase", "close", "detach",
                        "offline", "reset", "un_link", "closing", "web_close", "forget"}]
    BY <1>1, <1>3 DEF TableInv, TypeOK
  <2>2. \A u \in Thread : pc'[u] = "erase" => client_id'[u] \in Fd
    BY <1>3, <1>4 DEF TableInv, TypeOK
  <2> QED BY <2>1, <2>2, <1>2, <1>3 DEF others, TableInv, TypeOK
<1>7. Roles'
  BY <1>1, <1>3, <1>4, ConstantFacts DEF TableInv, Roles, DeletePc
<1>8. Lives'
  BY <1>1, <1>3, <1>4, ConstantFacts DEF TableInv, Lives, DeletePc
<1>9. Open'
  BY <1>3 DEF TableInv, Open
<1>10. Owned'
  <2>1. \A o \in Obj, f \in Fd : Owns(o, f) => Owns(o, f)'
    BY <1>3, <1>5 DEF Owns
  <2>2. \A u \in Deleters : pc[u] = "forget" => pc'[u] = "forget"
    BY <1>1, <1>4, ConstantFacts
  <2>3. \A o \in Obj : fd[o] # Closed =>
          \/ Owns(o, fd[o])'
          \/ Reuse /\ \E u \in Deleters : cur'[u] = o /\ pc'[u] = "forget"
    BY <2>1, <2>2, <1>3 DEF TableInv, TypeOK, Owned
  <2>4. \A u \in Thread : pc'[u] \in {"erase", "detach", "web_close", "insert", "add"} =>
          Owns(cur[u], client_id[u])' /\ fd[cur[u]] \in {client_id[u], Closed}
    BY <1>3, <1>4, <1>5 DEF TableInv, Owned, Owns
  <2> QED BY <2>3, <2>4, <1>3 DEF Owned
<1>11. Progress'
  BY <1>1, <1>3, <1>4, ConstantFacts DEF TableInv, Progress, Unmapped, Erased
<1>12. Reachable'
  <2>1. \A u \in Deleters : /\ pc[u] \in Erased => pc'[u] \in Erased
                            /\ pc[u] \in Detached => pc'[u] \in Detached
    BY <1>1, <1>4, ConstantFacts DEF Erased, Detached
  <2>2. pc'[Acceptor] = pc[Acceptor]
    BY <1>1, <1>4, ConstantFacts
  <2>3. Watched(cur[t])'
    BY <1>3, <1>4 DEF Watched, Detached
  <2>4. ASSUME NEW f \in Fd, sock[f] # None
        PROVE  Found(sock[f])' /\ Watched(sock[f])'
    <3>1. sock[f] \in Obj /\ Found(sock[f]) /\ Watched(sock[f])
      BY <2>4 DEF TableInv, TypeOK, Reachable
    <3>2. Found(sock[f])'
      BY <3>1, <2>1, <2>2, <1>3 DEF Found
    <3>3. Watched(sock[f])'
      BY <3>1, <2>1, <2>2, <2>3, <1>2, <1>3 DEF Watched
    <3> QED BY <3>2, <3>3
  <2> QED BY <2>4, <1>2, <1>3 DEF TableInv, Reachable
<1>13. Fresh'
  BY <1>1, <1>2, <1>3, <1>4, ConstantFacts DEF TableInv, Fresh, Unmapped
<1>14. OwnEvents'
  BY <1>1, <1>3, <1>4, ConstantFacts DEF others, TableInv, OwnEvents
<1> QED BY <1>6, <1>7, <1>8, <1>9, <1>10, <1>11, <1>12, <1>13, <1>14 DEF TableInv

LEMMA CloseKeeps ==
  ASSUME TableInv, Careful, NEW t \in Deleters, web_close(t)
  PROVE  TableInv'
<1> DEFINE f == client_id[t]
<1>1. t \in Thread \ {Acceptor} /\ pc[t] = "web_close" /\ cur[t] \in Obj /\ cur[t] \in held[t]
      /\ f \in Fd /\ Owns(cur[t], f) /\ fd[cur[t]] \in {f, Closed} /\ Unmapped(cur[t])
      /\ t \notin Senders
  BY ConnTableAssumption, ConstantFacts
     DEF web_close, Deleters, TableInv, TypeOK, Roles, Owned, Owns, Lives, DeletePc, Progress,
         Erased
<1>2. /\ sock' = [g \in Fd |-> IF g = f THEN None ELSE sock[g]]
      /\ watched' = watched \ {sock[f]}
      /\ pc' = [pc EXCEPT ![t] = "forget"]
      /\ UNCHANGED <<map_index, fd, life, held, others, events, cur, client_id>>
  BY DEF web_close, CloseFds, Go
<1>3. sock'[f] = None /\ \A g \in Fd : g # f => sock'[g] = sock[g]
  BY <1>1, <1>2
<1>4. pc'[t] = "forget" /\ \A u \in Thread : u # t => pc'[u] = pc[u]
  BY <1>1, <1>2 DEF TableInv, TypeOK
<1>5. Born' = Born
  BY <1>2 DEF Born
<1>6. TypeOK'
  <2>1. pc' \in [Thread -> {"idle", "insert", "add", "release", "lookup", "found",
                        "message", "write", "kick", "fromMap", "erase", "close", "detach",
                        "offline", "reset", "un_link", "closing", "web_close", "forget"}]
    BY <1>1, <1>2 DEF TableInv, TypeOK
  <2>2. \A u \in Thread : pc'[u] = "erase" => client_id'[u] \in Fd
    BY <1>2, <1>4 DEF TableInv, TypeOK
  <2>3. sock' \in [Fd -> Obj \cup {None}] /\ watched' \subseteq Obj
    BY <1>2 DEF TableInv, TypeOK
  <2> QED BY <2>1, <2>2, <2>3, <1>2 DEF others, TableInv, TypeOK
<1>7. Roles'
  BY <1>1, <1>2, <1>4, ConstantFacts DEF TableInv, Roles, DeletePc
<1>8. Lives'
  BY <1>1, <1>2, <1>4, ConstantFacts DEF TableInv, Lives, DeletePc
<1>9. map_index[f] = None
  BY <1>1 DEF Owns, Unmapped
<1>10. Open'
  BY <1>2, <1>3, <1>9 DEF TableInv, Open
<1>11. Owned'
  <2>2. ASSUME NEW o \in Obj, fd[o] # Closed
        PROVE  \/ Owns(o, fd[o])'
               \/ Reuse /\ \E u \in Deleters : cur'[u] = o /\ pc'[u] = "forget"
    <3>1. CASE Reuse /\ o = cur[t]
      BY <3>1, <1>2, <1>4
    <3>2. \A u \in Deleters : pc[u] = "forget" => pc'[u] = "forget"
      BY <1>1, <1>4, ConstantFacts
    <3>3. CASE Owns(o, fd[o]) /\ (Reuse => o # cur[t])
      <4>1. fd[o] \in Fd /\ (Reuse => fd[o] # f)
        BY <3>3, <1>1 DEF Owns
      <4> QED BY <4>1, <3>3, <1>2, <1>3, <1>5 DEF Owns
    <3> QED BY <2>2, <3>1, <3>2, <3>3, <1>2 DEF TableInv, Owned
  <2>3. ASSUME NEW u \in Thread, pc'[u] \in {"erase", "detach", "web_close", "insert", "add"}
        PROVE  Owns(cur[u], client_id[u])' /\ fd[cur[u]] \in {client_id[u], Closed}
    <3>1. u # t /\ pc[u] = pc'[u]
      BY <2>3, <1>4
    <3>2. Owns(cur[u], client_id[u]) /\ fd[cur[u]] \in {client_id[u], Closed} /\ cur[u] \in Obj
      BY <2>3, <3>1 DEF TableInv, Owned, Roles
    <3>3. ASSUME Reuse PROVE cur[u] # cur[t]
      <4>1. t \in Workers
        BY <3>3 DEF Careful, Deleters
      <4>2. CASE u \in Workers
        BY <4>1, <4>2, <2>3, <3>1, <1>1 DEF TableInv, OwnEvents
      <4>3. CASE u = Acceptor
        BY <4>1, <4>3, <2>3, <3>1, ConstantFacts DEF TableInv, Roles, Fresh
      <4>4. CASE u \in Senders \cup Kickers
        BY <4>4, <3>3, <3>1, <2>3 DEF Careful, TableInv, Roles
      <4> QED BY <4>2, <4>3, <4>4 DEF Thread
    <3>4. client_id[u] \in Fd
      BY <3>2 DEF Owns
    <3>5. Reuse => client_id[u] # f
      BY <3>2, <3>3, <1>1 DEF Owns
    <3> QED BY <3>2, <3>4, <3>5, <1>2, <1>3, <1>5 DEF Owns
  <2> QED BY <2>2, <2>3, <1>2 DEF Owned
<1>12. \A g \in Fd : sock'[g] # cur[t]
  BY <1>1, <1>3, ConstantFacts DEF TableInv, Open
<1>13. Progress'
  BY <1>1, <1>2, <1>3, <1>4, <1>12, ConstantFacts DEF TableInv, Progress, Unmapped, Erased, Roles, DeletePc
<1>14. Reachable'
  <2>1. \A u \in Deleters : /\ pc[u] \in Erased /\ u # t => pc'[u] \in Erased
                            /\ pc[u] \in Detached /\ u # t => pc'[u] \in Detached
    BY <1>4, ConstantFacts
  <2>2. pc'[Acceptor] = pc[Acceptor]
    BY <1>1, <1>4, ConstantFacts
  <2>3. ASSUME NEW g \in Fd, sock'[g] # None
        PROVE  Found(sock[g])' /\ Watched(sock[g])'
    <3>1. sock'[g] = sock[g] /\ sock[g] # cur[t] /\ g # f
      BY <2>3, <1>3, <1>12
    <3>2. Found(sock[g]) /\ Watched(sock[g]) /\ fd[sock[g]] = g
      BY <2>3, <3>1 DEF TableInv, Reachable, Open
    <3>3. sock[g] # sock[f]
      BY <3>1, <3>2, <1>1, <2>3 DEF TableInv, Open
    <3>4. (\E u \in Deleters : cur[u] = sock[g] /\ pc[u] \in Erased)
            => \E u \in Deleters : cur'[u] = sock[g] /\ pc'[u] \in Erased
      BY <3>1, <2>1, <1>2
    <3>5. (\E u \in Deleters : cur[u] = sock[g] /\ pc[u] \in Detached)
            => \E u \in Deleters : cur'[u] = sock[g] /\ pc'[u] \in Detached
      BY <3>1, <2>1, <1>2
    <3>6. Found(sock[g])'
      BY <3>1, <3>2, <3>4, <2>2, <1>2 DEF Found
    <3>7. Watched(sock[g])'
      BY <3>1, <3>2, <3>3, <3>5, <2>2, <1>2 DEF Watched
    <3> QED BY <3>6, <3>7
  <2>4. \A o \in watched' : fd'[o] # Closed /\ sock'[fd'[o]] = o
    BY <1>2, <1>3 DEF TableInv, TypeOK, Reachable
  <2> QED BY <2>3, <2>4, <1>3 DEF Reachable
<1>15. Fresh'
  <2>1. pc'[Acceptor] = pc[Acceptor]
    BY <1>1, <1>4, ConstantFacts
  <2>2. pc[Acceptor] = "insert" => client_id[Acceptor] \in Fd /\ client_id[Acceptor] # f
    BY <1>1, ConstantFacts DEF TableInv, Fresh, Owned, Owns, Roles
  <2> QED BY <2>1, <2>2, <1>2, <1>3, ConstantFacts DEF TableInv, Fresh, Unmapped
<1>16. OwnEvents'
  BY <1>1, <1>2, <1>4, ConstantFacts DEF others, TableInv, OwnEvents
<1> QED BY <1>6, <1>7, <1>8, <1>10, <1>11, <1>13, <1>14, <1>15, <1>16 DEF TableInv

LEMMA ForgetKeeps ==
  ASSUME TableInv, NEW t \in Deleters, forget(t)
  PROVE  TableInv'
<1>1. t \in Thread \ {Acceptor} /\ pc[t] = "forget" /\ cur[t] \in Obj /\ cur[t] \in held[t]
      /\ Unmapped(cur[t]) /\ \A f \in Fd : sock[f] # cur[t]
  BY ConnTableAssumption, ConstantFacts
     DEF forget, Deleters, TableInv, TypeOK, Roles, Lives, DeletePc, Progress
<1>2. /\ fd' = [fd EXCEPT ![cur[t]] = Closed]
      /\ pc' = [pc EXCEPT ![t] = "release"]
      /\ UNCHANGED <<map_index, life, sock, watched, held, others, events, cur, client_id>>
  BY DEF forget, Go
<1>3. /\ fd' \in [Obj -> Fd \cup {Closed}] /\ fd'[cur[t]] = Closed
      /\ \A o \in Obj : o # cur[t] => fd'[o] = fd[o]
  BY <1>1, <1>2 DEF TableInv, TypeOK
<1>4. pc'[t] = "release" /\ \A u \in Thread : u # t => pc'[u] = pc[u]
  BY <1>1, <1>2 DEF TableInv, TypeOK
<1>5. Born' = Born
  BY <1>2 DEF Born
<1>6. TypeOK'
  <2>1. pc' \in [Thread -> {"idle", "insert", "add", "release", "lookup", "found",
                        "message", "write", "kick", "fromMap", "erase", "close", "detach",
                        "offline", "reset", "un_link", "closing", "web_close", "forget"}]
    BY <1>1, <1>2 DEF TableInv, TypeOK
  <2>2. \A u \in Thread : pc'[u] = "erase" => client_id'[u] \in Fd
    BY <1>2, <1>4 DEF TableInv, TypeOK
  <2> QED BY <2>1, <2>2, <1>2, <1>3 DEF others, TableInv, TypeOK
<1>7. Roles'
  BY <1>1, <1>2, <1>4, ConstantFacts DEF TableInv, Roles, DeletePc
<1>8. Lives'
  BY <1>1, <1>2, <1>4, ConstantFacts DEF TableInv, Lives, DeletePc
<1>9. Open'
  <2>1. \A f \in Fd : sock[f] # None => fd'[sock[f]] = fd[sock[f]]
    BY <1>1, <1>3 DEF TableInv, TypeOK
  <2>2. \A f \in Fd : map_index[f] # None => fd'[map_index[f]] = fd[map_index[f]]
    BY <1>1, <1>3 DEF TableInv, TypeOK, Unmapped
  <2> QED BY <2>1, <2>2, <1>2 DEF TableInv, Open
<1>10. Owned'
  <2>1. ASSUME NEW o \in Obj, fd'[o] # Closed
        PROVE  \/ Owns(o, fd[o])'
               \/ Reuse /\ \E u \in Deleters : cur'[u] = o /\ pc'[u] = "forget"
    <3>1. o # cur[t] /\ fd'[o] = fd[o]
      BY <2>1, <1>3
    <3>2. CASE Owns(o, fd[o])
      BY <3>1, <3>2, <1>2, <1>5 DEF Owns
    <3>3. ASSUME NEW u \in Deleters, cur[u] = o, pc[u] = "forget"
          PROVE  cur'[u] = o /\ pc'[u] = "forget"
      BY <3>1, <3>3, <1>2, <1>4, ConstantFacts
    <3> QED BY <2>1, <3>1, <3>2, <3>3 DEF TableInv, Owned
  <2>2. ASSUME NEW u \in Thread, pc'[u] \in {"erase", "detach", "web_close", "insert", "add"}
        PROVE  Owns(cur[u], client_id[u])' /\ fd'[cur'[u]] \in {client_id'[u], Closed}
    <3>1. /\ Owns(cur[u], client_id[u]) /\ fd[cur[u]] \in {client_id[u], Closed}
          /\ cur[u] \in Obj
      BY <2>2, <1>4 DEF TableInv, Owned, Roles
    <3> QED BY <3>1, <1>2, <1>3, <1>5 DEF Owns
  <2> QED BY <2>1, <2>2 DEF Owned
<1>11. Progress'
  BY <1>1, <1>2, <1>3, <1>4, ConstantFacts DEF TableInv, Progress, Unmapped, Erased, Roles, DeletePc
<1>12. Reachable'
  <2>1. \A u \in Deleters : pc[u] \in Erased \cup Detached => pc'[u] = pc[u]
    BY <1>1, <1>4, ConstantFacts DEF Erased, Detached
  <2>2. pc'[Acceptor] = pc[Acceptor]
    BY <1>1, <1>4, ConstantFacts
  <2>3. \A f \in Fd : sock[f] # None => Found(sock[f])' /\ Watched(sock[f])'
    <3> SUFFICES ASSUME NEW f \in Fd, sock[f] # None
                 PROVE  Found(sock[f])' /\ Watched(sock[f])'
      OBVIOUS
    <3>1. /\ sock[f] \in Obj /\ fd'[sock[f]] = fd[sock[f]]
          /\ Found(sock[f]) /\ Watched(sock[f])
      BY <1>1, <1>3 DEF TableInv, TypeOK, Reachable
    <3> QED BY <3>1, <2>1, <2>2, <1>2 DEF Found, Watched
  <2>4. \A o \in watched : fd'[o] # Closed /\ sock[fd'[o]] = o
    BY <1>1, <1>3 DEF TableInv, TypeOK, Reachable
  <2> QED BY <2>3, <2>4, <1>2 DEF Reachable
<1>13. Fresh'
  BY <1>1, <1>2, <1>3, <1>4, ConstantFacts DEF TableInv, Fresh, Unmapped, Roles
<1>14. OwnEvents'
  BY <1>1, <1>2, <1>4, ConstantFacts DEF others, TableInv, OwnEvents
<1> QED BY <1>6, <1>7, <1>8, <1>9, <1>10, <1>11, <1>12, <1>13, <1>14 DEF TableInv

LEMMA DeletedKeeps ==
  ASSUME TableInv, NEW t \in Deleters,
         \/ deleted(t)
         \/ closeClientConnection(t) /\ fd[cur[t]] = Closed
         \/ web_close_start(t) /\ fd[cur[t]] = Closed
  PROVE  TableInv'
<1>1. t \in Thread /\ pc[t] \in {"release", "close", "closing"} /\ Return(t)
      /\ (pc[t] # "release" => fd[cur[t]] = Closed)
  BY ConstantFacts DEF deleted, closeClientConnection, web_close_start
<1>2. cur[t] \in Obj /\ cur[t] # None
  BY <1>1, ConstantFacts DEF TableInv, Roles
<1>3. fd[cur[t]] = Closed => \A f \in Fd : sock[f] # cur[t]
  BY <1>2, ConstantFacts DEF TableInv, Open
<1>4. MayReturn(t)
  BY <1>1, <1>3 DEF MayReturn, Erased
<1> QED BY <1>1, <1>4, ReturnKeeps

LEMMA DeleteClientKeeps ==
  ASSUME TableInv, Careful, NEW t \in Deleters, deleteClient(t)
  PROVE  TableInv'
BY DeleterReadsKeep, UnlinkKeeps, EraseKeeps, DetachKeeps, CloseKeeps, ForgetKeeps, DeletedKeeps
   DEF deleteClient

-----------------------------------------------------------------------------
\* A new connection

\* The kernel's choice: the smallest descriptor that is not in use.
LEMMA Smallest ==
  ASSUME NEW S \in SUBSET Nat, S # {}
  PROVE  Min(S) \in S /\ \A y \in S : Min(S) =< y
<1>1. PICK x \in S : \A y \in S : ~(<<y, x>> \in OpToRel(<, Nat))
  BY WFMin, NatLessThanWellFounded
<1>2. ASSUME NEW y \in S PROVE x =< y
  <2>1. y < x => <<y, x>> \in OpToRel(<, Nat)
    BY DEF OpToRel
  <2>2. ~(y < x)
    BY <1>1, <2>1, Zenon
  <2> QED BY <2>2
<1> QED BY <1>2 DEF Min

\* It is nobody's: no object in the map or with a descriptor has it.
LEMMA UnusedIsFree ==
  ASSUME TableInv, Careful, Unused # {}
  PROVE  /\ Min(Unused) \in Fd /\ sock[Min(Unused)] = None
         /\ ~Reuse => Min(Unused) = Cardinality(Born) + 1
         /\ map_index[Min(Unused)] = None
<1> DEFINE f == Min(Unused)
           n == Cardinality(Born)
<1>1. f \in Unused /\ (\A g \in Unused : f =< g) /\ Unused \subseteq Fd
  BY Smallest, ConstantFacts DEF Unused
<1>2. n \in Nat
  BY ConnTableAssumption, FS_Subset, FS_CardinalityType DEF Born
<1>3. Unused = {g \in Fd : sock[g] = None /\ (Reuse \/ g > n)}
  BY DEF Unused, Born
<1> HIDE DEF f, n
<1>4. ASSUME ~Reuse PROVE f = n + 1
  <2>1. Cardinality(Fd) \in Nat /\ Fd = 1 .. Cardinality(Fd)
    BY ConnTableAssumption, FS_CardinalityType
  <2>2. f \in Fd /\ f > n
    BY <1>1, <1>3, <1>4
  <2>3. n + 1 \in Fd
    BY <1>2, <2>1, <2>2
  <2>4. ASSUME sock[n + 1] # None PROVE FALSE
    <3>1. sock[n + 1] \in Obj /\ fd[sock[n + 1]] = n + 1
      BY <2>3, <2>4 DEF TableInv, TypeOK, Open
    <3>2. Owns(sock[n + 1], n + 1)
      BY <1>4, <2>3, <3>1, ConstantFacts DEF TableInv, Owned
    <3> QED BY <1>2, <1>4, <3>2, ConnTableAssumption DEF Owns, n
  <2>5. n + 1 \in Unused
    BY <1>2, <1>3, <2>3, <2>4
  <2> QED BY <1>1, <1>2, <2>1, <2>2, <2>3, <2>5
<1>5. f \in Fd /\ sock[f] = None /\ (~Reuse => f = n + 1)
  BY <1>1, <1>3, <1>4
<1>6. ASSUME map_index[f] # None PROVE FALSE
  <2>1. map_index[f] \in Obj /\ fd[map_index[f]] = f /\ (~EpollFails => sock[f] = map_index[f])
    BY <1>5, <1>6 DEF TableInv, TypeOK, Open
  <2>2. ~Reuse
    BY <1>5, <1>6, <2>1 DEF Careful
  <2>3. Owns(map_index[f], f)
    BY <1>5, <2>1, <2>2, ConstantFacts DEF TableInv, Owned
  <2> QED BY <1>5, <1>2, <2>2, <2>3, ConnTableAssumption DEF Owns, n
<1> QED BY <1>5, <1>6 DEF f, n

LEMMA AcceptKeeps ==
  ASSUME TableInv, Careful, NEW o \in Obj, NEW w \in Workers, accept(o, w)
  PROVE  TableInv'
<1> PICK f : f = Min(Unused)
  OBVIOUS
<1>1. f \in Fd /\ sock[f] = None /\ map_index[f] = None
      /\ (~Reuse => f = Cardinality(Born) + 1)
  BY UnusedIsFree DEF accept
<1>2. /\ pc[Acceptor] = "idle" /\ life[o] = "new"
      /\ sock' = [sock EXCEPT ![f] = o]
      /\ life' = [life EXCEPT ![o] = "live"]
      /\ fd' = [fd EXCEPT ![o] = f]
      /\ epfd' = [epfd EXCEPT ![o] = w]
      /\ isOnLine' = isOnLine \cup {o}
      /\ held' = [held EXCEPT ![Acceptor] = {o}]
      /\ cur' = [cur EXCEPT ![Acceptor] = o]
      /\ client_id' = [client_id EXCEPT ![Acceptor] = f]
      /\ pc' = [pc EXCEPT ![Acceptor] = "insert"]
      /\ UNCHANGED <<map_index, conection_ids, watched, events, aim>>
  BY DEF accept, Go
<1>3. /\ sock'[f] = o /\ life'[o] = "live" /\ fd'[o] = f /\ epfd'[o] = w /\ held'[Acceptor] = {o}
      /\ cur'[Acceptor] = o /\ client_id'[Acceptor] = f /\ pc'[Acceptor] = "insert"
      /\ \A g \in Fd : g # f => sock'[g] = sock[g]
      /\ \A p \in Obj : p # o => life'[p] = life[p] /\ fd'[p] = fd[p] /\ epfd'[p] = epfd[p]
      /\ \A u \in Thread : u # Acceptor => /\ pc'[u] = pc[u] /\ cur'[u] = cur[u]
                                           /\ held'[u] = held[u] /\ client_id'[u] = client_id[u]
  BY <1>1, <1>2, ConstantFacts DEF TableInv, TypeOK
\* Nothing refers to the object before it is made.
<1>4. /\ \A u \in Thread : cur[u] # o /\ o \notin held[u]
      /\ \A g \in Fd : sock[g] # o /\ map_index[g] # o
      /\ o \notin watched
      /\ \A u \in Workers : o \notin events[u]
  <2>1. o # None
    BY ConstantFacts
  <2>2. \A g \in Fd : sock[g] # o /\ map_index[g] # o
    BY <1>2, <2>1 DEF TableInv, Open
  <2>3. o \notin watched
    BY <2>2 DEF TableInv, TypeOK, Reachable
  <2> QED BY <1>2, <2>1, <2>2, <2>3 DEF TableInv, Lives
<1>5. Cardinality(Born)' = Cardinality(Born) + 1 /\ Cardinality(Born) \in Nat
  <2>1. Born' = Born \cup {o} /\ o \notin Born
    BY <1>2, <1>3 DEF Born
  <2>2. IsFiniteSet(Born)
    BY ConnTableAssumption, FS_Subset DEF Born
  <2> QED BY <2>1, <2>2, FS_AddElement, FS_CardinalityType
<1>6. TypeOK'
  <2>1. pc' \in [Thread -> {"idle", "insert", "add", "release", "lookup", "found",
                        "message", "write", "kick", "fromMap", "erase", "close", "detach",
                        "offline", "reset", "un_link", "closing", "web_close", "forget"}]
    BY <1>2, ConstantFacts DEF TableInv, TypeOK
  <2>2. \A u \in Thread : pc'[u] = "erase" => client_id'[u] \in Fd
    BY <1>3 DEF TableInv, TypeOK
  <2>3. /\ sock' \in [Fd -> Obj \cup {None}] /\ life' \in [Obj -> {"new", "live", "freed"}]
        /\ fd' \in [Obj -> Fd \cup {Closed}] /\ epfd' \in [Obj -> Workers \cup {None}]
        /\ isOnLine' \subseteq Obj
    BY <1>1, <1>2 DEF TableInv, TypeOK
  <2>4. /\ held' \in [Thread -> SUBSET Obj] /\ cur' \in [Thread -> Obj \cup {None}]
        /\ client_id' \in [Thread -> Fd \cup {Closed}]
    BY <1>1, <1>2, ConstantFacts DEF TableInv, TypeOK
  <2> QED BY <2>1, <2>2, <2>3, <2>4, <1>2 DEF TableInv, TypeOK
<1>7. Roles'
  BY <1>3, ConstantFacts, ConnTableAssumption DEF TableInv, Roles
<1>8. Lives'
  BY <1>2, <1>3, <1>4, ConstantFacts DEF TableInv, TypeOK, Lives
<1>9. Open'
  BY <1>1, <1>2, <1>3, <1>4, ConstantFacts DEF TableInv, TypeOK, Open
<1>10. Owned'
  <2>1. ASSUME NEW p \in Obj, NEW g, Owns(p, g)
        PROVE  Owns(p, g)'
    <3>1. g # f
      BY <2>1, <1>1, <1>5, ConstantFacts DEF Owns
    <3> QED BY <2>1, <3>1, <1>2, <1>3, <1>5, ConstantFacts DEF Owns
  <2>2. Owns(o, f)'
    BY <1>1, <1>2, <1>3, <1>5, ConnTableAssumption, ConstantFacts DEF Owns, TableInv, TypeOK, Born
  <2>3. ASSUME NEW p \in Obj, fd'[p] # Closed
        PROVE  \/ Owns(p, fd[p])'
               \/ Reuse /\ \E u \in Deleters : cur'[u] = p /\ pc'[u] = "forget"
    <3>1. CASE p = o
      BY <3>1, <2>2, <1>3 DEF Owns
    <3>2. CASE p # o
      <4>1. fd'[p] = fd[p]
        BY <3>2, <1>3
      <4>2. CASE Owns(p, fd[p])
        BY <4>1, <4>2, <2>1, <3>2, <1>2, <1>3, <1>1, <1>5, ConstantFacts DEF Owns
      <4>3. ASSUME NEW u \in Deleters, cur[u] = p, pc[u] = "forget"
            PROVE  cur'[u] = p /\ pc'[u] = "forget"
        BY <4>3, <1>3, ConstantFacts
      <4> QED BY <2>3, <4>1, <4>2, <4>3 DEF TableInv, Owned
    <3> QED BY <3>1, <3>2
  <2>4. ASSUME NEW u \in Thread, pc'[u] \in {"erase", "detach", "web_close", "insert", "add"}
        PROVE  Owns(cur[u], client_id[u])' /\ fd'[cur'[u]] \in {client_id'[u], Closed}
    <3>1. CASE u = Acceptor
      BY <3>1, <2>2, <1>3 DEF Owns
    <3>2. CASE u # Acceptor
      <4>1. PICK p, g : p = cur[u] /\ g = client_id[u]
        OBVIOUS
      <4>2. Owns(p, g) /\ fd[p] \in {g, Closed} /\ p \in Obj /\ p # o
        BY <4>1, <2>4, <3>2, <1>3, <1>4 DEF TableInv, Owned, Roles
      <4>3. Owns(p, g)' /\ cur'[u] = p /\ client_id'[u] = g /\ fd'[p] = fd[p]
        BY <4>1, <4>2, <2>1, <3>2, <1>3
      <4> QED BY <4>1, <4>2, <4>3 DEF Owns
    <3> QED BY <3>1, <3>2
  <2> QED BY <2>3, <2>4 DEF Owned
<1>11. Progress'
  BY <1>2, <1>3, <1>4, ConstantFacts DEF TableInv, Progress, Unmapped, Roles, Erased, DeletePc
<1>12. Reachable'
  <2>1. Found(o)' /\ Watched(o)'
    BY <1>3 DEF Found, Watched
  <2>2. ASSUME NEW g \in Fd, sock'[g] # None, g # f
        PROVE  Found(sock[g])' /\ Watched(sock[g])'
    <3>1. /\ sock'[g] = sock[g] /\ sock[g] \in Obj /\ sock[g] # o /\ fd'[sock[g]] = fd[sock[g]]
          /\ Found(sock[g]) /\ Watched(sock[g])
      BY <2>2, <1>3, <1>4 DEF TableInv, TypeOK, Reachable
    <3>2. \A u \in Deleters : pc'[u] = pc[u] /\ cur'[u] = cur[u]
      BY <1>3, ConstantFacts
    <3> QED BY <3>1, <3>2, <1>2 DEF Found, Watched
  <2>3. \A p \in watched' : fd'[p] # Closed /\ sock'[fd'[p]] = p
    BY <1>1, <1>2, <1>3, <1>4, ConstantFacts DEF TableInv, TypeOK, Reachable
  <2> QED BY <2>1, <2>2, <2>3, <1>3 DEF Reachable
<1>13. Fresh'
  <2>1. \A u \in Thread \ {Acceptor} : cur'[u] # o
    BY <1>3, <1>4
  <2>2. \A u \in Workers : o \notin events'[u] /\ cur'[u] # o
    BY <2>1, <1>2, <1>4, ConstantFacts, ConnTableAssumption
  <2>3. o \notin watched' /\ Unmapped(o)'
    BY <1>2, <1>4 DEF Unmapped
  <2> QED BY <2>1, <2>2, <2>3, <1>3 DEF Fresh, Unmapped
<1>14. OwnEvents'
  <2> SUFFICES ASSUME NEW u \in Workers
               PROVE  /\ pc'[u] # "idle" => epfd'[cur'[u]] = u /\ cur'[u] \notin events'[u]
                      /\ \A p \in events'[u] : epfd'[p] = u
    BY DEF OwnEvents
  <2>1. u \in Thread /\ u # Acceptor /\ pc'[u] = pc[u] /\ cur'[u] = cur[u]
        /\ events'[u] = events[u]
    BY <1>2, <1>3, ConstantFacts, ConnTableAssumption
  <2>2. \A p \in events[u] : p \in Obj /\ p # o
    BY <1>4 DEF TableInv, TypeOK
  <2>3. pc[u] # "idle" => cur[u] \in Obj /\ cur[u] # o
    BY <2>1, <1>4 DEF TableInv, Roles, DeletePc
  <2> QED BY <2>1, <2>2, <2>3, <1>3 DEF TableInv, OwnEvents
<1> QED BY <1>6, <1>7, <1>8, <1>9, <1>10, <1>11, <1>12, <1>13, <1>14 DEF TableInv

LEMMA InsertKeeps ==
  ASSUME TableInv, insert
  PROVE  TableInv'
<1> PICK f, o : f = client_id[Acceptor] /\ o = cur[Acceptor]
  OBVIOUS
<1>1. /\ pc[Acceptor] = "insert" /\ o \in Obj /\ f \in Fd /\ fd[o] = f /\ sock[f] = o
      /\ life[o] = "live" /\ Unmapped(o) /\ map_index[f] = None
      /\ \A u \in Thread \ {Acceptor} : cur[u] # o
  <2>1. pc[Acceptor] = "insert" /\ o \in Obj /\ Owns(o, f) /\ o \in held[Acceptor]
    BY ConstantFacts DEF insert, TableInv, Roles, Owned, Lives
  <2> QED BY <2>1, ConstantFacts DEF TableInv, Fresh, Unmapped, Owns, Lives
<1>2. /\ map_index' = [map_index EXCEPT ![f] = o]
      /\ pc' = [pc EXCEPT ![Acceptor] = "add"]
      /\ UNCHANGED <<fd, life, sock, watched, held, others, events, cur, client_id>>
  BY <1>1 DEF insert, Go
<1>3. /\ map_index'[f] = o /\ \A g \in Fd : g # f => map_index'[g] = map_index[g]
      /\ pc'[Acceptor] = "add" /\ \A u \in Thread : u # Acceptor => pc'[u] = pc[u]
  BY <1>1, <1>2, ConstantFacts DEF TableInv, TypeOK
<1>4. Born' = Born
  BY <1>2 DEF Born
<1>5. \A u \in Deleters : u \in Thread /\ u # Acceptor
  BY ConstantFacts
<1>6. TypeOK'
  <2>1. pc' \in [Thread -> {"idle", "insert", "add", "release", "lookup", "found",
                        "message", "write", "kick", "fromMap", "erase", "close", "detach",
                        "offline", "reset", "un_link", "closing", "web_close", "forget"}]
    BY <1>2, ConstantFacts DEF TableInv, TypeOK
  <2>2. \A u \in Thread : pc'[u] = "erase" => client_id'[u] \in Fd
    BY <1>2, <1>3 DEF TableInv, TypeOK
  <2>3. map_index' \in [Fd -> Obj \cup {None}]
    BY <1>1, <1>2 DEF TableInv, TypeOK
  <2> QED BY <2>1, <2>2, <2>3, <1>2 DEF others, TableInv, TypeOK
<1>7. Roles'
  BY <1>1, <1>2, <1>3, ConstantFacts, ConnTableAssumption DEF TableInv, Roles
<1>8. Lives'
  BY <1>1, <1>2, <1>3, <1>5, ConstantFacts DEF TableInv, Lives
<1>9. Open'
  <2>1. \A g \in Fd : map_index'[g] # None =>
          /\ fd[map_index'[g]] = g /\ life[map_index'[g]] = "live"
          /\ ~EpollFails => sock[g] = map_index'[g]
    <3> SUFFICES ASSUME NEW g \in Fd, map_index'[g] # None
                 PROVE  /\ fd[map_index'[g]] = g /\ life[map_index'[g]] = "live"
                        /\ ~EpollFails => sock[g] = map_index'[g]
      OBVIOUS
    <3>1. CASE g = f
      BY <3>1, <1>1, <1>3
    <3>2. CASE g # f
      BY <3>2, <1>3 DEF TableInv, Open
    <3> QED BY <3>1, <3>2
  <2> QED BY <2>1, <1>2 DEF TableInv, Open
<1>10. Owned'
  <2>1. ASSUME NEW p \in Obj, NEW g, Owns(p, g)
        PROVE  Owns(p, g)'
    <3>1. g = f => p = o
      BY <2>1, <1>1, ConstantFacts DEF Owns
    <3> QED BY <2>1, <3>1, <1>2, <1>3, <1>4 DEF Owns
  <2>2. ASSUME NEW p \in Obj, fd[p] # Closed
        PROVE  \/ Owns(p, fd[p])'
               \/ Reuse /\ \E u \in Deleters : cur'[u] = p /\ pc'[u] = "forget"
    <3>1. PICK g : g = fd[p]
      OBVIOUS
    <3>2. fd'[p] = g
      BY <3>1, <1>2
    <3>3. CASE Owns(p, fd[p])
      <4>1. Owns(p, g)'
        BY <3>1, <3>3, <2>1
      <4> QED BY <4>1, <3>2 DEF Owns
    <3>4. ASSUME NEW u \in Deleters, cur[u] = p, pc[u] = "forget"
          PROVE  cur'[u] = p /\ pc'[u] = "forget"
      BY <3>4, <1>2, <1>3, <1>5
    <3> QED BY <2>2, <3>3, <3>4 DEF TableInv, Owned
  <2>3. ASSUME NEW u \in Thread, pc'[u] \in {"erase", "detach", "web_close", "insert", "add"}
        PROVE  Owns(cur[u], client_id[u])' /\ fd[cur[u]] \in {client_id[u], Closed}
    <3>1. PICK p, g : p = cur[u] /\ g = client_id[u]
      OBVIOUS
    <3>2. Owns(p, g) /\ fd[p] \in {g, Closed} /\ p \in Obj
      BY <2>3, <3>1, <1>1, <1>3 DEF TableInv, Owned, Roles
    <3>3. Owns(p, g)' /\ cur'[u] = p /\ client_id'[u] = g
      BY <3>1, <3>2, <2>1, <1>2
    <3> QED BY <3>1, <3>2, <3>3 DEF Owns
  <2> QED BY <2>2, <2>3, <1>2 DEF Owned
<1>11. Progress'
  <2> SUFFICES ASSUME NEW u \in Deleters, pc'[u] \in Erased \cup {"forget", "release"}
               PROVE  /\ Unmapped(cur[u])'
                      /\ pc'[u] \in {"forget", "release"} => \A g \in Fd : sock'[g] # cur'[u]
                      /\ pc'[u] = "release" => fd'[cur'[u]] = Closed
    BY DEF Progress
  <2>1. pc'[u] = pc[u] /\ cur'[u] = cur[u] /\ cur[u] # o
    BY <1>1, <1>2, <1>3, <1>5
  <2> QED BY <2>1, <1>2, <1>3 DEF TableInv, Progress, Unmapped
<1>12. Reachable'
  <2>1. ASSUME NEW g \in Fd, sock[g] # None
        PROVE  Found(sock[g])' /\ Watched(sock[g])'
    <3>1. sock[g] \in Obj /\ fd[sock[g]] = g /\ Found(sock[g]) /\ Watched(sock[g])
      BY <2>1 DEF TableInv, TypeOK, Open, Reachable
    <3>2. \A u \in Deleters : pc'[u] = pc[u]
      BY <1>3, <1>5
    <3>3. map_index[g] = sock[g] \/ (pc[Acceptor] = "insert" /\ cur[Acceptor] = sock[g])
            => map_index'[g] = sock[g]
      BY <3>1, <1>1, <1>3, <2>1
    <3>4. Found(sock[g])'
      BY <3>1, <3>2, <3>3, <1>2 DEF Found
    <3>5. Watched(sock[g])'
      BY <3>1, <3>2, <1>1, <1>2, <1>3 DEF Watched
    <3> QED BY <3>4, <3>5
  <2> QED BY <2>1, <1>2 DEF TableInv, Reachable
<1>13. Fresh'
  BY <1>1, <1>2, <1>3, ConstantFacts DEF TableInv, Fresh
<1>14. OwnEvents'
  BY <1>2, <1>3, ConstantFacts, ConnTableAssumption DEF others, TableInv, OwnEvents
<1> QED BY <1>6, <1>7, <1>8, <1>9, <1>10, <1>11, <1>12, <1>13, <1>14 DEF TableInv

LEMMA EpollAddKeeps ==
  ASSUME TableInv, Careful, epoll_add
  PROVE  TableInv'
<1> PICK f, o : f = client_id[Acceptor] /\ o = cur[Acceptor]
  OBVIOUS
<1>1. /\ pc[Acceptor] = "add" /\ o \in Obj /\ f \in Fd /\ Owns(o, f)
      /\ fd[o] \in {f, Closed} /\ o \notin watched
  BY ConstantFacts DEF epoll_add, TableInv, Roles, Owned, Owns, Fresh
<1>2. /\ pc' = [pc EXCEPT ![Acceptor] = "release"]
      /\ UNCHANGED <<map_index, fd, life, held, others, events, cur, client_id>>
  BY DEF epoll_add, Go
<1>3. pc'[Acceptor] = "release" /\ \A u \in Thread : u # Acceptor => pc'[u] = pc[u]
  BY <1>2, ConstantFacts DEF TableInv, TypeOK
<1>4. \/ sock[f] = o /\ watched' = watched \cup {o} /\ sock' = sock
      \/ /\ EpollFails \/ sock[f] = None
         /\ sock' = [g \in Fd |-> IF g = f THEN None ELSE sock[g]]
         /\ watched' = watched
  <2>1. \/ sock[f] = o /\ watched' = watched \cup {o} /\ sock' = sock
        \/ (EpollFails \/ sock[f] = None) /\ CloseFds({f})
    BY DEF epoll_add
  <2>2. CloseFds({f}) => /\ sock' = [g \in Fd |-> IF g = f THEN None ELSE sock[g]]
                         /\ watched' = watched \ {sock[f]}
    BY DEF CloseFds
  <2>3. sock[f] \notin watched
    BY <1>1, ConstantFacts DEF Owns, TableInv, TypeOK
  <2> QED BY <2>1, <2>2, <2>3
<1>5. Born' = Born
  BY <1>2 DEF Born
<1>6. \A u \in Deleters : u \in Thread /\ pc'[u] = pc[u]
  BY <1>3, ConstantFacts
<1>7. \A g \in Fd : sock'[g] \in {sock[g], None} /\ (sock'[g] # sock[g] => g = f /\ EpollFails)
  BY <1>4

<1>8. TypeOK'
  <2>1. pc' \in [Thread -> {"idle", "insert", "add", "release", "lookup", "found",
                        "message", "write", "kick", "fromMap", "erase", "close", "detach",
                        "offline", "reset", "un_link", "closing", "web_close", "forget"}]
    BY <1>2, ConstantFacts DEF TableInv, TypeOK
  <2>2. \A u \in Thread : pc'[u] = "erase" => client_id'[u] \in Fd
    BY <1>2, <1>3 DEF TableInv, TypeOK
  <2>3. sock' \in [Fd -> Obj \cup {None}] /\ watched' \subseteq Obj
    BY <1>1, <1>4 DEF TableInv, TypeOK
  <2> QED BY <2>1, <2>2, <2>3, <1>2 DEF others, TableInv, TypeOK
<1>9. Roles'
  BY <1>1, <1>2, <1>3, ConstantFacts, ConnTableAssumption DEF TableInv, Roles
<1>10. Lives'
  BY <1>1, <1>2, <1>3, <1>6, ConstantFacts DEF TableInv, Lives
<1>11. Open'
  BY <1>2, <1>7 DEF TableInv, Open
<1>12. Owned'
  <2>1. ASSUME NEW p \in Obj, NEW g, Owns(p, g)
        PROVE  Owns(p, g)'
    BY <2>1, <1>2, <1>5, <1>7 DEF Owns, Careful
  <2>2. ASSUME NEW p \in Obj, fd[p] # Closed
        PROVE  \/ Owns(p, fd[p])'
               \/ Reuse /\ \E u \in Deleters : cur'[u] = p /\ pc'[u] = "forget"
    <3>1. PICK g : g = fd[p]
      OBVIOUS
    <3>2. CASE Owns(p, fd[p])
      <4>1. Owns(p, g)' /\ fd'[p] = g
        BY <3>1, <3>2, <2>1, <1>2
      <4> QED BY <4>1 DEF Owns
    <3> QED BY <2>2, <3>2, <1>2, <1>6 DEF TableInv, Owned
  <2>3. ASSUME NEW u \in Thread, pc'[u] \in {"erase", "detach", "web_close", "insert", "add"}
        PROVE  Owns(cur[u], client_id[u])' /\ fd[cur[u]] \in {client_id[u], Closed}
    <3>1. PICK p, g : p = cur[u] /\ g = client_id[u]
      OBVIOUS
    <3>2. Owns(p, g) /\ fd[p] \in {g, Closed} /\ p \in Obj
      BY <2>3, <3>1, <1>3 DEF TableInv, Owned, Roles
    <3>3. Owns(p, g)' /\ cur'[u] = p /\ client_id'[u] = g
      BY <3>1, <3>2, <2>1, <1>2
    <3> QED BY <3>1, <3>2, <3>3 DEF Owns
  <2> QED BY <2>2, <2>3, <1>2 DEF Owned
<1>13. Progress'
  <2> SUFFICES ASSUME NEW u \in Deleters, pc'[u] \in Erased \cup {"forget", "release"}
               PROVE  /\ Unmapped(cur[u])'
                      /\ pc'[u] \in {"forget", "release"} => \A g \in Fd : sock'[g] # cur'[u]
                      /\ pc'[u] = "release" => fd'[cur'[u]] = Closed
    BY DEF Progress
  <2>1. pc'[u] = pc[u] /\ cur'[u] = cur[u] /\ cur[u] \in Obj
    BY <1>2, <1>6 DEF TableInv, Roles, Erased
  <2> QED BY <2>1, <1>2, <1>7, ConstantFacts DEF TableInv, Progress, Unmapped
<1>14. Reachable'
  <2>1. ASSUME NEW g \in Fd, sock'[g] # None
        PROVE  Found(sock[g])' /\ Watched(sock[g])'
    <3>1. /\ sock'[g] = sock[g] /\ sock[g] \in Obj /\ fd[sock[g]] = g
          /\ Found(sock[g]) /\ Watched(sock[g])
      BY <2>1, <1>7 DEF TableInv, TypeOK, Open, Reachable
    <3>2. sock[g] = o => o \in watched'
      BY <2>1, <3>1, <1>1, <1>4, ConstantFacts
    <3>3. Found(sock[g])'
      BY <3>1, <1>1, <1>2, <1>6 DEF Found
    <3>4. Watched(sock[g])'
      BY <3>1, <3>2, <1>2, <1>4, <1>6 DEF Watched
    <3> QED BY <3>3, <3>4
  <2>2. ASSUME NEW p \in watched'
        PROVE  fd'[p] # Closed /\ sock'[fd'[p]] = p
    <3>1. CASE p \in watched
      <4>1. p # o /\ fd[p] \in Fd /\ fd[p] # Closed /\ sock[fd[p]] = p
        BY <3>1, <1>1 DEF TableInv, TypeOK, Reachable
      <4>2. fd[p] = f => p = o
        BY <4>1, <1>1, <3>1, ConstantFacts DEF Owns, TableInv, TypeOK
      <4> QED BY <4>1, <4>2, <1>2, <1>7
    <3>2. CASE p \notin watched
      <4>1. p = o /\ sock[f] = o /\ sock' = sock
        BY <3>2, <1>4
      <4> QED BY <4>1, <1>1, <1>2, ConstantFacts DEF TableInv, Open
    <3> QED BY <3>1, <3>2
  <2> QED BY <2>1, <2>2 DEF Reachable
<1>15. Fresh'
  BY <1>3 DEF Fresh
<1>16. OwnEvents'
  BY <1>2, <1>3, ConstantFacts, ConnTableAssumption DEF others, TableInv, OwnEvents
<1> QED BY <1>8, <1>9, <1>10, <1>11, <1>12, <1>13, <1>14, <1>15, <1>16 DEF TableInv

LEMMA AcceptedKeeps ==
  ASSUME TableInv, accepted
  PROVE  TableInv'
<1>1. MayReturn(Acceptor)
  BY ConstantFacts DEF accepted, MayReturn
<1> QED BY <1>1, ConstantFacts, ReturnKeeps DEF accepted

-----------------------------------------------------------------------------
\* A reading thread between two requests

LEMMA WaitKeeps ==
  ASSUME TableInv, NEW w \in Workers, epoll_wait(w)
  PROVE  TableInv'
<1>1. PICK E \in SUBSET {o \in watched : epfd[o] = w} :
        events' = [events EXCEPT ![w] = E]
  BY DEF epoll_wait
<1>2. pc[w] = "idle" /\ UNCHANGED <<memory, others, pc, cur, client_id>>
  BY DEF epoll_wait
<1>3. ASSUME NEW o \in E
      PROVE  /\ o \in Obj /\ life[o] # "new" /\ epfd[o] = w
             /\ pc[Acceptor] \in {"insert", "add"} => o # cur[Acceptor]
  <2>1. o \in watched /\ epfd[o] = w /\ o \in Obj
    BY DEF TableInv, TypeOK
  <2>2. PICK f \in Fd : sock[f] = o
    BY <2>1 DEF TableInv, TypeOK, Reachable
  <2>3. life[o] = "live"
    BY <2>1, <2>2, ConstantFacts DEF TableInv, Open
  <2> QED BY <2>1, <2>3 DEF TableInv, Fresh
<1>4. events'[w] = E /\ \A u \in Workers : u # w => events'[u] = events[u]
  BY <1>1 DEF TableInv, TypeOK
<1>5. TypeOK'
  BY <1>1, <1>2, <1>3 DEF memory, others, TableInv, TypeOK
<1>6. Roles' /\ Open' /\ Owned' /\ Progress' /\ Reachable'
  BY <1>2 DEF memory, TableInv, Roles, Open, Owned, Owns, Born, Progress, Unmapped, Reachable,
              Found, Watched
<1>7. Lives'
  BY <1>2, <1>3, <1>4 DEF memory, TableInv, Lives
<1>8. Fresh'
  BY <1>2, <1>3, <1>4 DEF memory, TableInv, Fresh, Unmapped
<1>9. OwnEvents'
  BY <1>2, <1>3, <1>4 DEF others, TableInv, OwnEvents
<1> QED BY <1>5, <1>6, <1>7, <1>8, <1>9 DEF TableInv

LEMMA HandleKeeps ==
  ASSUME TableInv, NEW w \in Workers, NEW o \in Obj, handle_message(w, o)
  PROVE  TableInv'
<1>1. /\ events' = [events EXCEPT ![w] = @ \ {o}]
      /\ conection_ids' \in {conection_ids, [conection_ids EXCEPT ![o] = fd[o]]}
      /\ UNCHANGED <<memory, isOnLine, epfd, aim, pc, cur, client_id>>
  BY DEF handle_message
<1>2. \A u \in Workers : events'[u] \subseteq events[u]
  BY <1>1 DEF TableInv, TypeOK
<1>3. TypeOK'
  BY <1>1 DEF memory, TableInv, TypeOK
<1>4. Roles' /\ Open' /\ Owned' /\ Progress' /\ Reachable'
  BY <1>1, SMTT(30) DEF memory, TableInv, Roles, Open, Owned, Owns, Born, Progress, Unmapped, Reachable,
              Found, Watched
<1>5. Lives'
  BY <1>1, <1>2 DEF memory, TableInv, Lives
<1>6. Fresh'
  BY <1>1, <1>2 DEF memory, TableInv, Fresh, Unmapped
<1>7. OwnEvents'
  BY <1>1, <1>2 DEF TableInv, OwnEvents
<1> QED BY <1>3, <1>4, <1>5, <1>6, <1>7 DEF TableInv

-----------------------------------------------------------------------------
\* The invariant, and what it is for

LEMMA InitTableInv == Init => TableInv
<1> SUFFICES ASSUME Init PROVE TableInv
  OBVIOUS
<1>1. TypeOK
  BY DEF Init, TypeOK
<1>2. Roles /\ Lives /\ Open /\ Owned
  BY ConstantFacts DEF Init, Roles, Lives, Open, Owned, Thread, Deleters, DeletePc
<1>3. Progress /\ Reachable /\ Fresh /\ OwnEvents
  BY ConstantFacts DEF Init, Progress, Reachable, Fresh, OwnEvents, Erased
<1> QED BY <1>1, <1>2, <1>3 DEF TableInv

LEMMA StepTableInv ==
  ASSUME TableInv, Careful, [Next]_vars
  PROVE  TableInv'
<1>1. ASSUME NEW o \in Obj, NEW w \in Workers,
             accept(o, w) \/ handle_message(w, o) \/ hangup(w, o)
      PROVE  TableInv'
  BY <1>1, AcceptKeeps, HandleKeeps, HangupKeeps
<1>2. CASE insert \/ epoll_add \/ accepted
  BY <1>2, InsertKeeps, EpollAddKeeps, AcceptedKeeps
<1>3. ASSUME NEW w \in Workers, epoll_wait(w) PROVE TableInv'
  BY <1>3, WaitKeeps
<1>4. ASSUME NEW t \in Deleters, deleteClient(t) PROVE TableInv'
  BY <1>4, DeleteClientKeeps
<1>5. ASSUME NEW t \in Senders \cup Kickers,
             find(t) \/ \E o \in Obj : read_slot(t, o)
      PROVE  TableInv'
  BY <1>5, FindKeeps, ReadSlotKeeps
<1>6. ASSUME NEW s \in Senders, message(s) PROVE TableInv'
  BY <1>6, MessageKeeps
<1>7. ASSUME NEW k \in Kickers, kick(k) PROVE TableInv'
  BY <1>7, KickKeeps
<1>8. CASE UNCHANGED vars
  <2>1. TypeOK' /\ Roles' /\ Lives' /\ Open'
    BY <1>8 DEF vars, TableInv, TypeOK, Roles, Lives, Open
  <2>2. Owned'
    BY <1>8 DEF vars, TableInv, Owned, Owns, Born
  <2>3. Progress' /\ Reachable' /\ Fresh' /\ OwnEvents'
    BY <1>8 DEF vars, TableInv, Progress, Unmapped, Reachable, Found, Watched, Fresh, OwnEvents
  <2> QED BY <2>1, <2>2, <2>3 DEF TableInv
<1> QED BY <1>1, <1>2, <1>3, <1>4, <1>5, <1>6, <1>7, <1>8 DEF Next

-----------------------------------------------------------------------------
\* The table of a user

\* Steps that change neither that table nor what the kernel has open.
LEMMA RegisterSame ==
  ASSUME TableInv, Registered,
         sock' = sock, watched' = watched, isOnLine' = isOnLine,
         conection_ids' = conection_ids,
         \A o \in Obj : (\E f \in Fd : sock[f] = o) => fd'[o] = fd[o],
         \A w \in Workers :
           /\ events'[w] \subseteq events[w]
           /\ pc[w] = "un_link" => pc'[w] = "un_link" /\ cur'[w] = cur[w]
           /\ pc'[w] \in Unlinked => pc[w] \in Unlinked /\ cur'[w] = cur[w]
           /\ pc'[w] \in Detached => pc[w] \in Detached /\ cur'[w] = cur[w],
         pc'[Acceptor] \in {"insert", "add"} =>
           pc[Acceptor] \in {"insert", "add"} /\ cur'[Acceptor] = cur[Acceptor]
  PROVE  Registered'
<1>1. RegisteredTruly'
  <2> SUFFICES ASSUME NEW o \in Obj, conection_ids[o] # Closed
               PROVE  /\ conection_ids[o] = fd'[o] /\ sock[fd'[o]] = o
                      /\ o \in isOnLine \/ \E w \in Workers : cur'[w] = o /\ pc'[w] = "un_link"
    BY DEF RegisteredTruly
  <2>1. /\ conection_ids[o] = fd[o] /\ sock[fd[o]] = o /\ fd[o] \in Fd
        /\ o \in isOnLine \/ \E w \in Workers : cur[w] = o /\ pc[w] = "un_link"
    BY DEF Registered, RegisteredTruly, TableInv, TypeOK
  <2>2. fd'[o] = fd[o]
    BY <2>1
  <2> QED BY <2>1, <2>2
<1>2. Unlinking'
  BY DEF Registered, Unlinking
<1>3. Online'
  BY DEF Registered, Online
<1> QED BY <1>1, <1>2, <1>3 DEF Registered

LEMMA ReturnRegistered ==
  ASSUME TableInv, Registered, NEW t \in Thread, MayReturn(t), pc[t] # "un_link", Return(t)
  PROVE  Registered'
<1>1. Quiet(map_index, [held EXCEPT ![t] = {}])
  BY ReturnQuiet
<1>2. /\ pc' = [pc EXCEPT ![t] = "idle"] /\ cur' = [cur EXCEPT ![t] = None]
      /\ UNCHANGED <<isOnLine, conection_ids, events>>
  BY DEF Return
<1>3. sock' = sock /\ watched' = watched
  BY <1>1 DEF Quiet
<1>4. \A o \in Obj : (\E f \in Fd : sock[f] = o) => fd'[o] = fd[o]
  BY <1>1 DEF Quiet
<1>5. /\ pc'[t] = "idle"
      /\ \A u \in Thread : u # t => pc'[u] = pc[u] /\ cur'[u] = cur[u]
  BY <1>2 DEF TableInv, TypeOK
<1> QED BY <1>2, <1>3, <1>4, <1>5, ConstantFacts, RegisterSame DEF Unlinked, Detached

LEMMA AcceptRegistered ==
  ASSUME TableInv, TableInv', Registered, NEW o \in Obj, NEW w \in Workers, accept(o, w)
  PROVE  Registered'
<1> PICK f : f = Min(Unused)
  OBVIOUS
<1>1. /\ life[o] = "new"
      /\ sock' = [sock EXCEPT ![f] = o] /\ fd' = [fd EXCEPT ![o] = f]
      /\ isOnLine' = isOnLine \cup {o} /\ cur' = [cur EXCEPT ![Acceptor] = o]
      /\ pc' = [pc EXCEPT ![Acceptor] = "insert"]
      /\ UNCHANGED <<map_index, conection_ids, watched, events, aim>>
  BY DEF accept, Go
<1>2. cur'[Acceptor] = o /\ \A u \in Workers : pc'[u] = pc[u] /\ cur'[u] = cur[u]
  BY <1>1, ConstantFacts, ConnTableAssumption DEF TableInv, TypeOK
<1>3. conection_ids[o] = Closed
  <2>1. ASSUME conection_ids[o] # Closed PROVE FALSE
    <3>1. fd[o] \in Fd /\ sock[fd[o]] = o
      BY <2>1 DEF Registered, RegisteredTruly, TableInv, TypeOK
    <3>2. PICK g \in Fd : sock[g] = o
      BY <3>1
    <3> QED BY <3>2, <1>1, ConstantFacts DEF TableInv, Open
  <2> QED BY <2>1
<1>4. f \in Fd /\ sock[f] = None
  <2>1. Unused \subseteq Fd /\ Unused # {} /\ Unused \in SUBSET Nat
    BY ConstantFacts DEF Unused, accept
  <2>2. f \in Unused
    BY <2>1, Smallest
  <2> QED BY <2>2 DEF Unused
<1>5. RegisteredTruly'
  <2> SUFFICES ASSUME NEW p \in Obj, conection_ids[p] # Closed
               PROVE  /\ conection_ids[p] = fd'[p] /\ sock'[fd'[p]] = p
                      /\ p \in isOnLine' \/ \E u \in Workers : cur'[u] = p /\ pc'[u] = "un_link"
    BY <1>1 DEF RegisteredTruly
  <2>1. /\ conection_ids[p] = fd[p] /\ sock[fd[p]] = p /\ p # o
        /\ p \in isOnLine \/ \E u \in Workers : cur[u] = p /\ pc[u] = "un_link"
    BY <1>3 DEF Registered, RegisteredTruly
  <2>2. fd'[p] = fd[p] /\ fd[p] \in Fd /\ fd[p] # f
    BY <2>1, <1>1, <1>4, ConstantFacts DEF TableInv, TypeOK
  <2>3. sock'[fd[p]] = sock[fd[p]]
    BY <2>2, <1>1, <1>4 DEF TableInv, TypeOK
  <2> QED BY <2>1, <2>2, <2>3, <1>1, <1>2
<1>6. Unlinking'
  BY <1>1, <1>2 DEF Registered, Unlinking
<1>7. Online'
  BY <1>1, <1>2, <1>3 DEF Registered, Online
<1> QED BY <1>5, <1>6, <1>7 DEF Registered

LEMMA EpollAddRegistered ==
  ASSUME TableInv, Registered, epoll_add
  PROVE  Registered'
<1> PICK f, o : f = client_id[Acceptor] /\ o = cur[Acceptor]
  OBVIOUS
<1>1. /\ pc[Acceptor] = "add" /\ o \in Obj /\ f \in Fd /\ Owns(o, f)
      /\ o \notin watched /\ o \in isOnLine /\ conection_ids[o] = Closed
      /\ \A w \in Workers : o # cur[w]
  BY ConstantFacts DEF epoll_add, TableInv, Roles, Owned, Owns, Fresh, Registered, Online
<1>2. /\ pc' = [pc EXCEPT ![Acceptor] = "release"]
      /\ UNCHANGED <<map_index, fd, life, held, others, events, cur, client_id>>
  BY DEF epoll_add, Go
<1>3. pc'[Acceptor] = "release" /\ \A u \in Workers : pc'[u] = pc[u]
  BY <1>2, ConstantFacts, ConnTableAssumption DEF TableInv, TypeOK
<1>4. /\ watched' \in {watched, watched \cup {o}}
      /\ \A g \in Fd : sock[g] \notin {o, None} => sock'[g] = sock[g]
  <2>1. \/ sock[f] = o /\ watched' = watched \cup {o} /\ sock' = sock
        \/ CloseFds({f})
    BY DEF epoll_add
  <2>2. CloseFds({f}) => /\ sock' = [g \in Fd |-> IF g = f THEN None ELSE sock[g]]
                         /\ watched' = watched \ {sock[f]}
    BY DEF CloseFds
  <2>3. sock[f] \notin watched /\ sock[f] \in {o, None}
    BY <1>1, ConstantFacts DEF Owns, TableInv, TypeOK
  <2> QED BY <2>1, <2>2, <2>3
<1>5. RegisteredTruly'
  <2> SUFFICES ASSUME NEW p \in Obj, conection_ids[p] # Closed
               PROVE  /\ conection_ids[p] = fd[p] /\ sock'[fd[p]] = p
                      /\ p \in isOnLine \/ \E u \in Workers : cur[u] = p /\ pc'[u] = "un_link"
    BY <1>2 DEF RegisteredTruly, others
  <2>1. /\ conection_ids[p] = fd[p] /\ sock[fd[p]] = p /\ p # o /\ fd[p] \in Fd /\ p # None
        /\ p \in isOnLine \/ \E u \in Workers : cur[u] = p /\ pc[u] = "un_link"
    BY <1>1, ConstantFacts DEF Registered, RegisteredTruly, TableInv, TypeOK
  <2> QED BY <2>1, <1>3, <1>4
<1>6. Unlinking'
  BY <1>1, <1>2, <1>3, <1>4 DEF Registered, Unlinking, others
<1>7. Online'
  BY <1>1, <1>2, <1>3, <1>4 DEF Registered, Online, others
<1> QED BY <1>5, <1>6, <1>7 DEF Registered

LEMMA HandleRegistered ==
  ASSUME TableInv, Registered, NEW w \in Workers, NEW o \in Obj, handle_message(w, o)
  PROVE  Registered'
<1>1. /\ pc[w] = "idle" /\ o \in events[w] /\ events' = [events EXCEPT ![w] = @ \ {o}]
      /\ conection_ids' \in {conection_ids, [conection_ids EXCEPT ![o] = fd[o]]}
      /\ UNCHANGED <<memory, isOnLine, epfd, aim, pc, cur, client_id>>
  BY DEF handle_message
<1>2. o \in watched /\ o \in isOnLine /\ sock[fd[o]] = o
      /\ (pc[Acceptor] \in {"insert", "add"} => o # cur[Acceptor])
  BY <1>1 DEF Registered, Online, TableInv, Reachable, Fresh
<1>3. \A u \in Workers : pc[u] # "idle" => cur[u] # o
  BY <1>1 DEF TableInv, OwnEvents
<1>4. /\ \A u \in Workers : events'[u] \subseteq events[u]
      /\ conection_ids'[o] \in {conection_ids[o], fd[o]}
      /\ \A p \in Obj : p # o => conection_ids'[p] = conection_ids[p]
  BY <1>1 DEF TableInv, TypeOK
<1>5. RegisteredTruly'
  BY <1>1, <1>2, <1>4 DEF memory, Registered, RegisteredTruly
<1>6. Unlinking'
  <2> SUFFICES ASSUME NEW u \in Workers, pc[u] \in Detached \cup Unlinked
               PROVE  /\ pc[u] \in Unlinked => conection_ids'[cur[u]] = Closed
                      /\ cur[u] \notin watched
    BY <1>1 DEF memory, Unlinking
  <2>1. cur[u] \in Obj /\ cur[u] # o
    BY <1>3, ConstantFacts DEF TableInv, Roles, Detached, Unlinked
  <2> QED BY <2>1, <1>4 DEF Registered, Unlinking
<1>7. Online'
  <2>1. pc[Acceptor] \in {"insert", "add"} =>
          cur[Acceptor] \in isOnLine /\ conection_ids'[cur[Acceptor]] = Closed
    BY <1>2, <1>4, ConstantFacts DEF Registered, Online, TableInv, Roles
  <2> QED BY <2>1, <1>1, <1>4 DEF memory, Registered, Online
<1> QED BY <1>5, <1>6, <1>7 DEF Registered

LEMMA DetachRegistered ==
  ASSUME TableInv, Registered, NEW w \in Workers, epoll_detached(w)
  PROVE  Registered'
<1> PICK f, o : f = client_id[w] /\ o = cur[w]
  OBVIOUS
<1>1. w \in Thread \ {Acceptor} /\ pc[w] = "detach" /\ o \in Obj /\ f \in Fd /\ sock[f] \in {o, None}
      /\ fd[o] \in {f, Closed}
  BY ConnTableAssumption, ConstantFacts
     DEF epoll_detached, TableInv, TypeOK, Roles, Owned, Owns, DeletePc
<1>2. /\ pc' = [pc EXCEPT ![w] = "offline"]
      /\ UNCHANGED <<map_index, fd, life, sock, held, others, events, cur, client_id>>
  BY DEF epoll_detached, Go
<1>3. pc'[w] = "offline" /\ \A u \in Thread : u # w => pc'[u] = pc[u]
  BY <1>1, <1>2 DEF TableInv, TypeOK
<1>4. watched' = watched \ {o}
  <2>1. o \in watched => sock[f] = o
    BY <1>1, ConstantFacts DEF TableInv, Reachable
  <2>2. None \notin watched
    BY ConstantFacts DEF TableInv, TypeOK
  <2> QED BY <2>1, <2>2, <1>1, ConstantFacts DEF epoll_detached
<1>5. RegisteredTruly'
  <2>1. \A u \in Workers : pc[u] = "un_link" => pc'[u] = "un_link"
    BY <1>1, <1>3, ConstantFacts
  <2> QED BY <2>1, <1>2 DEF others, Registered, RegisteredTruly
<1>6. Unlinking'
  BY <1>2, <1>3, <1>4, ConstantFacts DEF others, Registered, Unlinking, Detached, Unlinked
<1>7. Online'
  <2>1. \A u \in Workers : o \notin events[u]
    BY <1>1 DEF TableInv, OwnEvents
  <2>2. pc'[Acceptor] = pc[Acceptor]
    BY <1>1, <1>3, ConstantFacts
  <2> QED BY <2>1, <2>2, <1>2, <1>4 DEF others, Registered, Online
<1> QED BY <1>5, <1>6, <1>7 DEF Registered

\* Between the test of isOnLine and un_link no other thread deals with the
\* connection: that is where it counts that nobody is thrown out.
LEMMA UnlinkRegistered ==
  ASSUME TableInv, Registered, NEW w \in Workers, set_offline(w) \/ reset(w) \/ un_link(w)
  PROVE  Registered'
<1> PICK o : o = cur[w]
  OBVIOUS
<1>1. /\ w \in Thread \ {Acceptor} /\ pc[w] \in {"offline", "reset", "un_link"} /\ o \in Obj
      /\ o \notin watched
      /\ \A u \in Workers : pc[u] # "idle" /\ u # w => cur[u] # o
  <2>1. w \in Thread \ {Acceptor} /\ pc[w] \in {"offline", "reset", "un_link"}
    BY ConnTableAssumption, ConstantFacts DEF set_offline, reset, un_link
  <2>2. o \in Obj
    BY <2>1 DEF TableInv, Roles
  <2>3. o \notin watched
    BY <2>1 DEF Registered, Unlinking, Detached
  <2>4. \A u \in Workers : pc[u] # "idle" /\ u # w => cur[u] # o
    BY <2>1 DEF TableInv, OwnEvents
  <2> QED BY <2>1, <2>2, <2>3, <2>4
<1>2. UNCHANGED <<memory, epfd, aim, events, cur, client_id>>
  BY DEF set_offline, reset, un_link
<1>3. PICK there \in {"reset", "un_link", "closing"} : pc' = [pc EXCEPT ![w] = there]
  BY DEF set_offline, reset, un_link, Go
<1>4. pc'[w] = there /\ \A u \in Thread : u # w => pc'[u] = pc[u]
  BY <1>1, <1>3 DEF TableInv, TypeOK
<1>5. pc'[Acceptor] = pc[Acceptor] /\ \A u \in Workers : u # w => pc'[u] = pc[u]
  BY <1>1, <1>4, ConstantFacts
\* What the three steps leave behind.
<1>6. /\ isOnLine' \subseteq isOnLine /\ isOnLine \ isOnLine' \subseteq {o}
      /\ \A p \in Obj : p # o => conection_ids'[p] = conection_ids[p]
      /\ conection_ids'[o] \in {conection_ids[o], Closed}
      /\ there = "closing" => conection_ids'[o] = Closed
      /\ there = "reset" => o \in isOnLine'
  <2>1. CASE set_offline(w)
    <3>1. /\ UNCHANGED <<isOnLine, conection_ids>>
          /\ there = IF o \in isOnLine THEN "reset" ELSE "closing"
          /\ pc[w] = "offline"
      BY <2>1, <1>1, <1>3, <1>4 DEF set_offline, Go, TableInv, TypeOK
    <3>2. o \notin isOnLine => conection_ids[o] = Closed
      BY <3>1, <1>1 DEF Registered, RegisteredTruly
    <3> QED BY <3>1, <3>2
  <2>2. CASE reset(w)
    <3>1. /\ isOnLine' = isOnLine \ {o} /\ conection_ids' = conection_ids /\ there = "un_link"
      BY <2>2, <1>1, <1>3, <1>4 DEF reset, Go, TableInv, TypeOK
    <3> QED BY <3>1
  <2>3. CASE un_link(w)
    <3>1. /\ isOnLine' = isOnLine /\ there = "closing"
          /\ conection_ids' = [conection_ids EXCEPT ![o] =
                                 IF conection_ids[o] = fd[o] THEN Closed ELSE conection_ids[o]]
      BY <2>3, <1>1, <1>3, <1>4 DEF un_link, Go, TableInv, TypeOK
    <3>2. conection_ids[o] # Closed => conection_ids[o] = fd[o]
      BY <1>1 DEF Registered, RegisteredTruly
    <3> QED BY <3>1, <3>2, <1>1 DEF TableInv, TypeOK
  <2> QED BY <2>1, <2>2, <2>3
<1>7. there = "un_link" \/ conection_ids'[o] = Closed \/ o \in isOnLine'
  BY <1>3, <1>6
<1>8. RegisteredTruly'
  <2> SUFFICES ASSUME NEW p \in Obj, conection_ids'[p] # Closed
               PROVE  /\ conection_ids'[p] = fd[p] /\ sock[fd[p]] = p
                      /\ p \in isOnLine' \/ \E u \in Workers : cur[u] = p /\ pc'[u] = "un_link"
    BY <1>2 DEF memory, RegisteredTruly
  <2>1. CASE p = o
    BY <2>1, <1>4, <1>6, <1>7 DEF Registered, RegisteredTruly
  <2>2. CASE p # o
    <3>1. /\ conection_ids[p] = fd[p] /\ sock[fd[p]] = p /\ conection_ids'[p] = conection_ids[p]
          /\ p \in isOnLine \/ \E u \in Workers : cur[u] = p /\ pc[u] = "un_link"
      BY <2>2, <1>6 DEF Registered, RegisteredTruly
    <3>2. \A u \in Workers : cur[u] = p /\ pc[u] = "un_link" => pc'[u] = "un_link"
      BY <2>2, <1>5
    <3> QED BY <2>2, <3>1, <3>2, <1>6
  <2> QED BY <2>1, <2>2
<1>9. Unlinking'
  <2> SUFFICES ASSUME NEW u \in Workers, pc'[u] \in Detached \cup Unlinked
               PROVE  /\ pc'[u] \in Unlinked => conection_ids'[cur[u]] = Closed
                      /\ cur[u] \notin watched
    BY <1>2 DEF memory, Unlinking
  <2>1. CASE u = w
    BY <2>1, <1>1, <1>3, <1>4, <1>6 DEF Unlinked
  <2>2. CASE u # w
    <3>1. pc'[u] = pc[u] /\ cur[u] \in Obj /\ cur[u] # o
      BY <2>2, <1>1, <1>5, ConstantFacts DEF TableInv, Roles, Detached, Unlinked
    <3> QED BY <3>1, <1>6 DEF Registered, Unlinking
  <2> QED BY <2>1, <2>2
<1>10. Online'
  <2>1. pc[Acceptor] \in {"insert", "add"} =>
          /\ cur[Acceptor] # o /\ cur[Acceptor] \in Obj
          /\ cur[Acceptor] \in isOnLine /\ conection_ids[cur[Acceptor]] = Closed
    BY <1>1, ConstantFacts DEF Registered, Online, TableInv, Fresh, Roles
  <2> QED BY <2>1, <1>1, <1>2, <1>5, <1>6 DEF memory, Registered, Online
<1> QED BY <1>8, <1>9, <1>10 DEF Registered

LEMMA CloseRegistered ==
  ASSUME TableInv, Registered, NEW w \in Workers, web_close(w)
  PROVE  Registered'
<1> PICK f, o : f = client_id[w] /\ o = cur[w]
  OBVIOUS
<1>1. w \in Thread \ {Acceptor} /\ pc[w] = "web_close" /\ o \in Obj /\ f \in Fd
      /\ sock[f] \in {o, None} /\ o \notin watched /\ conection_ids[o] = Closed
  BY ConnTableAssumption, ConstantFacts
     DEF web_close, TableInv, Roles, Owned, Owns, DeletePc, Registered, Unlinking, Unlinked
<1>2. /\ sock' = [g \in Fd |-> IF g = f THEN None ELSE sock[g]]
      /\ watched' = watched \ {sock[f]}
      /\ pc' = [pc EXCEPT ![w] = "forget"]
      /\ UNCHANGED <<map_index, fd, life, held, others, events, cur, client_id>>
  BY DEF web_close, CloseFds, Go
<1>3. pc'[w] = "forget" /\ \A u \in Thread : u # w => pc'[u] = pc[u]
  BY <1>1, <1>2 DEF TableInv, TypeOK
<1>4. watched' = watched
  BY <1>1, <1>2, ConstantFacts DEF TableInv, TypeOK
<1>5. RegisteredTruly'
  <2> SUFFICES ASSUME NEW p \in Obj, conection_ids[p] # Closed
               PROVE  /\ conection_ids[p] = fd[p] /\ sock'[fd[p]] = p
                      /\ p \in isOnLine \/ \E u \in Workers : cur[u] = p /\ pc'[u] = "un_link"
    BY <1>2 DEF RegisteredTruly, others
  <2>1. /\ conection_ids[p] = fd[p] /\ sock[fd[p]] = p /\ p # o /\ fd[p] \in Fd /\ p # None
        /\ p \in isOnLine \/ \E u \in Workers : cur[u] = p /\ pc[u] = "un_link"
    BY <1>1, ConstantFacts DEF Registered, RegisteredTruly, TableInv, TypeOK
  <2>2. fd[p] # f
    BY <2>1, <1>1
  <2>3. \A u \in Workers : pc[u] = "un_link" => pc'[u] = "un_link"
    BY <1>1, <1>3, ConstantFacts
  <2> QED BY <2>1, <2>2, <2>3, <1>2
<1>6. Unlinking'
  BY <1>1, <1>2, <1>3, <1>4, ConstantFacts DEF others, Registered, Unlinking, Detached, Unlinked
<1>7. Online'
  <2>1. pc'[Acceptor] = pc[Acceptor]
    BY <1>1, <1>3, ConstantFacts
  <2> QED BY <2>1, <1>2, <1>4 DEF others, Registered, Online
<1> QED BY <1>5, <1>6, <1>7 DEF Registered

LEMMA DeleterRegistered ==
  ASSUME TableInv, Registered, NEW w \in Workers, w \in Deleters, deleteClient(w)
  PROVE  Registered'
<1>1. w \in Thread \ {Acceptor}
  BY ConstantFacts
\* Steps of the worker that are none of those above.
<1>2. ASSUME NEW there, pc' = [pc EXCEPT ![w] = there], pc[w] # "un_link", cur' = cur,
             there \in Unlinked => pc[w] \in Unlinked,
             there \in Detached => pc[w] \in Detached,
             sock' = sock, watched' = watched,
             UNCHANGED <<isOnLine, conection_ids, events>>,
             \A o \in Obj : (\E f \in Fd : sock[f] = o) => fd'[o] = fd[o]
      PROVE  Registered'
  <2>1. pc'[w] = there /\ \A u \in Thread : u # w => pc'[u] = pc[u]
    BY <1>1, <1>2 DEF TableInv, TypeOK
  <2> QED BY <1>1, <1>2, <2>1, ConstantFacts, RegisterSame
<1>3. CASE deleteClientFromMap(w)
  <2>1. PICK there \in {"close", "erase"} : ReadFd(w, there)
    BY <1>3 DEF deleteClientFromMap
  <2> QED BY <1>2, <1>3, <2>1
          DEF deleteClientFromMap, ReadFd, Go, memory, others, Unlinked, Detached
<1>4. CASE erase(w)
  <2>1. Quiet([map_index EXCEPT ![client_id[w]] = None], held)
    BY <1>4, EraseQuiet
  <2>2. sock' = sock /\ watched' = watched
        /\ \A o \in Obj : (\E f \in Fd : sock[f] = o) => fd'[o] = fd[o]
    BY <2>1 DEF Quiet
  <2> QED BY <1>2, <1>4, <2>2 DEF erase, Go, others, Unlinked, Detached
<1>5. CASE (closeClientConnection(w) \/ web_close_start(w)) /\ fd[cur[w]] # Closed
  <2>1. \/ pc[w] = "close" /\ ReadFd(w, "detach")
        \/ pc[w] = "closing" /\ ReadFd(w, "web_close")
    BY <1>5 DEF closeClientConnection, web_close_start
  <2> QED BY <1>2, <2>1 DEF ReadFd, Go, memory, others, Unlinked, Detached
<1>6. CASE deleted(w) \/ ((closeClientConnection(w) \/ web_close_start(w)) /\ fd[cur[w]] = Closed)
  <2>1. pc[w] \in {"release", "close", "closing"} /\ Return(w)
        /\ (pc[w] # "release" => fd[cur[w]] = Closed)
    BY <1>6 DEF deleted, closeClientConnection, web_close_start
  <2>2. cur[w] \in Obj /\ cur[w] # None
    BY <1>1, <2>1, ConstantFacts DEF TableInv, Roles
  <2>3. fd[cur[w]] = Closed => \A f \in Fd : sock[f] # cur[w]
    BY <2>2, ConstantFacts DEF TableInv, Open
  <2>4. MayReturn(w)
    BY <2>1, <2>3 DEF MayReturn, Erased
  <2> QED BY <1>1, <2>1, <2>4, ReturnRegistered
<1>7. CASE forget(w)
  <2>1. pc[w] = "forget" /\ \A f \in Fd : sock[f] # cur[w]
    BY <1>7 DEF forget, TableInv, Progress
  <2>2. \A o \in Obj : (\E f \in Fd : sock[f] = o) => fd'[o] = fd[o]
    BY <1>7, <2>1 DEF forget, TableInv, TypeOK
  <2> QED BY <1>2, <1>7, <2>1, <2>2 DEF forget, Go, others, Unlinked, Detached
<1> QED BY <1>3, <1>4, <1>5, <1>6, <1>7, DetachRegistered, UnlinkRegistered, CloseRegistered
        DEF deleteClient

LEMMA OtherRegistered ==
  ASSUME TableInv, Registered, Kickers = {},
         \/ insert \/ accepted
         \/ \E w \in Workers, o \in Obj : hangup(w, o)
         \/ \E w \in Workers : epoll_wait(w)
         \/ \E t \in Senders \cup Kickers :
              find(t) \/ (\E o \in Obj : read_slot(t, o)) \/ message(t)
  PROVE  Registered'
<1>1. CASE insert
  <2>1. /\ pc[Acceptor] = "insert" /\ pc' = [pc EXCEPT ![Acceptor] = "add"]
        /\ UNCHANGED <<fd, life, sock, watched, held, others, events, cur, client_id>>
    BY <1>1 DEF insert, Go
  <2>2. \A w \in Workers : pc'[w] = pc[w]
    BY <2>1, ConstantFacts, ConnTableAssumption DEF TableInv, TypeOK
  <2> QED BY <2>1, <2>2, ConstantFacts, RegisterSame DEF others, TableInv, TypeOK
<1>2. CASE accepted
  <2>1. MayReturn(Acceptor) /\ pc[Acceptor] # "un_link"
    BY <1>2, ConstantFacts DEF accepted, MayReturn
  <2> QED BY <1>2, <2>1, ConstantFacts, ReturnRegistered DEF accepted
<1>3. ASSUME NEW w \in Workers, NEW o \in Obj, hangup(w, o) PROVE Registered'
  <2>1. w \in Thread \ {Acceptor}
    BY ConnTableAssumption, ConstantFacts
  <2>2. /\ pc[w] = "idle" /\ pc'[w] = "fromMap" /\ cur'[w] = o
        /\ \A u \in Thread : u # w => pc'[u] = pc[u] /\ cur'[u] = cur[u]
        /\ \A u \in Workers : events'[u] \subseteq events[u]
        /\ UNCHANGED <<fd, sock, watched, others>>
    BY <1>3, <2>1 DEF hangup, Go, TableInv, TypeOK
  <2> QED BY <2>1, <2>2, ConstantFacts, RegisterSame DEF others, Unlinked, Detached
<1>4. ASSUME NEW w \in Workers, epoll_wait(w) PROVE Registered'
  <2>1. \A u \in Workers : events'[u] \subseteq watched
    BY <1>4 DEF epoll_wait, Registered, Online, TableInv, TypeOK
  <2>2. UNCHANGED <<memory, others, pc, cur, client_id>>
    BY <1>4 DEF epoll_wait
  <2>3. RegisteredTruly' /\ Unlinking'
    BY <2>2 DEF memory, others, Registered, RegisteredTruly, Unlinking
  <2>4. Online'
    BY <2>1, <2>2 DEF memory, others, Registered, Online
  <2> QED BY <2>3, <2>4 DEF Registered
<1>5. ASSUME NEW t \in Senders,
             find(t) \/ (\E o \in Obj : read_slot(t, o)) \/ message(t)
      PROVE  Registered'
  <2>1. t \in Thread /\ t # Acceptor /\ t \notin Workers
    BY ConnTableAssumption, ConstantFacts
  <2>2. CASE Return(t) /\ pc[t] \in {"lookup", "found", "write"}
    <3>1. MayReturn(t)
      BY <2>2 DEF MayReturn, Erased
    <3> QED BY <2>1, <2>2, <3>1, ReturnRegistered
  <2>3. CASE ~Return(t)
    <3>1. /\ UNCHANGED <<fd, sock, watched, isOnLine, conection_ids, events>>
          /\ \E there : pc' = [pc EXCEPT ![t] = there]
          /\ \E o : cur' = [cur EXCEPT ![t] = o]
      BY <1>5, <2>1, <2>3
         DEF find, read_slot, message, get, ReadFd, Go, memory, others, TableInv, TypeOK
    <3>2. \A u \in Thread : u # t => pc'[u] = pc[u] /\ cur'[u] = cur[u]
      BY <2>1, <3>1 DEF TableInv, TypeOK
    <3> QED BY <2>1, <3>1, <3>2, ConstantFacts, RegisterSame
  <2>4. Return(t) => pc[t] \in {"lookup", "found", "write"}
    <3>1. Return(t) => pc'[t] = "idle"
      BY <2>1 DEF Return, TableInv, TypeOK
    <3>2. ASSUME NEW o \in Obj, read_slot(t, o) PROVE pc'[t] # "idle"
      BY <2>1, <3>2 DEF read_slot, Go, TableInv, TypeOK
    <3>3. ASSUME pc[t] = "message", ReadFd(t, "write") PROVE pc'[t] # "idle"
      BY <2>1, <3>3 DEF ReadFd, Go, TableInv, TypeOK
    <3> QED BY <1>5, <3>1, <3>2, <3>3 DEF find, message, get
  <2> QED BY <2>2, <2>3, <2>4
<1> QED BY <1>1, <1>2, <1>3, <1>4, <1>5

LEMMA StepRegisterInv ==
  ASSUME TableInv, TableInv', RegisterInv, [Next]_vars
  PROVE  RegisterInv'
<1> SUFFICES ASSUME Kickers = {} PROVE Registered'
  BY DEF RegisterInv
<1>1. Registered /\ Deleters = Workers
  BY DEF RegisterInv, Deleters
<1>2. ASSUME NEW o \in Obj, NEW w \in Workers, accept(o, w) \/ handle_message(w, o)
      PROVE  Registered'
  BY <1>1, <1>2, AcceptRegistered, HandleRegistered
<1>3. CASE epoll_add
  BY <1>1, <1>3, EpollAddRegistered
<1>4. ASSUME NEW w \in Workers, deleteClient(w) PROVE Registered'
  BY <1>1, <1>4, DeleterRegistered
<1>5. CASE UNCHANGED vars
  BY <1>1, <1>5 DEF vars, Registered, RegisteredTruly, Unlinking, Online
<1>6. CASE \/ insert \/ accepted
           \/ \E w \in Workers, o \in Obj : hangup(w, o)
           \/ \E w \in Workers : epoll_wait(w)
           \/ \E t \in Senders \cup Kickers :
                find(t) \/ (\E o \in Obj : read_slot(t, o)) \/ message(t)
  BY <1>1, <1>6, OtherRegistered
<1> QED BY <1>1, <1>2, <1>3, <1>4, <1>5, <1>6 DEF Next

-----------------------------------------------------------------------------
\* Theorems

LEMMA Invariants ==
  ASSUME Careful
  PROVE  Spec => [](TableInv /\ RegisterInv)
<1>1. Init => TableInv /\ RegisterInv
  BY InitTableInv, ConstantFacts
     DEF Init, RegisterInv, Registered, RegisteredTruly, Unlinking, Online, Unlinked, Detached
<1>2. TableInv /\ RegisterInv /\ [Next]_vars => (TableInv /\ RegisterInv)'
  BY StepTableInv, StepRegisterInv
<1> QED BY <1>1, <1>2, PTL DEF Spec

\* Every variable keeps its type and, what the runs' TypeOK adds, no thread
\* takes the descriptor -1 out of the map.  Here and below Careful: descriptors
\* are used once, or nobody closes the connection of another and epoll_ctl does
\* not fail.
THEOREM TableTypeOK ==
  ASSUME Careful
  PROVE  Spec => []TypeOK
<1>1. TableInv => TypeOK
  BY DEF TableInv
<1> QED BY <1>1, Invariants, PTL

\* A connection that is read from is found under its descriptor until it is
\* being closed (tcpServer::start, deleteClientFromMap).  If descriptors are used
\* again, a connection that was closed twice or refused by epoll may cost the next
\* one with its number the entry; Careful leaves these out.
THEOREM WatchedIsFound ==
  ASSUME Careful
  PROVE  Spec => []FoundByClientId
<1>1. TableInv => FoundByClientId
  <2> SUFFICES ASSUME TableInv, NEW o \in watched, ~Deleting(o)
               PROVE  fd[o] # Closed /\ map_index[fd[o]] = o
    BY DEF FoundByClientId
  <2>1. o \in Obj /\ o # None /\ fd[o] # Closed /\ fd[o] \in Fd /\ sock[fd[o]] = o
    BY ConstantFacts DEF TableInv, TypeOK, Reachable
  <2>2. Found(o)
    BY <2>1 DEF TableInv, Reachable
  <2>3. ~(pc[Acceptor] = "insert" /\ cur[Acceptor] = o)
    BY DEF TableInv, Fresh
  <2>4. \A t \in Deleters : ~(cur[t] = o /\ pc[t] \in Erased)
    BY DEF TableInv, Lives, Deleting, Erased, DeletePc
  <2> QED BY <2>1, <2>2, <2>3, <2>4 DEF Found
<1> QED BY <1>1, Invariants, PTL

\* Every open descriptor is read from, or a thread that holds its object will
\* give it to an epoll set or close it, under Careful.
THEOREM OpenIsHeld ==
  ASSUME Careful
  PROVE  Spec => []NoLeak
<1>1. TableInv => NoLeak
  <2> SUFFICES ASSUME TableInv, NEW f \in Fd, sock[f] # None
               PROVE  \/ sock[f] \in watched
                      \/ \E t \in {Acceptor} \cup Deleters : sock[f] \in held[t]
    BY DEF NoLeak
  <2>1. Watched(sock[f])
    BY DEF TableInv, Reachable
  <2>2. pc[Acceptor] \in {"insert", "add"} => cur[Acceptor] \in held[Acceptor]
    BY DEF TableInv, Lives
  <2>3. \A t \in Deleters : pc[t] \in Detached => cur[t] \in held[t]
    BY DEF TableInv, Lives, Detached, DeletePc
  <2> QED BY <2>1, <2>2, <2>3 DEF Watched
<1> QED BY <1>1, Invariants, PTL

\* A lookup finds an open connection, the one that has the descriptor, as long
\* as no connection stays in the map that epoll refused and, if descriptors are
\* used again, nobody closes the connection of another.
THEOREM LookupsAreTrue ==
  ASSUME Careful, ~EpollFails
  PROVE  Spec => []MapTruth
<1>1. TableInv => MapTruth
  BY DEF TableInv, Open, MapTruth
<1> QED BY <1>1, Invariants, PTL

\* Events are of objects that have not been freed, when each connection is
\* closed by its worker only: "After this line there will be no events from the
\* client in epoll" (closeClientConnection).  If descriptors are used again,
\* epoll_ctl must not fail either (Careful).
THEOREM EventsAreLive ==
  ASSUME Careful, Kickers = {}
  PROVE  Spec => []EventsLive
<1>1. TableInv /\ RegisterInv => EventsLive
  <2> SUFFICES ASSUME TableInv, RegisterInv, NEW w \in Workers, NEW o \in events[w]
               PROVE  life[o] = "live"
    BY DEF EventsLive
  <2>1. o \in watched
    BY DEF RegisterInv, Registered, Online
  <2>2. PICK f \in Fd : sock[f] = o
    BY <2>1 DEF TableInv, TypeOK, Reachable
  <2>3. o # None
    BY <2>1, ConstantFacts DEF TableInv, TypeOK
  <2> QED BY <2>2, <2>3 DEF TableInv, Open
<1> QED BY <1>1, Invariants, PTL

\* A user's table names open descriptors of the user's own connections, when
\* each connection is closed by its worker only (un_link before web_close) and,
\* if descriptors are used again, epoll_ctl does not fail (Careful).
THEOREM RegisteredStaysOpen ==
  ASSUME Careful, Kickers = {}
  PROVE  Spec => []RegisteredIsOpen
<1>1. RegisterInv => RegisteredIsOpen
  BY DEF RegisterInv, Registered, RegisteredTruly, RegisteredIsOpen
<1> QED BY <1>1, Invariants, PTL
=============================================================================
