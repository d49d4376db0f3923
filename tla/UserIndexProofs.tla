--------------------------- MODULE UserIndexProofs ---------------------------
(***************************************************************************)
(* Theorems about the index of users, for any number of users, connections *)
(* and slots.                                                              *)
(***************************************************************************)
EXTENDS UserIndex, FiniteSetTheorems, TLAPS

USE DEF NotConnected, Unknown, Online, Left

-----------------------------------------------------------------------------
\* The smallest element that Min chooses.

LEMMA MinSlot ==
  ASSUME NEW S \in SUBSET Slot, S # {}
  PROVE  Min(S) \in S
<1>1. S \subseteq Nat
  BY UserIndexAssumption DEF Slot
<1>2. PICK m \in S : \A k \in S : ~ (<<k, m>> \in OpToRel(<, Nat))
  BY <1>1, WFMin, NatLessThanWellFounded
<1>3. ASSUME NEW k \in S PROVE m <= k
  <2>1. (k \in Nat) /\ (m \in Nat)
    BY <1>1
  <2>2. k < m => <<k, m>> \in OpToRel(<, Nat)
    BY <2>1 DEF OpToRel
  <2>3. ~ (k < m)
    BY <1>2, <2>2, Zenon
  <2>4. QED
    BY <2>1, <2>3
<1>4. \E x \in S : \A k \in S : x <= k
  BY <1>3
<1>5. QED
  BY <1>4 DEF Min

\* A connection is added to a slot that was free, the others keep theirs.
LEMMA WithIdFacts ==
  ASSUME NEW ids \in [Slot -> Conn \cup {0, NotConnected}], NEW c \in Conn
  PROVE  /\ WithId(ids, c) \in [Slot -> Conn \cup {0, NotConnected}]
         /\ \/ WithId(ids, c) = ids /\ Used(ids) = Slot
            \/ \E k \in Slot \ Used(ids) :
                 /\ WithId(ids, c)[k] = c
                 /\ \A i \in Slot \ {k} : WithId(ids, c)[i] = ids[i]
<1> DEFINE free == Slot \ Used(ids)
<1>1. CASE free = {}
  BY <1>1 DEF WithId, Used
<1>2. CASE free # {}
  <2>1. Min(free) \in free
    BY <1>2, MinSlot
  <2>2. WithId(ids, c) = [ids EXCEPT ![Min(free)] = c]
    BY <1>2 DEF WithId
  <2>3. QED
    BY <2>1, <2>2
<1>3. QED
  BY <1>1, <1>2

\* A connection is taken from the slot that holds it, the others keep theirs.
LEMMA WithoutIdFacts ==
  ASSUME NEW ids \in [Slot -> Conn \cup {0, NotConnected}], NEW c \in Conn
  PROVE  /\ WithoutId(ids, c) \in [Slot -> Conn \cup {0, NotConnected}]
         /\ \/ WithoutId(ids, c) = ids /\ \A i \in Slot : ids[i] # c
            \/ \E k \in Slot :
                 /\ ids[k] = c
                 /\ WithoutId(ids, c)[k] = NotConnected
                 /\ \A i \in Slot \ {k} : WithoutId(ids, c)[i] = ids[i]
<1> DEFINE held == {i \in Slot : ids[i] = c}
<1>1. CASE held = {}
  BY <1>1 DEF WithoutId
<1>2. CASE held # {}
  <2>1. Min(held) \in held
    BY <1>2, MinSlot
  <2>2. WithoutId(ids, c) = [ids EXCEPT ![Min(held)] = NotConnected]
    BY <1>2 DEF WithoutId
  <2>3. QED
    BY <2>1, <2>2
<1>3. QED
  BY <1>1, <1>2

-----------------------------------------------------------------------------
\* Types

LEMMA TypeInit == Init => TypeOK
BY DEF Init, TypeOK, NoSlots, Time

LEMMA IdsType ==
  ASSUME TypeOK, NEW u \in User
  PROVE  Ids(u) \in [Slot -> Conn \cup {0, NotConnected}]
BY DEF TypeOK, Ids, NoSlots

LEMMA TypeStep == TypeOK /\ [Next]_vars => TypeOK'
<1> SUFFICES ASSUME TypeOK, [Next]_vars PROVE TypeOK'
  OBVIOUS
<1>1. ASSUME NEW u \in User, NEW c \in Conn, set_link(u, c) PROVE TypeOK'
  <2>1. WithId(Ids(u), c) \in [Slot -> Conn \cup {0, NotConnected}]
    BY IdsType, WithIdFacts
  <2>2. (map_index' \subseteq User) /\ (web_user_id' \in [Conn -> User \cup {NoUser}])
    BY <1>1 DEF set_link, TypeOK
  <2>3. conection_ids' \in [User -> [Slot -> Conn \cup {0, NotConnected}]]
    BY <1>1, <2>1 DEF set_link, setConection_id, TypeOK
  <2>4. /\ last_online_time' \in [User -> Time]
        /\ users_time' \in [User -> Time]
        /\ user_status' \in [User -> {"none", "online", "offline"}]
    BY <1>1 DEF set_link, setConection_id, setOnline_time, SaveUsersTime,
                TypeOK, Time
  <2>5. QED
    BY <2>2, <2>3, <2>4 DEF TypeOK
<1>2. ASSUME NEW u \in User, NEW c \in Conn, un_link(u, c) PROVE TypeOK'
  <2>1. WithoutId(conection_ids[u], c) \in [Slot -> Conn \cup {0, NotConnected}]
    BY WithoutIdFacts DEF TypeOK
  <2>2. (map_index' \subseteq User) /\ (web_user_id' \in [Conn -> User \cup {NoUser}])
    BY <1>2 DEF un_link, TypeOK
  <2>3. conection_ids' \in [User -> [Slot -> Conn \cup {0, NotConnected}]]
    BY <1>2, <2>1 DEF un_link, unsetConection_id, TypeOK
  <2>4. /\ last_online_time' \in [User -> Time]
        /\ users_time' \in [User -> Time]
        /\ user_status' \in [User -> {"none", "online", "offline"}]
    BY <1>2 DEF un_link, unsetConection_id, setOffline_time, SaveUsersTime,
                TypeOK, Time
  <2>5. QED
    BY <2>2, <2>3, <2>4 DEF TypeOK
<1>3. ASSUME NEW u \in User, add_hash(u) PROVE TypeOK'
  BY <1>3 DEF add_hash, TypeOK, NoSlots, Time
<1>4. ASSUME NEW u \in User, get_last_online_time(u) PROVE TypeOK'
  BY <1>4 DEF get_last_online_time, TypeOK, Time
<1>5. CASE Restart
  BY <1>5 DEF Restart, TypeOK, NoSlots, Time
<1>6. CASE UNCHANGED vars
  BY <1>6 DEF vars, TypeOK
<1>7. ASSUME NEW u \in User, NEW c \in Conn, un_linkRefused(u, c) PROVE TypeOK'
  <2>1. WithoutId(conection_ids[u], c) \in [Slot -> Conn \cup {0, NotConnected}]
    BY WithoutIdFacts DEF TypeOK
  <2>2. conection_ids' \in [User -> [Slot -> Conn \cup {0, NotConnected}]]
    BY <1>7, <2>1 DEF un_linkRefused, unsetConection_id, TypeOK
  <2>3. QED
    BY <1>7, <2>2 DEF un_linkRefused, unsetConection_id, setOffline_time, SaveUsersTime,
                      TypeOK, Time
<1>8. QED
  BY <1>1, <1>2, <1>3, <1>4, <1>5, <1>6, <1>7 DEF Next

\* Every variable keeps its type.
THEOREM TypeCorrect == Spec => []TypeOK
<1>1. QED
  BY TypeInit, TypeStep, PTL DEF Spec

-----------------------------------------------------------------------------
\* The table of a user's connections, without any bound on their number.

\* RegisteredIsOnline for one user's item.
Registered(u) ==
  \A i \in Used(conection_ids[u]) :
    /\ web_user_id[conection_ids[u][i]] = u
    /\ \A j \in Slot : conection_ids[u][j] = conection_ids[u][i] => j = i
    /\ last_online_time[u] = Online
    /\ user_status[u] = "online"

LEMMA RegisteredEach ==
  TypeOK => (RegisteredIsOnline <=> \A u \in map_index : Registered(u))
BY UserIndexAssumption DEF RegisteredIsOnline, Registered, Linked, Used, TypeOK

\* A connection that was not accepted is in no table: the user it names is at
\* most told to be offline, when he has no other.
LEMMA RefusedFacts ==
  ASSUME TypeOK, NEW u \in User, NEW c \in Conn, un_linkRefused(u, c),
         \A v \in map_index : Registered(v)
  PROVE  /\ UNCHANGED <<map_index, conection_ids, web_user_id>>
         /\ \/ UNCHANGED <<last_online_time, users_time, user_status>>
            \/ u \in map_index /\ Used(conection_ids[u]) = {} /\ setOffline_time(u)
<1>1. u \in map_index /\ web_user_id[c] = NoUser /\ unsetConection_id(u, c)
  BY DEF un_linkRefused
<1>2. ASSUME NEW i \in Slot, conection_ids[u][i] = c PROVE FALSE
  <2>1. i \in Used(conection_ids[u])
    BY <1>2, UserIndexAssumption DEF Used
  <2>2. web_user_id[c] = u
    BY <1>1, <1>2, <2>1 DEF Registered
  <2>3. QED
    BY <1>1, <2>2, UserIndexAssumption
<1>3. WithoutId(conection_ids[u], c) = conection_ids[u]
  BY <1>2 DEF WithoutId
<1>4. conection_ids' = conection_ids
  BY <1>1, <1>3 DEF unsetConection_id, TypeOK
<1>5. QED
  BY <1>1, <1>3, <1>4 DEF unsetConection_id, un_linkRefused

\* The connection being linked was in no table, so no slot has it twice.
LEMMA RegisteredSetLink ==
  ASSUME TypeOK, NEW u \in User, NEW c \in Conn, set_link(u, c),
         \A v \in map_index : Registered(v)
  PROVE  \A v \in map_index' : Registered(v)'
<1> DEFINE new == WithId(Ids(u), c)
<1>1. ASSUME NEW v \in map_index, v # u PROVE Registered(v)'
  <2>1. /\ conection_ids'[v] = conection_ids[v]
        /\ last_online_time'[v] = last_online_time[v]
        /\ user_status'[v] = user_status[v]
    BY <1>1 DEF set_link, setConection_id, setOnline_time, TypeOK
  <2>2. \A d \in Conn \ {c} : web_user_id'[d] = web_user_id[d]
    BY DEF set_link, TypeOK
  <2>3. \A i \in Used(conection_ids[v]) :
           conection_ids[v][i] \in Conn /\ conection_ids[v][i] # c
    BY <1>1, UserIndexAssumption DEF Registered, Used, TypeOK, set_link
  <2>4. QED
    BY <1>1, <2>1, <2>2, <2>3 DEF Registered, Used
<1>2. Registered(u)'
  <2>1. conection_ids'[u] = new
    BY DEF set_link, setConection_id, TypeOK
  <2>2. Ids(u) \in [Slot -> Conn \cup {0, NotConnected}]
    BY IdsType
  <2>3. \A i \in Used(Ids(u)) :
          /\ Ids(u)[i] \in Conn
          /\ web_user_id[Ids(u)[i]] = u
          /\ \A j \in Slot : Ids(u)[j] = Ids(u)[i] => j = i
          /\ last_online_time[u] = Online
          /\ user_status[u] = "online"
    BY <2>2, UserIndexAssumption DEF Ids, NoSlots, Used, Registered
  <2>4. web_user_id'[c] = u /\ \A d \in Conn \ {c} : web_user_id'[d] = web_user_id[d]
    BY DEF set_link, TypeOK
  <2>5. \A i \in Slot : Ids(u)[i] # c
    BY <2>3, UserIndexAssumption DEF set_link, Used
  <2>6. (last_online_time'[u] = Online) /\ (user_status'[u] = "online")
    <3>1. CASE Used(Ids(u)) = {}
      BY <3>1 DEF set_link, setConection_id, setOnline_time, TypeOK
    <3>2. CASE Used(Ids(u)) # {}
      BY <3>2, <2>3 DEF set_link, setConection_id
    <3>3. QED
      BY <3>1, <3>2
  <2>7. ASSUME NEW i \in Used(new)
        PROVE  /\ web_user_id'[new[i]] = u
               /\ \A j \in Slot : new[j] = new[i] => j = i
    <3>1. CASE new = Ids(u)
      BY <3>1, <2>3, <2>4, <2>5, <2>7 DEF Used
    <3>2. ASSUME NEW k \in Slot \ Used(Ids(u)), new[k] = c,
                 \A j \in Slot \ {k} : new[j] = Ids(u)[j]
          PROVE  /\ web_user_id'[new[i]] = u
                 /\ \A j \in Slot : new[j] = new[i] => j = i
      BY <3>2, <2>3, <2>4, <2>5, <2>7 DEF Used
    <3>3. QED
      BY <3>1, <3>2, <2>2, WithIdFacts
  <2>8. QED
    BY <2>1, <2>6, <2>7 DEF Registered, Used
<1>3. QED
  BY <1>1, <1>2 DEF set_link

\* The connection being unlinked leaves the one slot that names it.
LEMMA RegisteredUnLink ==
  ASSUME TypeOK, NEW u \in User, NEW c \in Conn, un_link(u, c),
         \A v \in map_index : Registered(v)
  PROVE  \A v \in map_index' : Registered(v)'
<1> DEFINE new == WithoutId(conection_ids[u], c)
<1>1. \A d \in Conn \ {c} : web_user_id'[d] = web_user_id[d]
  BY DEF un_link, TypeOK
<1>2. ASSUME NEW v \in map_index, v # u PROVE Registered(v)'
  <2>1. /\ conection_ids'[v] = conection_ids[v]
        /\ last_online_time'[v] = last_online_time[v]
        /\ user_status'[v] = user_status[v]
    BY <1>2 DEF un_link, unsetConection_id, setOffline_time, TypeOK
  <2>2. \A i \in Used(conection_ids[v]) :
           conection_ids[v][i] \in Conn /\ conection_ids[v][i] # c
    BY <1>2, UserIndexAssumption DEF Registered, Used, TypeOK, un_link
  <2>3. QED
    BY <1>1, <1>2, <2>1, <2>2 DEF Registered, Used
<1>3. ASSUME u \in map_index PROVE Registered(u)'
  <2>1. conection_ids'[u] = new
    BY <1>3 DEF un_link, unsetConection_id, TypeOK
  <2>2. conection_ids[u] \in [Slot -> Conn \cup {0, NotConnected}]
    BY DEF TypeOK
  <2>3. ASSUME NEW i \in Used(new)
        PROVE  /\ i \in Used(conection_ids[u])
               /\ new[i] = conection_ids[u][i]
               /\ new[i] # c
               /\ \A j \in Slot : new[j] = new[i] => j = i
    <3>1. CASE new = conection_ids[u] /\ \A j \in Slot : conection_ids[u][j] # c
      BY <3>1, <2>3, <1>3 DEF Used, Registered
    <3>2. ASSUME NEW k \in Slot, conection_ids[u][k] = c, new[k] = NotConnected,
                 \A j \in Slot \ {k} : new[j] = conection_ids[u][j]
          PROVE  /\ i \in Used(conection_ids[u])
                 /\ new[i] = conection_ids[u][i]
                 /\ new[i] # c
                 /\ \A j \in Slot : new[j] = new[i] => j = i
      <4>1. i # k
        BY <3>2, <2>3 DEF Used
      <4>2. i \in Used(conection_ids[u]) /\ new[i] = conection_ids[u][i]
        BY <4>1, <3>2, <2>3 DEF Used
      <4>3. \A j \in Slot : conection_ids[u][j] = conection_ids[u][i] => j = i
        BY <4>2, <1>3 DEF Registered
      <4>4. new[i] > 0
        BY <2>3 DEF Used
      <4>5. QED
        BY <4>1, <4>2, <4>3, <4>4, <3>2
    <3>3. QED
      BY <3>1, <3>2, <2>2, WithoutIdFacts
  <2>4. Used(new) # {} =>
          /\ last_online_time' = last_online_time
          /\ user_status' = user_status
    BY <1>3 DEF un_link, unsetConection_id
  <2>5. \A i \in Used(new) : new[i] \in Conn
    BY <2>2, <2>3, UserIndexAssumption DEF Used
  <2>6. QED
    BY <1>1, <1>3, <2>1, <2>3, <2>4, <2>5 DEF Registered, Used
<1>4. QED
  BY <1>2, <1>3 DEF un_link

\* An item that was not in memory, or whose time is not known, has no
\* connection; eviction and restart only remove items.
LEMMA RegisteredOther ==
  ASSUME TypeOK, \A v \in map_index : Registered(v),
         \/ \E u \in User : add_hash(u) \/ get_last_online_time(u)
         \/ \E u \in User, c \in Conn : un_linkRefused(u, c)
         \/ Restart
         \/ UNCHANGED vars
  PROVE  \A v \in map_index' : Registered(v)'
<1>1. ASSUME NEW u \in User, add_hash(u)
      PROVE  \A v \in map_index' : Registered(v)'
  <2>1. Used(conection_ids'[u]) = {}
    BY <1>1 DEF add_hash, TypeOK, NoSlots, Used
  <2>2. \A v \in map_index' \ {u} : v \in map_index /\ v \in User
    BY <1>1 DEF add_hash, TypeOK
  <2>3. \A v \in User \ {u} : conection_ids'[v] = conection_ids[v]
                            /\ last_online_time'[v] = last_online_time[v]
    BY <1>1 DEF add_hash, TypeOK
  <2>4. user_status' = user_status /\ web_user_id' = web_user_id
    BY <1>1 DEF add_hash
  <2>5. QED
    BY <2>1, <2>2, <2>3, <2>4 DEF Registered, Used
<1>2. ASSUME NEW u \in User, get_last_online_time(u)
      PROVE  \A v \in map_index' : Registered(v)'
  <2>1. Used(conection_ids[u]) = {}
    BY <1>2 DEF get_last_online_time, Registered
  <2>2. \A v \in User \ {u} : last_online_time'[v] = last_online_time[v]
    BY <1>2 DEF get_last_online_time, TypeOK
  <2>3. QED
    BY <1>2, <2>1, <2>2 DEF get_last_online_time, Registered, Used, TypeOK
<1>3. CASE Restart
  BY <1>3 DEF Restart
<1>4. CASE UNCHANGED vars
  BY <1>4 DEF vars, Registered, Used
<1>5. ASSUME NEW u \in User, NEW c \in Conn, un_linkRefused(u, c)
      PROVE  \A v \in map_index' : Registered(v)'
  <2>1. UNCHANGED <<map_index, conection_ids, web_user_id>>
    BY <1>5, RefusedFacts
  <2>2. CASE UNCHANGED <<last_online_time, users_time, user_status>>
    BY <2>1, <2>2 DEF Registered, Used
  <2>3. CASE u \in map_index /\ Used(conection_ids[u]) = {} /\ setOffline_time(u)
    <3>1. \A v \in User \ {u} : /\ last_online_time'[v] = last_online_time[v]
                               /\ user_status'[v] = user_status[v]
      BY <2>3 DEF setOffline_time, TypeOK
    <3>2. QED
      BY <2>1, <2>3, <3>1 DEF Registered, Used, TypeOK
  <2>4. QED
    BY <1>5, <2>2, <2>3, RefusedFacts
<1>6. QED
  BY <1>1, <1>2, <1>3, <1>4, <1>5

LEMMA RegisteredStep ==
  TypeOK /\ RegisteredIsOnline /\ [Next]_vars => RegisteredIsOnline'
<1> SUFFICES ASSUME TypeOK, RegisteredIsOnline, [Next]_vars
             PROVE  RegisteredIsOnline'
  OBVIOUS
<1>1. \A v \in map_index : Registered(v)
  BY RegisteredEach
<1>2. TypeOK'
  BY TypeStep
<1>3. \A v \in map_index' : Registered(v)'
  BY <1>1, RegisteredSetLink, RegisteredUnLink, RegisteredOther DEF Next
<1>4. (TypeOK => (RegisteredIsOnline <=> \A u \in map_index : Registered(u)))'
  BY RegisteredEach, PTL
<1>5. QED
  BY <1>2, <1>3, <1>4

\* Whatever the number of connections, failed statements and restarts: a
\* registered connection is open, authorised as that user and registered
\* once, and its user is neither announced offline nor subject to eviction.
THEOREM RegisteredAreOnline == Spec => []RegisteredIsOnline
<1>1. Init => RegisteredIsOnline
  BY DEF Init, RegisteredIsOnline
<1>2. QED
  BY <1>1, TypeInit, TypeStep, RegisteredStep, PTL DEF Spec

-----------------------------------------------------------------------------
\* At most as many connections as a user's table has slots

Bounded == IsFiniteSet(Conn) /\ Cardinality(Conn) <= MaxConn

-----------------------------------------------------------------------------
\* A slot is free for a connection that is not authorised yet: the slots in use
\* hold different connections, all of them other ones.
LEMMA FreeSlot ==
  ASSUME Bounded, NEW c \in Conn, NEW ids \in [Slot -> Conn \cup {0, NotConnected}],
         \A i \in Used(ids) : /\ ids[i] # c
                              /\ \A j \in Slot : ids[j] = ids[i] => j = i
  PROVE  Used(ids) # Slot
<1> SUFFICES ASSUME Used(ids) = Slot PROVE FALSE
  OBVIOUS
<1>1. ids \in [Slot -> Conn \ {c}]
  BY UserIndexAssumption DEF Used, NotConnected
<1>2. /\ IsFiniteSet(Conn \ {c})
      /\ Cardinality(Conn \ {c}) = Cardinality(Conn) - 1
  BY FS_RemoveElement DEF Bounded
<1>3. IsFiniteSet(Slot) /\ Cardinality(Slot) = MaxConn
  BY FS_Interval, UserIndexAssumption DEF Slot
<1>4. Cardinality(Conn) \in Nat
  BY FS_CardinalityType DEF Bounded
<1>5. Cardinality(Conn \ {c}) < Cardinality(Slot)
  BY <1>2, <1>3, <1>4, UserIndexAssumption DEF Bounded
<1>6. \E x, y \in Slot : x # y /\ ids[x] = ids[y]
  BY <1>1, <1>2, <1>3, <1>5, FS_PigeonHole
<1>7. QED
  BY <1>6

-----------------------------------------------------------------------------
\* Every device is registered, and the last status announced is the truth.

LinkInv ==
  /\ TypeOK
  /\ RegisteredIsOnline
  /\ EveryDeviceRegistered
  /\ StatusTruth

\* A user nobody is linked to is the only kind add_hash throws out.
LEMMA EvictedAreOffline ==
  ASSUME LinkInv, NEW u \in User, u \notin map_index \/ last_online_time[u] # Online
  PROVE  Linked(u) = {}
<1>1. u \in map_index => Registered(u)
  BY RegisteredEach DEF LinkInv
<1>2. ASSUME NEW c \in Linked(u) PROVE FALSE
  <2>1. c \in Conn
    BY DEF Linked
  <2>2. u \in map_index
    BY <1>2 DEF LinkInv, EveryDeviceRegistered
  <2>3. PICK i \in Slot : conection_ids[u][i] = c
    BY <1>2 DEF LinkInv, EveryDeviceRegistered
  <2>4. i \in Used(conection_ids[u])
    BY <2>1, <2>3, UserIndexAssumption DEF Used
  <2>5. QED
    BY <1>1, <2>2, <2>4 DEF Registered
<1>3. QED
  BY <1>2

LEMMA LinkSetLink ==
  ASSUME Bounded, LinkInv, NEW u \in User, NEW c \in Conn, set_link(u, c)
  PROVE  EveryDeviceRegistered' /\ StatusTruth'
<1> DEFINE new == WithId(Ids(u), c)
<1>1. \A v \in map_index : Registered(v)
  BY RegisteredEach DEF LinkInv
<1>2. Ids(u) \in [Slot -> Conn \cup {0, NotConnected}]
  BY IdsType DEF LinkInv
<1>3. \A i \in Used(Ids(u)) :
        /\ u \in map_index
        /\ web_user_id[Ids(u)[i]] = u
        /\ \A j \in Slot : Ids(u)[j] = Ids(u)[i] => j = i
        /\ user_status[u] = "online"
  BY <1>1 DEF Ids, NoSlots, Used, Registered
<1>4. web_user_id[c] = NoUser /\ NoUser # u
  BY UserIndexAssumption DEF set_link
<1>5. Used(Ids(u)) # Slot
  BY <1>2, <1>3, <1>4, FreeSlot
<1>6. PICK k \in Slot \ Used(Ids(u)) :
        new[k] = c /\ \A i \in Slot \ {k} : new[i] = Ids(u)[i]
  BY <1>2, <1>5, WithIdFacts
<1>7. /\ conection_ids' = [conection_ids EXCEPT ![u] = new]
      /\ web_user_id' = [web_user_id EXCEPT ![c] = u]
      /\ map_index' = map_index \cup {u}
  BY DEF set_link, setConection_id
<1>8. /\ Linked(u)' = Linked(u) \cup {c}
      /\ \A v \in User \ {u} : Linked(v)' = Linked(v)
  BY <1>4, <1>7, UserIndexAssumption DEF Linked, LinkInv, TypeOK
<1>9. EveryDeviceRegistered'
  <2>1. ASSUME NEW v \in User, NEW d \in Linked(v)'
        PROVE  v \in map_index' /\ \E i \in Slot : conection_ids'[v][i] = d
    <3>1. CASE v # u
      <4>1. d \in Linked(v)
        BY <1>8, <2>1, <3>1
      <4>2. v \in map_index /\ \E i \in Slot : conection_ids[v][i] = d
        BY <4>1 DEF LinkInv, EveryDeviceRegistered
      <4>3. conection_ids'[v] = conection_ids[v]
        BY <1>7, <3>1 DEF LinkInv, TypeOK
      <4>4. QED
        BY <1>7, <4>2, <4>3
    <3>2. CASE v = u /\ d = c
      BY <1>6, <1>7, <3>2 DEF LinkInv, TypeOK
    <3>3. CASE v = u /\ d # c
      <4>1. d \in Linked(u) /\ d \in Conn
        BY <1>8, <2>1, <3>3 DEF Linked
      <4>2. PICK i \in Slot : u \in map_index /\ conection_ids[u][i] = d
        BY <4>1 DEF LinkInv, EveryDeviceRegistered
      <4>3. i # k
        BY <1>6, <4>1, <4>2, UserIndexAssumption DEF Used, Ids
      <4>4. new[i] = d
        BY <1>6, <4>2, <4>3 DEF Ids
      <4>5. QED
        BY <1>7, <3>3, <4>4 DEF LinkInv, TypeOK
    <3>4. QED
      BY <3>1, <3>2, <3>3
  <2>2. QED
    BY <2>1 DEF EveryDeviceRegistered, Linked
<1>10. user_status'[u] = "online"
  <2>1. CASE Used(Ids(u)) = {}
    BY <2>1 DEF set_link, setConection_id, setOnline_time, LinkInv, TypeOK
  <2>2. CASE Used(Ids(u)) # {}
    BY <2>2, <1>3 DEF set_link, setConection_id
  <2>3. QED
    BY <2>1, <2>2
<1>11. \A v \in User \ {u} : user_status'[v] = user_status[v]
  BY DEF set_link, setConection_id, setOnline_time, LinkInv, TypeOK
<1>12. StatusTruth'
  <2>1. ASSUME NEW v \in User
        PROVE  user_status'[v] = "online" <=> Linked(v)' # {}
    BY <1>8, <1>10, <1>11 DEF LinkInv, StatusTruth
  <2>2. QED
    BY <2>1 DEF StatusTruth, Linked
<1>13. QED
  BY <1>9, <1>12

LEMMA LinkUnLink ==
  ASSUME LinkInv, NEW u \in User, NEW c \in Conn, un_link(u, c)
  PROVE  EveryDeviceRegistered' /\ StatusTruth'
<1> DEFINE new == WithoutId(conection_ids[u], c)
<1>1. c \in Linked(u)
  BY DEF un_link, Linked
<1>2. u \in map_index /\ Registered(u)
  BY <1>1, RegisteredEach DEF LinkInv, EveryDeviceRegistered
<1>3. /\ conection_ids' = [conection_ids EXCEPT ![u] = new]
      /\ web_user_id' = [web_user_id EXCEPT ![c] = NoUser]
      /\ map_index' = map_index
  BY <1>2 DEF un_link, unsetConection_id
<1>4. /\ Linked(u)' = Linked(u) \ {c}
      /\ \A v \in User \ {u} : Linked(v)' = Linked(v)
  BY <1>1, <1>3, UserIndexAssumption DEF Linked, LinkInv, TypeOK
<1>5. /\ conection_ids'[u] = new
      /\ \A v \in User \ {u} : conection_ids'[v] = conection_ids[v]
  BY <1>3 DEF LinkInv, TypeOK
<1>6. conection_ids[u] \in [Slot -> Conn \cup {0, NotConnected}]
  BY DEF LinkInv, TypeOK
<1>7. /\ new \in [Slot -> Conn \cup {0, NotConnected}]
      /\ \A i \in Slot : conection_ids[u][i] # c => new[i] = conection_ids[u][i]
      /\ \A i \in Slot : new[i] > 0 => new[i] = conection_ids[u][i]
  BY <1>6, WithoutIdFacts DEF NotConnected
<1>8. \A d \in Linked(u)' : \E i \in Used(new) : new[i] = d
  <2>1. ASSUME NEW d \in Linked(u)' PROVE \E i \in Used(new) : new[i] = d
    <3>1. d \in Linked(u) /\ d # c
      BY <1>4, <2>1
    <3>2. PICK i \in Slot : conection_ids[u][i] = d
      BY <3>1 DEF LinkInv, EveryDeviceRegistered
    <3>3. new[i] = d /\ d > 0
      BY <1>7, <3>1, <3>2, UserIndexAssumption DEF Linked
    <3>4. QED
      BY <3>3 DEF Used
  <2>2. QED
    BY <2>1
<1>9. EveryDeviceRegistered'
  <2>1. ASSUME NEW v \in User, NEW d \in Linked(v)'
        PROVE  v \in map_index' /\ \E i \in Slot : conection_ids'[v][i] = d
    <3>1. CASE v = u
      BY <1>2, <1>3, <1>5, <1>8, <2>1, <3>1 DEF Used
    <3>2. CASE v # u
      BY <1>3, <1>4, <1>5, <2>1, <3>2 DEF LinkInv, EveryDeviceRegistered
    <3>3. QED
      BY <3>1, <3>2
  <2>2. QED
    BY <2>1 DEF EveryDeviceRegistered, Linked
<1>10. Used(new) # {} => Linked(u)' # {}
  <2>1. ASSUME NEW i \in Used(new) PROVE new[i] \in Linked(u)'
    <3>1. new[i] > 0 /\ new[i] = conection_ids[u][i]
      BY <1>7, <2>1 DEF Used
    <3>2. i \in Used(conection_ids[u]) /\ new[i] \in Conn
      BY <1>7, <2>1, <3>1, UserIndexAssumption DEF Used, NotConnected
    <3>3. web_user_id[new[i]] = u
      BY <1>2, <3>1, <3>2 DEF Registered
    <3>4. new[i] # c
      <4>1. CASE new = conection_ids[u] /\ \A j \in Slot : conection_ids[u][j] # c
        BY <2>1, <4>1 DEF Used
      <4>2. ASSUME NEW k \in Slot, conection_ids[u][k] = c, new[k] = NotConnected,
                   \A j \in Slot \ {k} : new[j] = conection_ids[u][j]
            PROVE  new[i] # c
        <5>1. i # k
          BY <3>1, <4>2 DEF NotConnected
        <5>2. QED
          BY <1>2, <3>1, <3>2, <4>2, <5>1 DEF Registered
      <4>3. QED
        BY <4>1, <4>2, <1>6, WithoutIdFacts
    <3>5. QED
      BY <1>4, <3>2, <3>3, <3>4 DEF Linked
  <2>2. QED
    BY <2>1
<1>11. /\ Used(new) = {} => user_status'[u] = "offline"
       /\ Used(new) # {} => user_status'[u] = user_status[u]
       /\ \A v \in User \ {u} : user_status'[v] = user_status[v]
  BY <1>2 DEF un_link, unsetConection_id, setOffline_time, LinkInv, TypeOK
<1>12. StatusTruth'
  <2>1. user_status'[u] = "online" <=> Linked(u)' # {}
    BY <1>1, <1>8, <1>10, <1>11 DEF LinkInv, StatusTruth
  <2>2. ASSUME NEW v \in User
        PROVE  user_status'[v] = "online" <=> Linked(v)' # {}
    BY <1>4, <1>11, <2>1 DEF LinkInv, StatusTruth
  <2>3. QED
    BY <2>2 DEF StatusTruth, Linked
<1>13. QED
  BY <1>9, <1>12

LEMMA LinkOther ==
  ASSUME LinkInv,
         \/ \E u \in User : add_hash(u) \/ get_last_online_time(u)
         \/ \E u \in User, c \in Conn : un_linkRefused(u, c)
         \/ Restart
         \/ UNCHANGED vars
  PROVE  EveryDeviceRegistered' /\ StatusTruth'
<1>1. ASSUME NEW u \in User, add_hash(u)
      PROVE  EveryDeviceRegistered' /\ StatusTruth'
  <2>1. web_user_id' = web_user_id /\ user_status' = user_status
    BY <1>1 DEF add_hash
  <2>2. Linked(u) = {} /\ \A v \in Evicted : Linked(v) = {}
    BY <1>1, EvictedAreOffline DEF add_hash, Evicted, LinkInv, TypeOK
  <2>3. \A v \in User \ {u} : conection_ids'[v] = conection_ids[v]
    BY <1>1 DEF add_hash, LinkInv, TypeOK
  <2>4. map_index' = (map_index \ Evicted) \cup {u}
    BY <1>1 DEF add_hash
  <2>5. \A v \in User : Linked(v)' = Linked(v)
    BY <2>1 DEF Linked
  <2>6. StatusTruth'
    BY <2>1 DEF LinkInv, StatusTruth, Linked
  <2>7. ASSUME NEW v \in User, NEW d \in Linked(v)
        PROVE  v \in map_index' /\ \E i \in Slot : conection_ids'[v][i] = d
    <3>1. v # u /\ v \notin Evicted
      BY <2>2, <2>7
    <3>2. v \in map_index /\ \E i \in Slot : conection_ids[v][i] = d
      BY <2>7 DEF LinkInv, EveryDeviceRegistered
    <3>3. QED
      BY <2>3, <2>4, <3>1, <3>2
  <2>8. EveryDeviceRegistered'
    BY <2>5, <2>7 DEF EveryDeviceRegistered
  <2>9. QED
    BY <2>6, <2>8
<1>2. ASSUME NEW u \in User, get_last_online_time(u)
      PROVE  EveryDeviceRegistered' /\ StatusTruth'
  BY <1>2 DEF get_last_online_time, LinkInv, EveryDeviceRegistered, StatusTruth, Linked
<1>3. CASE Restart
  <2>1. \A v \in User : Linked(v)' = {}
    BY <1>3, UserIndexAssumption DEF Restart, Linked
  <2>2. \A v \in User : user_status'[v] = "none"
    BY <1>3 DEF Restart
  <2>3. QED
    BY <2>1, <2>2 DEF EveryDeviceRegistered, StatusTruth
<1>4. CASE UNCHANGED vars
  BY <1>4 DEF vars, LinkInv, EveryDeviceRegistered, StatusTruth, Linked
<1>5. ASSUME NEW u \in User, NEW c \in Conn, un_linkRefused(u, c)
      PROVE  EveryDeviceRegistered' /\ StatusTruth'
  <2>1. /\ UNCHANGED <<map_index, conection_ids, web_user_id>>
        /\ \/ UNCHANGED <<last_online_time, users_time, user_status>>
           \/ u \in map_index /\ Used(conection_ids[u]) = {} /\ setOffline_time(u)
    BY <1>5, RefusedFacts, RegisteredEach DEF LinkInv
  <2>2. EveryDeviceRegistered' /\ \A v \in User : Linked(v)' = Linked(v)
    BY <2>1 DEF LinkInv, EveryDeviceRegistered, Linked
  <2>3. CASE UNCHANGED user_status
    BY <2>2, <2>3 DEF LinkInv, StatusTruth
  <2>4. CASE u \in map_index /\ Used(conection_ids[u]) = {} /\ setOffline_time(u)
    <3>1. Linked(u) = {}
      BY <2>4, UserIndexAssumption DEF LinkInv, EveryDeviceRegistered, Used, Linked
    <3>2. /\ user_status'[u] = "offline"
          /\ \A v \in User \ {u} : user_status'[v] = user_status[v]
      BY <2>4 DEF setOffline_time, LinkInv, TypeOK
    <3>3. QED
      BY <2>2, <3>1, <3>2 DEF LinkInv, StatusTruth
  <2>5. QED
    BY <2>1, <2>3, <2>4
<1>6. QED
  BY <1>1, <1>2, <1>3, <1>4, <1>5

LEMMA LinkInit == Init => LinkInv
<1> SUFFICES ASSUME Init PROVE LinkInv
  OBVIOUS
<1>1. \A u \in User : Linked(u) = {}
  BY UserIndexAssumption DEF Init, Linked
<1>2. RegisteredIsOnline /\ EveryDeviceRegistered /\ StatusTruth
  BY <1>1 DEF Init, RegisteredIsOnline, EveryDeviceRegistered, StatusTruth
<1>3. QED
  BY <1>2, TypeInit DEF LinkInv

LEMMA LinkStep == Bounded /\ LinkInv /\ [Next]_vars => LinkInv'
<1> SUFFICES ASSUME Bounded, LinkInv, [Next]_vars PROVE LinkInv'
  OBVIOUS
<1>1. TypeOK' /\ RegisteredIsOnline'
  BY TypeStep, RegisteredStep DEF LinkInv
<1>2. EveryDeviceRegistered' /\ StatusTruth'
  BY LinkSetLink, LinkUnLink, LinkOther DEF Next
<1>3. QED
  BY <1>1, <1>2 DEF LinkInv

\* However many users there are, and whatever is evicted, restarted or fails to
\* be stored: no connection of a user is missing from the table senders read.
THEOREM DevicesRegistered == Bounded => (Spec => []EveryDeviceRegistered)
<1> SUFFICES ASSUME Bounded PROVE Spec => []EveryDeviceRegistered
  OBVIOUS
<1>1. LinkInv /\ [Next]_vars => LinkInv'
  BY LinkStep
<1>2. LinkInv => EveryDeviceRegistered
  BY DEF LinkInv
<1>3. QED
  BY <1>1, <1>2, LinkInit, PTL DEF Spec

\* Under the same assumption the last event in user_status_N is the truth.
THEOREM StatusIsTrue == Bounded => (Spec => []StatusTruth)
<1> SUFFICES ASSUME Bounded PROVE Spec => []StatusTruth
  OBVIOUS
<1>1. LinkInv /\ [Next]_vars => LinkInv'
  BY LinkStep
<1>2. LinkInv => StatusTruth
  BY DEF LinkInv
<1>3. QED
  BY <1>1, <1>2, LinkInit, PTL DEF Spec
-----------------------------------------------------------------------------
\* The time a user was last online, while the process runs and its statements
\* on users_time succeed.

Undisturbed == Bounded /\ ~Restarts /\ ~DbFails

\* An item is marked online exactly while its user has a connection, and the
\* SQL table says online only of a user whose item says it too.  TimeTruth alone
\* is not inductive: what an eviction leaves behind is read back later.
TimeInv ==
  \A u \in User :
    /\ u \in map_index => (last_online_time[u] = Online <=> Linked(u) # {})
    /\ users_time[u] = Online => /\ SaveTime
                                /\ u \in map_index
                                /\ last_online_time[u] = Online

LEMMA TimeSetLink ==
  ASSUME Undisturbed, LinkInv, LinkInv', TimeInv,
         NEW u \in User, NEW c \in Conn, set_link(u, c)
  PROVE  TimeInv'
<1>1. map_index' = map_index \cup {u} /\ web_user_id' = [web_user_id EXCEPT ![c] = u]
  BY DEF set_link
<1>2. \A v \in User \ {u} : Linked(v)' = Linked(v)
  BY <1>1, UserIndexAssumption DEF set_link, Linked, LinkInv, TypeOK
<1>3. c \in Linked(u)'
  BY <1>1 DEF Linked, LinkInv, TypeOK
<1>4. /\ last_online_time'[u] = Online
      /\ users_time'[u] = Online => SaveTime
  <2>1. CASE Used(Ids(u)) = {}
    BY <2>1, <1>1 DEF set_link, setConection_id, setOnline_time, SaveUsersTime,
       TimeInv, Undisturbed, LinkInv, TypeOK
  <2>2. CASE Used(Ids(u)) # {}
    <3>1. u \in map_index /\ Registered(u)
      BY <2>2, RegisteredEach DEF Ids, NoSlots, Used, LinkInv
    <3>2. last_online_time[u] = Online
      BY <2>2, <3>1 DEF Ids, Registered
    <3>3. QED
      BY <2>2, <3>2 DEF set_link, setConection_id, TimeInv
  <2>3. QED
    BY <2>1, <2>2
<1>5. \A v \in User \ {u} : /\ last_online_time'[v] = last_online_time[v]
                           /\ users_time'[v] = users_time[v]
  BY DEF set_link, setConection_id, setOnline_time, SaveUsersTime, LinkInv, TypeOK
<1>6. QED
  BY <1>1, <1>2, <1>3, <1>4, <1>5 DEF TimeInv

LEMMA TimeUnLink ==
  ASSUME Undisturbed, LinkInv, LinkInv', TimeInv,
         NEW u \in User, NEW c \in Conn, un_link(u, c)
  PROVE  TimeInv'
<1> DEFINE new == WithoutId(conection_ids[u], c)
<1>1. u \in map_index /\ c \in Linked(u)
  BY DEF un_link, Linked, LinkInv, EveryDeviceRegistered
<1>2. \A v \in User \ {u} : Linked(v)' = Linked(v)
  BY UserIndexAssumption DEF un_link, Linked, LinkInv, TypeOK
<1>3. map_index' = map_index /\ conection_ids'[u] = new
  BY <1>1 DEF un_link, unsetConection_id, LinkInv, TypeOK
<1>4. last_online_time[u] = Online
  BY <1>1 DEF TimeInv
<1>5. \A v \in User \ {u} : /\ last_online_time'[v] = last_online_time[v]
                           /\ users_time'[v] = users_time[v]
  BY DEF un_link, unsetConection_id, setOffline_time, SaveUsersTime, LinkInv, TypeOK
<1>6. CASE Used(new) = {}
  <2>1. last_online_time'[u] = Left /\ users_time'[u] # Online
    BY <1>1, <1>6 DEF un_link, unsetConection_id, setOffline_time, SaveUsersTime,
       TimeInv, Undisturbed, LinkInv, TypeOK, Left, Online
  <2>2. user_status'[u] = "offline"
    BY <1>1, <1>6 DEF un_link, unsetConection_id, setOffline_time, LinkInv, TypeOK
  <2>3. Linked(u)' = {}
    BY <2>2 DEF LinkInv, StatusTruth, Linked
  <2>4. QED
    BY <1>2, <1>3, <1>5, <2>1, <2>3 DEF TimeInv, Left, Online
<1>7. CASE Used(new) # {}
  <2>1. /\ last_online_time' = last_online_time
        /\ users_time' = users_time
        /\ user_status' = user_status
    BY <1>1, <1>7 DEF un_link, unsetConection_id
  <2>2. user_status[u] = "online"
    BY <1>1 DEF LinkInv, StatusTruth
  <2>3. Linked(u)' # {}
    BY <2>1, <2>2 DEF LinkInv, StatusTruth, Linked
  <2>4. QED
    BY <1>2, <1>3, <1>4, <1>5, <2>1, <2>3 DEF TimeInv
<1>8. QED
  BY <1>6, <1>7

LEMMA TimeOther ==
  ASSUME Undisturbed, LinkInv, TimeInv,
         \/ \E u \in User : add_hash(u) \/ get_last_online_time(u)
         \/ \E u \in User, c \in Conn : un_linkRefused(u, c)
         \/ Restart
         \/ UNCHANGED vars
  PROVE  TimeInv'
<1>1. ASSUME NEW u \in User, add_hash(u) PROVE TimeInv'
  <2>1. /\ map_index' = (map_index \ Evicted) \cup {u}
        /\ users_time' = users_time
        /\ \A v \in User : Linked(v)' = Linked(v)
    BY <1>1 DEF add_hash, Linked
  <2>2. /\ last_online_time'[u] = Unknown
        /\ \A v \in User \ {u} : last_online_time'[v] = last_online_time[v]
    BY <1>1 DEF add_hash, LinkInv, TypeOK
  <2>3. \A v \in Evicted : last_online_time[v] # Online
    BY DEF Evicted
  <2>4. Linked(u) = {} /\ users_time[u] # Online
    BY <1>1, EvictedAreOffline DEF add_hash, TimeInv
  <2>5. QED
    BY <2>1, <2>2, <2>3, <2>4 DEF TimeInv, Unknown, Online
<1>2. ASSUME NEW u \in User, get_last_online_time(u) PROVE TimeInv'
  <2>1. users_time[u] # Online /\ Linked(u) = {}
    BY <1>2 DEF get_last_online_time, TimeInv, Unknown, Online
  <2>2. QED
    BY <1>2, <2>1 DEF get_last_online_time, TimeInv, LinkInv, TypeOK, Linked
<1>3. CASE Restart
  BY <1>3 DEF Restart, Undisturbed
<1>4. CASE UNCHANGED vars
  BY <1>4 DEF vars, TimeInv, Linked
<1>5. ASSUME NEW u \in User, NEW c \in Conn, un_linkRefused(u, c) PROVE TimeInv'
  <2>1. /\ UNCHANGED <<map_index, conection_ids, web_user_id>>
        /\ \/ UNCHANGED <<last_online_time, users_time, user_status>>
           \/ u \in map_index /\ Used(conection_ids[u]) = {} /\ setOffline_time(u)
    BY <1>5, RefusedFacts, RegisteredEach DEF LinkInv
  <2>2. \A v \in User : Linked(v)' = Linked(v)
    BY <2>1 DEF Linked
  <2>3. CASE UNCHANGED <<last_online_time, users_time, user_status>>
    BY <2>1, <2>2, <2>3 DEF TimeInv
  <2>4. CASE u \in map_index /\ Used(conection_ids[u]) = {} /\ setOffline_time(u)
    <3>1. Linked(u) = {}
      BY <2>4, UserIndexAssumption DEF LinkInv, EveryDeviceRegistered, Used, Linked
    <3>2. /\ last_online_time'[u] = Left
          /\ \A v \in User \ {u} : last_online_time'[v] = last_online_time[v]
      BY <2>4 DEF setOffline_time, LinkInv, TypeOK
    <3>3. \A v \in User \ {u} : users_time'[v] = users_time[v]
      BY <2>4 DEF setOffline_time, SaveUsersTime, LinkInv, TypeOK
    <3>4. users_time'[u] # Online
      <4>1. CASE SaveTime
        BY <2>4, <4>1 DEF setOffline_time, SaveUsersTime, Undisturbed, LinkInv, TypeOK
      <4>2. CASE ~SaveTime
        BY <2>4, <4>2 DEF setOffline_time, TimeInv
      <4>3. QED
        BY <4>1, <4>2
    <3>5. QED
      BY <2>1, <2>2, <3>1, <3>2, <3>3, <3>4 DEF TimeInv, Left, Online
  <2>5. QED
    BY <2>1, <2>3, <2>4
<1>6. QED
  BY <1>1, <1>2, <1>3, <1>4, <1>5

LEMMA TimeStep ==
  Undisturbed /\ LinkInv /\ LinkInv' /\ TimeInv /\ [Next]_vars => TimeInv'
BY TimeSetLink, TimeUnLink, TimeOther DEF Next

LEMMA TimeHolds == LinkInv /\ TimeInv => TimeTruth
<1> SUFFICES ASSUME LinkInv, TimeInv, NEW u \in User
             PROVE  Reported(u) = Online <=> Linked(u) # {}
  BY DEF TimeTruth
<1>1. CASE u \in map_index
  BY <1>1 DEF TimeInv, Reported, Unknown, Online
<1>2. CASE u \notin map_index
  BY <1>2, EvictedAreOffline DEF TimeInv, Reported, Unknown, Online
<1>3. QED
  BY <1>1, <1>2

\* While nothing is lost, users_time answers 0 exactly for the users who are
\* online, whether their items are in memory or have been thrown out.
THEOREM TimeIsTrue == Undisturbed => (Spec => []TimeTruth)
<1> SUFFICES ASSUME Undisturbed PROVE Spec => []TimeTruth
  OBVIOUS
<1>1. Init => TimeInv
  BY UserIndexAssumption DEF Init, TimeInv, Linked, Unknown, Online
<1>2. LinkInv /\ [Next]_vars => LinkInv'
  BY LinkStep DEF Undisturbed
<1>3. LinkInv /\ LinkInv' /\ TimeInv /\ [Next]_vars => TimeInv'
  BY TimeStep
<1>4. LinkInv /\ TimeInv => TimeTruth
  BY TimeHolds
<1>5. QED
  BY <1>1, <1>2, <1>3, <1>4, LinkInit, PTL DEF Spec
=============================================================================
