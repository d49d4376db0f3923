-------------------------- MODULE DeliveryProofs --------------------------
(***************************************************************************)
(* What Delivery promises of any number of messages, connections and       *)
(* slots, with handlers that overlap, writes that fail and restarts: each  *)
(* connection is shown a message once, what waited before what is live,    *)
(* and what was live is not kept.  And with one handler at a time: nothing *)
(* waits for a user who is online, and Delivery implements Mailbox.        *)
(***************************************************************************)
EXTENDS Delivery, FiniteSetTheorems, SequenceTheorems, WellFoundedInduction,
        NaturalsInduction, TLAPS

Entry == [msg : Msg, fromQueue : BOOLEAN]

\* A connection is in the table from its login to its end, in one slot.
Linked ==
  /\ \A k \in Slot : slots[k] \in Conn => device[slots[k]] \in {"on", "leaving"}
  /\ \A k, l \in Slot : slots[k] \in Conn /\ slots[k] = slots[l] => k = l

\* Until then it is written what waited, and nothing else.
OnlyQueued ==
  \A c \in Conn :
    /\ device[c] = "new" => got[c] = <<>>
    /\ device[c] \in {"new", "login", "link"} =>
         \A i \in DOMAIN got[c] : got[c][i].fromQueue

\* What it was written from the queue is done with; what it was written live
\* has been sent, and its slot is behind the sender.
Handled ==
  \A c \in Conn : \A i \in DOMAIN got[c] :
    /\ got[c][i].fromQueue => sender[got[c][i].msg] = "done"
    /\ ~got[c][i].fromQueue =>
         /\ isSend[got[c][i].msg]
         /\ \A k \in Slot : slots[k] = c => k < next[got[c][i].msg]

\* What a login still has to write is done with, and new to the connection.
BatchNew ==
  \A c \in Conn : \A i \in DOMAIN batch[c] :
    /\ sender[batch[c][i]] = "done"
    /\ \A j \in DOMAIN batch[c] : batch[c][i] = batch[c][j] => i = j
    /\ \A j \in DOMAIN got[c] : got[c][j].msg # batch[c][i]

\* The history of the queue: what is in it is older than what was stored later.
Stamps ==
  \A a, b \in Msg : <<a, b>> \in earlier =>
    /\ sender[a] = "done" /\ sender[b] = "done"
    /\ a \in Queue /\ b \in Queue => age[a] > age[b]

\* What a login still has to write is in the order of the queue, behind what it
\* has written.
BatchOrder ==
  \A c \in Conn : \A i \in DOMAIN batch[c] :
    /\ \A j \in DOMAIN batch[c] : i < j => <<batch[c][j], batch[c][i]>> \notin earlier
    /\ \A j \in DOMAIN got[c] :
         got[c][j].fromQueue => <<batch[c][i], got[c][j].msg>> \notin earlier

\* Only what nobody was written live is stored.
Stored ==
  \A m \in Msg :
    /\ sender[m] = "save" => ~isSend[m]
    /\ m \in Queue => sender[m] = "done" /\ ~isSend[m]

DeliveryInv ==
  /\ TypeOK
  /\ Linked
  /\ OnlyQueued
  /\ Handled
  /\ BatchNew
  /\ Stored
  /\ Stamps
  /\ BatchOrder
  /\ OncePerConnection
  /\ QueuedBeforeLive

-----------------------------------------------------------------------------
\* Queries and writes

\* What a login reads from the queue is a sequence of stored messages, each
\* once and the oldest first (msg_queue_send).
LEMMA OldestFirstFacts ==
  ASSUME DeliveryAssumption, NEW b \in OldestFirst
  PROVE  /\ b \in Seq(Queue)
         /\ \A i, j \in DOMAIN b : b[i] = b[j] => i = j
         /\ \A i, j \in DOMAIN b : i < j => age[b[i]] >= age[b[j]]
<1>1. IsFiniteSet(Queue)
  BY FS_Subset DEF DeliveryAssumption, Queue
<1>2. Cardinality(Queue) \in Nat
  BY <1>1, FS_CardinalityType
<1>3. PICK t \in SetToSeqs(Queue) :
        /\ b = SubSeq(t, 1, IF Len(t) < Limit THEN Len(t) ELSE Limit)
        /\ \A i, j \in DOMAIN t : i < j => age[t[i]] >= age[t[j]]
  BY DEF OldestFirst
<1>4. /\ t \in [1..Cardinality(Queue) -> Queue]
      /\ \A i, j \in 1..Cardinality(Queue) : i # j => t[i] # t[j]
  BY <1>3 DEF SetToSeqs
<1>5. t \in Seq(Queue) /\ Len(t) = Cardinality(Queue)
  BY <1>2, <1>4
<1> DEFINE n == IF Len(t) < Limit THEN Len(t) ELSE Limit
<1>6. n \in 0..Len(t)
  BY <1>2, <1>5 DEF DeliveryAssumption
<1>7. b = [i \in 1..n |-> t[i]]
  BY <1>3, <1>5, <1>6
<1>8. b \in [1..n -> Queue] /\ n \in Nat
  BY <1>2, <1>4, <1>5, <1>6, <1>7
<1>9. b \in Seq(Queue)
  BY <1>8
<1>10. \A i \in DOMAIN b : i \in DOMAIN t /\ b[i] = t[i]
  BY <1>2, <1>5, <1>6, <1>7
<1>11. \A i, j \in DOMAIN b : i < j => age[b[i]] >= age[b[j]]
  BY <1>3, <1>10
<1>12. \A i, j \in DOMAIN b : b[i] = b[j] => i = j
  BY <1>4, <1>5, <1>10
<1> QED BY <1>9, <1>11, <1>12

\* The entries a connection was written and the messages a login has read.
LEMMA Elements ==
  ASSUME TypeOK, NEW c \in Conn
  PROVE  /\ got[c] \in Seq(Entry) /\ batch[c] \in Seq(Msg)
         /\ DOMAIN got[c] = 1..Len(got[c]) /\ Len(got[c]) \in Nat
         /\ \A i \in DOMAIN got[c] :
              got[c][i] \in Entry /\ got[c][i].msg \in Msg /\ got[c][i].fromQueue \in BOOLEAN
         /\ \A i \in DOMAIN batch[c] : batch[c][i] \in Msg
<1>1. got[c] \in Seq(Entry) /\ batch[c] \in Seq(Msg)
  BY DEF TypeOK, Entry
<1>2. \A i \in DOMAIN got[c] : got[c][i] \in Entry
  BY <1>1
<1>3. \A i \in DOMAIN batch[c] : batch[c][i] \in Msg
  BY <1>1
<1> QED BY <1>1, <1>2, <1>3 DEF Entry

\* A write adds one entry to what one connection was written.
LEMMA WriteFacts ==
  ASSUME got \in [Conn -> Seq(Entry)],
         NEW c \in Conn, NEW e \in Entry, got' = [got EXCEPT ![c] = Append(@, e)],
         NEW n, n = Len(got[c]) + 1
  PROVE  /\ got' \in [Conn -> Seq(Entry)]
         /\ n \in Nat /\ n \in DOMAIN got'[c]
         /\ got'[c][n] = e
         /\ \A d \in Conn : \A i \in DOMAIN got'[d] :
              \/ i \in DOMAIN got[d] /\ got'[d][i] = got[d][i]
              \/ d = c /\ i = n
         /\ \A i \in DOMAIN got[c] : i \in Nat /\ i < n
         /\ \A d \in Conn : \A i \in DOMAIN got[d] : i \in Nat
<1>1. \A d \in Conn : got[d] \in Seq(Entry) /\ DOMAIN got[d] = 1..Len(got[d]) /\ Len(got[d]) \in Nat
  OBVIOUS
<1>2. got'[c] = Append(got[c], e) /\ Append(got[c], e) \in Seq(Entry)
  BY <1>1
<1>3. /\ DOMAIN got'[c] = 1..n /\ n \in Nat
      /\ \A i \in DOMAIN got[c] : got'[c][i] = got[c][i] /\ i \in Nat /\ i < n
      /\ got'[c][n] = e
  BY <1>1, <1>2
<1>4. \A i \in DOMAIN got'[c] : i \in DOMAIN got[c] \/ i = n
  BY <1>1, <1>3
<1>5. \A d \in Conn \ {c} : got'[d] = got[d]
  OBVIOUS
<1>6. got' \in [Conn -> Seq(Entry)]
  BY <1>2
<1>7. n \in DOMAIN got'[c]
  BY <1>3
<1>8. \A d \in Conn : \A i \in DOMAIN got'[d] :
         \/ i \in DOMAIN got[d] /\ got'[d][i] = got[d][i]
         \/ d = c /\ i = n
  BY <1>3, <1>4, <1>5
<1>9. \A d \in Conn : \A i \in DOMAIN got[d] : i \in Nat
  BY <1>1
<1> QED BY <1>3, <1>6, <1>7, <1>8, <1>9

-----------------------------------------------------------------------------
\* The invariant

LEMMA InitDelivery == Init => DeliveryInv
<1> SUFFICES ASSUME Init PROVE DeliveryInv
  OBVIOUS
<1> USE DEF Init
<1>1. TypeOK
  BY DeliveryAssumption DEF TypeOK, DeliveryAssumption, NotQueued, Slot
<1>2. Linked
  BY DeliveryAssumption DEF Linked, DeliveryAssumption
<1>3. OnlyQueued /\ Handled /\ BatchNew /\ OncePerConnection /\ QueuedBeforeLive
  BY DEF OnlyQueued, Handled, BatchNew, OncePerConnection, QueuedBeforeLive
<1>4. Stored /\ Stamps /\ BatchOrder
  BY DEF Stored, Queue, Stamps, BatchOrder
<1> QED BY <1>1, <1>2, <1>3, <1>4 DEF DeliveryInv

\* Rows only leave the table: by age, at a login, or on request.
LEMMA RowsLeave ==
  ASSUME DeliveryInv, age' \in [Msg -> NotQueued..MaxAge],
         \A m \in Msg : age'[m] # NotQueued => age[m] # NotQueued,
         \A a, b \in Queue' : age[a] > age[b] => age'[a] > age'[b],
         UNCHANGED <<sender, next, isSend, device, batch, slots, earlier, got>>
  PROVE  DeliveryInv'
<1> USE DEF DeliveryInv
<1>1. Linked' /\ OnlyQueued' /\ OncePerConnection' /\ QueuedBeforeLive'
  BY DEF Linked, OnlyQueued, OncePerConnection, QueuedBeforeLive
<1>2. Handled' /\ BatchNew'
  BY DEF Handled, BatchNew
<1>3. Stored' /\ Stamps' /\ BatchOrder'
  BY DEF Stored, Queue, Stamps, BatchOrder
<1>4. TypeOK'
  BY DEF TypeOK
<1> QED BY <1>1, <1>2, <1>3, <1>4

\* What a login and the statement that clears the queue leave of it.
LEMMA DeleteQueueFacts ==
  ASSUME DeliveryAssumption, age \in [Msg -> NotQueued..MaxAge]
  PROVE  /\ DeleteQueue \in [Msg -> NotQueued..MaxAge]
         /\ \A m \in Msg : DeleteQueue[m] # NotQueued =>
              age[m] # NotQueued /\ DeleteQueue[m] = age[m]
<1>1. MaxAge \in Nat /\ NotQueued = -1
  BY DEF DeliveryAssumption, NotQueued
<1>2. NotQueued \in NotQueued..MaxAge /\ 0 \in NotQueued..MaxAge
  BY <1>1
<1>3. \A m \in Msg : DeleteQueue[m] = IF age[m] = 0 THEN 0 ELSE NotQueued
  BY DEF DeleteQueue
<1> QED BY <1>1, <1>2, <1>3 DEF DeleteQueue

\* The clock, the interval loop and the statement that clears the queue
\* (sql_delete_from_users_messages, addIntervalRoutine).
LEMMA QueueKeeps ==
  ASSUME DeliveryAssumption, DeliveryInv,
         Tick \/ addIntervalRoutine \/ sql_delete_from_users_messages
  PROVE  DeliveryInv'
<1>1. /\ age \in [Msg -> NotQueued..MaxAge]
      /\ KeepAge \in Nat /\ MaxAge \in Nat
      /\ NotQueued = -1
  BY DEF DeliveryInv, TypeOK, DeliveryAssumption, NotQueued
<1> HIDE DEF NotQueued
<1>2. CASE Tick
  <2>1. /\ age' = [m \in Msg |-> IF age[m] # NotQueued THEN age[m] + 1 ELSE age[m]]
        /\ \A m \in Msg : age[m] # NotQueued => age[m] < MaxAge
    BY <1>2 DEF Tick, Queue
  <2>2. \A m \in Msg : age'[m] \in NotQueued..MaxAge /\ (age'[m] # NotQueued => age[m] # NotQueued)
    BY <1>1, <2>1
  <2>3. age' \in [Msg -> NotQueued..MaxAge]
    BY <2>1, <2>2
  <2>4. \A a, b \in Queue' : age[a] > age[b] => age'[a] > age'[b]
    BY <1>1, <2>1 DEF Queue
  <2> QED BY <1>2, <2>2, <2>3, <2>4, RowsLeave DEF Tick
<1>3. CASE addIntervalRoutine
  <2>1. age' = [m \in Msg |-> IF age[m] > KeepAge THEN NotQueued ELSE age[m]]
    BY <1>3 DEF addIntervalRoutine
  <2>2. \A m \in Msg : age'[m] \in NotQueued..MaxAge /\ (age'[m] # NotQueued => age[m] # NotQueued)
    BY <1>1, <2>1
  <2>3. age' \in [Msg -> NotQueued..MaxAge]
    BY <2>1, <2>2
  <2>4. \A a, b \in Queue' : age[a] > age[b] => age'[a] > age'[b]
    BY <1>1, <2>1 DEF Queue
  <2> QED BY <1>3, <2>2, <2>3, <2>4, RowsLeave DEF addIntervalRoutine
<1>4. CASE sql_delete_from_users_messages
  <2>1. age' = DeleteQueue
    BY <1>4 DEF sql_delete_from_users_messages
  <2>2. \A a, b \in Queue' : age[a] > age[b] => age'[a] > age'[b]
    BY <1>1, <2>1, DeleteQueueFacts DEF Queue
  <2> QED BY <1>1, <1>4, <2>1, <2>2, RowsLeave, DeleteQueueFacts DEF sql_delete_from_users_messages
<1> QED BY <1>2, <1>3, <1>4

\* A handler begins, comes to the end of the table, stores its message
\* (cluster_send_to_user).
LEMMA SenderKeeps ==
  ASSUME DeliveryAssumption, DeliveryInv, NEW m \in Msg,
         Insert(m) \/ Sent(m) \/ users_queue_insert(m)
  PROVE  DeliveryInv'
<1> USE DEF DeliveryInv
<1>1. UNCHANGED <<next, isSend, device, batch, slots, got>>
  BY DEF Insert, Sent, users_queue_insert
<1>2. /\ sender[m] # "done"
      /\ \A k \in Msg : k # m => sender'[k] = sender[k] /\ age'[k] = age[k]
      /\ sender'[m] = "save" => ~isSend[m]
      /\ age'[m] # NotQueued => ~isSend[m] /\ sender'[m] = "done"
  <2>1. CASE Insert(m)
    BY <2>1 DEF Insert, TypeOK, Stored, Queue
  <2>2. CASE Sent(m)
    BY <2>2 DEF Sent, TypeOK, Stored, Queue
  <2>3. CASE users_queue_insert(m)
    BY <2>3 DEF users_queue_insert, queueVars, TypeOK, Stored, Queue
  <2> QED BY <2>1, <2>2, <2>3
<1>3. TypeOK'
  <2>1. 0 \in NotQueued..MaxAge
    BY DEF DeliveryAssumption, NotQueued
  <2>2. CASE Insert(m)
    BY <2>2 DEF Insert, TypeOK
  <2>3. CASE Sent(m)
    BY <2>3 DEF Sent, TypeOK
  <2>4. CASE users_queue_insert(m)
    BY <2>1, <2>4 DEF users_queue_insert, queueVars, Queue, TypeOK
  <2> QED BY <2>2, <2>3, <2>4
<1>4. Linked' /\ OnlyQueued' /\ OncePerConnection'
  BY <1>1 DEF Linked, OnlyQueued, OncePerConnection
<1>5. \A k \in Msg : sender[k] = "done" => sender'[k] = "done"
  BY <1>2
<1>6. Handled' /\ BatchNew'
  BY <1>1, <1>5, Elements DEF Handled, BatchNew
<1>7. Stored'
  BY <1>1, <1>2 DEF Stored, Queue
<1>8. \A a, b \in Msg : <<a, b>> \in earlier' =>
        \/ <<a, b>> \in earlier
        \/ b = m /\ a \in Queue /\ age[a] > 0 /\ age'[m] = 0 /\ sender'[m] = "done"
  BY DEF Insert, Sent, users_queue_insert, queueVars, TypeOK
<1>9. Stamps'
  <2> SUFFICES ASSUME NEW a \in Msg, NEW b \in Msg, <<a, b>> \in earlier'
               PROVE  /\ sender'[a] = "done" /\ sender'[b] = "done"
                      /\ a \in Queue' /\ b \in Queue' => age'[a] > age'[b]
    BY DEF Stamps
  <2>1. CASE <<a, b>> \in earlier
    <3>1. sender[a] = "done" /\ sender[b] = "done"
      BY <2>1 DEF Stamps
    <3>2. a # m /\ b # m
      BY <1>2, <3>1
    <3> QED BY <1>2, <2>1, <3>1, <3>2 DEF Stamps, Queue
  <2>2. CASE b = m /\ a \in Queue /\ age[a] > 0 /\ age'[m] = 0 /\ sender'[m] = "done"
    <3>1. sender[a] = "done" /\ a # m
      BY <1>2, <2>2 DEF Stored
    <3> QED BY <1>2, <2>2, <3>1
  <2> QED BY <1>8, <2>1, <2>2
<1>10. BatchOrder'
  <2>1. ASSUME NEW x \in Msg, NEW y \in Msg, sender[y] = "done", <<x, y>> \notin earlier
        PROVE  <<x, y>> \notin earlier'
    BY <1>2, <1>8, <2>1
  <2>2. \A c \in Conn : \A i \in DOMAIN batch[c] : batch[c][i] \in Msg /\ sender[batch[c][i]] = "done"
    BY Elements DEF BatchNew
  <2>3. \A c \in Conn : \A j \in DOMAIN got[c] : got[c][j].fromQueue =>
          got[c][j].msg \in Msg /\ sender[got[c][j].msg] = "done"
    BY Elements DEF Handled
  <2> QED BY <1>1, <2>1, <2>2, <2>3 DEF BatchOrder
<1>11. QueuedBeforeLive'
  <2>1. ASSUME NEW x \in Msg, NEW y \in Msg, sender[y] = "done", <<x, y>> \notin earlier
        PROVE  <<x, y>> \notin earlier'
    BY <1>2, <1>8, <2>1
  <2>2. \A c \in Conn : \A j \in DOMAIN got[c] :
          /\ got[c][j].msg \in Msg
          /\ got[c][j].fromQueue => sender[got[c][j].msg] = "done"
    BY Elements DEF Handled
  <2> QED BY <1>1, <2>1, <2>2 DEF QueuedBeforeLive
<1> QED BY <1>3, <1>4, <1>6, <1>7, <1>9, <1>10, <1>11

\* The process stops; only what is in the database remains.
LEMMA RestartKeeps ==
  ASSUME DeliveryAssumption, DeliveryInv, Restart
  PROVE  DeliveryInv'
<1> USE DEF DeliveryInv
<1>1. /\ UNCHANGED <<next, isSend, age, earlier, got>>
      /\ \A k \in Slot : slots'[k] = NoConn
      /\ \A m \in Msg : sender'[m] = IF sender[m] \in {"send", "save"} THEN "failed" ELSE sender[m]
      /\ \A c \in Conn : batch'[c] = <<>> /\ device'[c] = IF device[c] = "new" THEN "new" ELSE "off"
  BY DEF Restart
<1>2. NoConn \notin Conn
  BY DEF DeliveryAssumption
<1>3. TypeOK'
  <2>1. sender' \in [Msg -> {"new", "send", "save", "done", "failed"}]
    BY DEF TypeOK, Restart
  <2>2. device' \in [Conn -> {"new", "login", "link", "on", "leaving", "off"}]
    BY DEF TypeOK, Restart
  <2>3. slots' \in [Slot -> Conn \cup {NoConn}]
    BY DEF Restart
  <2>4. batch' \in [Conn -> Seq(Msg)]
    <3>1. <<>> \in Seq(Msg)
      OBVIOUS
    <3> QED BY <3>1 DEF Restart
  <2> QED BY <1>1, <2>1, <2>2, <2>3, <2>4 DEF TypeOK
<1>4. Linked'
  BY <1>1, <1>2 DEF Linked
<1>5. OnlyQueued'
  BY <1>1 DEF OnlyQueued
<1>6. Handled'
  <2>1. \A c \in Conn : \A k \in Slot : slots'[k] # c
    BY <1>1, <1>2
  <2> QED BY <1>1, <2>1, Elements DEF Handled
<1>7. BatchNew'
  BY <1>1 DEF BatchNew
<1>8. Stored' /\ Stamps' /\ BatchOrder'
  BY <1>1 DEF Stored, Queue, Stamps, BatchOrder
<1>9. OncePerConnection' /\ QueuedBeforeLive'
  BY <1>1 DEF OncePerConnection, QueuedBeforeLive
<1> QED BY <1>3, <1>4, <1>5, <1>6, <1>7, <1>8, <1>9

\* A connection leaves the map and then the table (deleteClient,
\* user_index::un_link).
LEMMA LeaveKeeps ==
  ASSUME DeliveryAssumption, DeliveryInv, NEW c \in Conn,
         deleteClientFromMap(c) \/ un_link(c)
  PROVE  DeliveryInv'
<1> USE DEF DeliveryInv
<1>1. UNCHANGED <<sender, next, isSend, batch, age, earlier, got>>
  BY DEF deleteClientFromMap, un_link
<1>2. /\ device'[c] \in {"leaving", "off"}
      /\ \A d \in Conn \ {c} : device'[d] = device[d]
      /\ \A k \in Slot : slots'[k] \in Conn => slots'[k] = slots[k]
      /\ device'[c] = "off" => \A k \in Slot : slots'[k] # c
  BY DEF deleteClientFromMap, un_link, TypeOK, DeliveryAssumption
<1>3. TypeOK'
  BY DEF TypeOK, deleteClientFromMap, un_link
<1>4. Linked'
  BY <1>2 DEF Linked
<1>5. OnlyQueued'
  BY <1>1, <1>2 DEF OnlyQueued
<1>6. Handled'
  BY <1>1, <1>2 DEF Handled
<1>7. BatchNew' /\ Stored' /\ OncePerConnection' /\ QueuedBeforeLive'
  BY <1>1 DEF BatchNew, Stored, Queue, OncePerConnection, QueuedBeforeLive
<1>8. Stamps' /\ BatchOrder'
  BY <1>1 DEF Stamps, Queue, BatchOrder
<1> QED BY <1>3, <1>4, <1>5, <1>6, <1>7, <1>8

\* The sender looks at a slot (local_send_to_user): the connection in it is
\* logged in, and has only this slot.
LEMMA LiveKeeps ==
  ASSUME DeliveryAssumption, DeliveryInv, NEW m \in Msg, local_send_to_user(m)
  PROVE  DeliveryInv'
<1> USE DEF DeliveryInv
<1> DEFINE c == slots[next[m]]
<1>1. /\ sender[m] = "send" /\ next[m] \in Slot /\ next[m] \in Nat
      /\ next' = [next EXCEPT ![m] = @ + 1]
      /\ next' \in [Msg -> 1..MaxConn + 1]
      /\ \A k \in Slot : k \in Nat
      /\ UNCHANGED <<sender, device, batch, slots, age, earlier>>
  BY DEF local_send_to_user, Slot, TypeOK, DeliveryAssumption
<1>2. /\ Linked'
      /\ \A n \in Msg : \A k \in Slot : k < next[n] => k < next'[n]
      /\ next[m] < next'[m]
  BY <1>1 DEF Linked, TypeOK
<1>3. CASE UNCHANGED <<isSend, got>>
  <2>1. TypeOK'
    BY <1>1, <1>3 DEF TypeOK
  <2>2. Handled'
    BY <1>1, <1>2, <1>3, Elements DEF Handled
  <2>3. OnlyQueued' /\ BatchNew' /\ Stored' /\ OncePerConnection' /\ QueuedBeforeLive'
          /\ Stamps' /\ BatchOrder'
    BY <1>1, <1>3
    DEF OnlyQueued, BatchNew, Stored, Queue, OncePerConnection, QueuedBeforeLive, Stamps,
        BatchOrder
  <2> QED BY <1>2, <2>1, <2>2, <2>3
<1>4. CASE /\ c \in Conn /\ Open(c) /\ Write(c, m, FALSE)
           /\ isSend' = [isSend EXCEPT ![m] = TRUE]
  <2> DEFINE n == Len(got[c]) + 1
  <2> HIDE DEF c
  <2>1. device[c] = "on" /\ slots[next[m]] = c /\ \A k \in Slot : slots[k] = c => k = next[m]
    BY <1>1, <1>4 DEF Linked, Open, c
  <2>2. /\ got' \in [Conn -> Seq(Entry)]
        /\ n \in Nat /\ n \in DOMAIN got'[c]
        /\ got'[c][n].msg = m /\ got'[c][n].fromQueue = FALSE
        /\ \A d \in Conn : \A i \in DOMAIN got'[d] :
             \/ i \in DOMAIN got[d] /\ got'[d][i] = got[d][i]
             \/ d = c /\ i = n
        /\ \A i \in DOMAIN got[c] : i \in Nat /\ i < n
        /\ \A d \in Conn : \A i \in DOMAIN got[d] : i \in Nat
    <3> DEFINE e == [msg |-> m, fromQueue |-> FALSE]
    <3>1. e \in Entry /\ e.msg = m /\ e.fromQueue = FALSE
      BY DEF Entry
    <3>2. got \in [Conn -> Seq(Entry)] /\ got' = [got EXCEPT ![c] = Append(@, e)]
      BY <1>4 DEF TypeOK, Entry, Write
    <3> HIDE DEF e
    <3> QED BY <1>4, <3>1, <3>2, WriteFacts
  <2> HIDE DEF n
  <2>3. ASSUME NEW i \in DOMAIN got[c], got[c][i].msg = m PROVE FALSE
    <3>1. CASE got[c][i].fromQueue
      BY <1>1, <1>4, <2>3, <3>1 DEF Handled
    <3>2. CASE ~got[c][i].fromQueue
      <4>1. next[m] < next[m]
        BY <1>1, <1>4, <2>1, <2>3, <3>2 DEF Handled
      <4> QED BY <1>1, <4>1
    <3> QED BY <3>1, <3>2
  <2>4. isSend'[m] /\ \A k \in Msg : isSend[k] => isSend'[k]
    BY <1>4 DEF TypeOK
  <2>5. TypeOK'
    BY <1>1, <1>4, <2>2 DEF TypeOK, Entry
  <2>6. OnlyQueued'
    <3>1. \A d \in Conn : device[d] # "on" => got'[d] = got[d]
      BY <1>4, <2>1 DEF Write, TypeOK
    <3> QED BY <1>1, <3>1 DEF OnlyQueued
  <2>7. Handled'
    <3> SUFFICES ASSUME NEW d \in Conn, NEW i \in DOMAIN got'[d]
                 PROVE  /\ got'[d][i].fromQueue => sender[got'[d][i].msg] = "done"
                        /\ ~got'[d][i].fromQueue =>
                             /\ isSend'[got'[d][i].msg]
                             /\ \A k \in Slot : slots[k] = d => k < next'[got'[d][i].msg]
      BY <1>1 DEF Handled
    <3>1. CASE d = c /\ i = n
      BY <1>2, <2>1, <2>2, <2>4, <3>1
    <3>2. CASE i \in DOMAIN got[d] /\ got'[d][i] = got[d][i]
      BY <1>2, <2>4, <3>2, Elements DEF Handled
    <3> QED BY <2>2, <3>1, <3>2
  <2>8. BatchNew'
    <3> SUFFICES ASSUME NEW d \in Conn, NEW i \in DOMAIN batch[d]
                 PROVE  /\ sender[batch[d][i]] = "done"
                        /\ \A j \in DOMAIN batch[d] : batch[d][i] = batch[d][j] => i = j
                        /\ \A j \in DOMAIN got'[d] : got'[d][j].msg # batch[d][i]
      BY <1>1 DEF BatchNew
    <3>1. sender[batch[d][i]] = "done" /\ batch[d][i] # m
      BY <1>1 DEF BatchNew
    <3>2. \A j \in DOMAIN got'[d] : got'[d][j].msg # batch[d][i]
      BY <2>2, <3>1 DEF BatchNew
    <3> QED BY <3>1, <3>2 DEF BatchNew
  <2>9. Stored'
    <3>1. \A k \in Msg : k # m => isSend'[k] = isSend[k]
      BY <1>4 DEF TypeOK
    <3> QED BY <1>1, <3>1 DEF Stored, Queue
  <2>10. OncePerConnection'
    <3> SUFFICES ASSUME NEW d \in Conn, NEW i \in DOMAIN got'[d], NEW j \in DOMAIN got'[d],
                        got'[d][i].msg = got'[d][j].msg
                 PROVE  i = j
      BY DEF OncePerConnection
    <3>1. CASE d = c /\ (i = n \/ j = n)
      BY <2>2, <2>3, <3>1
    <3>2. CASE ~(d = c /\ (i = n \/ j = n))
      BY <2>2, <3>2 DEF OncePerConnection
    <3> QED BY <3>1, <3>2
  <2>11. QueuedBeforeLive'
    <3> SUFFICES ASSUME NEW d \in Conn, NEW i \in DOMAIN got'[d], NEW j \in DOMAIN got'[d],
                        got'[d][j].fromQueue, i < j
                 PROVE  got'[d][i].fromQueue /\ <<got'[d][j].msg, got'[d][i].msg>> \notin earlier
      BY <1>1 DEF QueuedBeforeLive
    <3>1. j \in DOMAIN got[d] /\ got'[d][j] = got[d][j] /\ ~(d = c /\ i = n)
      BY <2>2
    <3>2. i \in DOMAIN got[d] /\ got'[d][i] = got[d][i]
      BY <2>2, <3>1
    <3> QED BY <3>1, <3>2 DEF QueuedBeforeLive
  <2>12. Stamps'
    BY <1>1 DEF Stamps, Queue
  <2>13. BatchOrder'
    <3> SUFFICES ASSUME NEW d \in Conn, NEW i \in DOMAIN batch[d]
                 PROVE  /\ \A j \in DOMAIN batch[d] : i < j => <<batch[d][j], batch[d][i]>> \notin earlier
                        /\ \A j \in DOMAIN got'[d] : got'[d][j].fromQueue =>
                             <<batch[d][i], got'[d][j].msg>> \notin earlier
      BY <1>1 DEF BatchOrder
    <3>1. ASSUME NEW j \in DOMAIN got'[d], got'[d][j].fromQueue
          PROVE  j \in DOMAIN got[d] /\ got'[d][j] = got[d][j]
      BY <2>2, <3>1
    <3> QED BY <3>1 DEF BatchOrder
  <2> QED BY <1>2, <2>5, <2>6, <2>7, <2>8, <2>9, <2>10, <2>11, <2>12, <2>13
<1> QED BY <1>3, <1>4 DEF local_send_to_user

\* A login reads the queue and clears it.
LEMMA SelectKeeps ==
  ASSUME DeliveryAssumption, DeliveryInv, NEW c \in Conn,
         users_queue_select(c) \/ users_queue_delete(c)
  PROVE  DeliveryInv'
<1> USE DEF DeliveryInv
<1>1. CASE users_queue_select(c) /\ ~UNCHANGED batch
  <2>1. PICK b \in OldestFirst : batch' = [batch EXCEPT ![c] = b]
    BY <1>1 DEF users_queue_select
  <2>2. /\ b \in Seq(Queue) /\ \A i, j \in DOMAIN b : b[i] = b[j] => i = j
        /\ \A i, j \in DOMAIN b : i < j => age[b[i]] >= age[b[j]]
    BY <2>1, OldestFirstFacts
  <2>3. /\ UNCHANGED <<sender, next, isSend, slots, age, earlier, got>>
        /\ device[c] = "new" /\ device' = [device EXCEPT ![c] = "login"]
    BY <1>1 DEF users_queue_select
  <2>4. \A i \in DOMAIN b : b[i] \in Queue
    BY <2>2
  <2>5. b \in Seq(Msg)
    BY <2>2, <2>4 DEF Queue
  <2>6. TypeOK'
    BY <2>1, <2>3, <2>5 DEF TypeOK
  <2>7. Linked' /\ OnlyQueued'
    BY <2>3, SMTT(30) DEF Linked, OnlyQueued, TypeOK
  <2>8. Handled' /\ Stored' /\ OncePerConnection' /\ QueuedBeforeLive'
    BY <2>3 DEF Handled, Stored, Queue, OncePerConnection, QueuedBeforeLive
  <2>9. BatchNew'
    <3>1. got[c] = <<>> /\ \A i \in DOMAIN b : sender[b[i]] = "done"
      BY <2>3, <2>4 DEF OnlyQueued, Stored, Queue
    <3>2. batch'[c] = b /\ \A d \in Conn \ {c} : batch'[d] = batch[d]
      BY <2>1 DEF TypeOK
    <3> QED BY <2>2, <2>3, <3>1, <3>2 DEF BatchNew
  <2>10. Stamps'
    BY <2>3 DEF Stamps, Queue
  <2>11. BatchOrder'
    <3>1. batch'[c] = b /\ got'[c] = <<>> /\ \A d \in Conn \ {c} : batch'[d] = batch[d]
      BY <2>1, <2>3 DEF TypeOK, OnlyQueued
    <3>2. ASSUME NEW i \in DOMAIN b, NEW j \in DOMAIN b, i < j
          PROVE  <<b[j], b[i]>> \notin earlier
      <4>1. b[i] \in Msg /\ b[j] \in Msg /\ age[b[i]] \in Int /\ age[b[j]] \in Int
        BY <2>4, <2>5 DEF TypeOK, NotQueued, DeliveryAssumption, Queue
      <4>2. age[b[i]] >= age[b[j]]
        BY <2>2, <3>2
      <4> QED BY <2>4, <4>1, <4>2 DEF Stamps
    <3>3. ASSUME NEW d \in Conn, NEW i \in DOMAIN batch'[d]
          PROVE  /\ \A j \in DOMAIN batch'[d] : i < j => <<batch'[d][j], batch'[d][i]>> \notin earlier
                 /\ \A j \in DOMAIN got[d] :
                      got[d][j].fromQueue => <<batch'[d][i], got[d][j].msg>> \notin earlier
      <4>1. CASE d = c
        BY <2>3, <3>1, <3>2, <4>1
      <4>2. CASE d # c
        BY <3>1, <4>2 DEF BatchOrder
      <4> QED BY <4>1, <4>2
    <3> QED BY <2>3, <3>3 DEF BatchOrder
  <2> QED BY <2>6, <2>7, <2>8, <2>9, <2>10, <2>11
<1>2. CASE users_queue_delete(c) \/ (users_queue_select(c) /\ UNCHANGED batch)
  <2>1. /\ UNCHANGED <<sender, next, isSend, batch, slots, earlier, got>>
        /\ \/ device[c] = "login" /\ device' = [device EXCEPT ![c] = "link"]
           \/ device[c] = "new" /\ device' = [device EXCEPT ![c] = "login"]
        /\ age' = DeleteQueue \/ age' = age
    BY <1>2 DEF users_queue_delete, users_queue_select
  <2>2. /\ age' \in [Msg -> NotQueued..MaxAge]
        /\ \A m \in Msg : age'[m] # NotQueued => age[m] # NotQueued /\ age'[m] = age[m]
    BY <2>1, DeleteQueueFacts DEF TypeOK
  <2>3. TypeOK'
    BY <2>1, <2>2 DEF TypeOK
  <2>4. Linked' /\ OnlyQueued'
    <3>1. /\ \A d \in Conn : d # c => device'[d] = device[d]
          /\ device[c] \in {"new", "login"} /\ device'[c] \in {"login", "link"}
      BY <2>1 DEF TypeOK
    <3>2. Linked'
      BY <2>1, <3>1 DEF Linked
    <3>3. OnlyQueued'
      BY <2>1, <3>1 DEF OnlyQueued
    <3> QED BY <3>2, <3>3
  <2>5. Handled' /\ BatchNew' /\ OncePerConnection' /\ QueuedBeforeLive'
    BY <2>1 DEF Handled, BatchNew, OncePerConnection, QueuedBeforeLive
  <2>6. Stored' /\ Stamps' /\ BatchOrder'
    BY <2>1, <2>2 DEF Stored, Queue, Stamps, BatchOrder
  <2> QED BY <2>3, <2>4, <2>5, <2>6
<1> QED BY <1>1, <1>2

\* A login writes the next message it has read.
LEMMA FetchKeeps ==
  ASSUME DeliveryAssumption, DeliveryInv, NEW c \in Conn, fetch(c)
  PROVE  DeliveryInv'
<1> USE DEF DeliveryInv
<1> DEFINE b == batch[c]
           m == Head(b)
           n == Len(got[c]) + 1
<1>1. /\ device[c] = "login" /\ b # <<>>
      /\ batch' = [batch EXCEPT ![c] = Tail(b)]
      /\ UNCHANGED <<sender, next, isSend, device, slots, age, earlier>>
  BY DEF fetch
<1>2. /\ b \in Seq(Msg) /\ Len(b) \in Nat \ {0} /\ DOMAIN b = 1..Len(b)
      /\ m = b[1] /\ m \in Msg
      /\ Tail(b) \in Seq(Msg) /\ DOMAIN Tail(b) = 1..(Len(b) - 1)
      /\ \A i \in 1..(Len(b) - 1) : Tail(b)[i] = b[i + 1]
  BY <1>1, Elements
<1>3. /\ batch' \in [Conn -> Seq(Msg)] /\ batch'[c] = Tail(b)
      /\ \A d \in Conn \ {c} : batch'[d] = batch[d]
  BY <1>1, <1>2 DEF TypeOK
<1>4. /\ sender[m] = "done"
      /\ \A i \in DOMAIN Tail(b) :
           sender[Tail(b)[i]] = "done" /\ Tail(b)[i] # m
      /\ \A i, j \in DOMAIN Tail(b) : Tail(b)[i] = Tail(b)[j] => i = j
      /\ \A j \in DOMAIN got[c] : got[c][j].msg # m
      /\ \A i \in DOMAIN Tail(b) : \A j \in DOMAIN got[c] : got[c][j].msg # Tail(b)[i]
      /\ \A i, j \in DOMAIN Tail(b) : i < j => <<Tail(b)[j], Tail(b)[i]>> \notin earlier
      /\ \A i \in DOMAIN Tail(b) : <<Tail(b)[i], m>> \notin earlier
      /\ \A j \in DOMAIN got[c] : got[c][j].fromQueue =>
           /\ <<m, got[c][j].msg>> \notin earlier
           /\ \A i \in DOMAIN Tail(b) : <<Tail(b)[i], got[c][j].msg>> \notin earlier
  <2>1. 1 \in DOMAIN b /\ \A i \in DOMAIN Tail(b) : i + 1 \in DOMAIN b /\ i \in Nat /\ i + 1 # 1
    BY <1>2
  <2> HIDE DEF b, m
  <2>2. sender[m] = "done" /\ \A j \in DOMAIN got[c] : got[c][j].msg # m
    BY <1>2, <2>1 DEF BatchNew, b
  <2>3. \A i \in DOMAIN Tail(b) : sender[Tail(b)[i]] = "done" /\ Tail(b)[i] # m
    BY <1>2, <2>1 DEF BatchNew, b
  <2>4. \A i, j \in DOMAIN Tail(b) : Tail(b)[i] = Tail(b)[j] => i = j
    <3>1. \A i, j \in DOMAIN Tail(b) : Tail(b)[i] = Tail(b)[j] => i + 1 = j + 1
      BY <1>2, <2>1, SMTT(30) DEF BatchNew, b
    <3> QED BY <2>1, <3>1
  <2>5. \A i \in DOMAIN Tail(b) : \A j \in DOMAIN got[c] : got[c][j].msg # Tail(b)[i]
    BY <1>2, <2>1 DEF BatchNew, b
  <2>6. \A i, j \in DOMAIN Tail(b) : i < j => <<Tail(b)[j], Tail(b)[i]>> \notin earlier
    <3>1. \A i, j \in DOMAIN Tail(b) : i < j => i + 1 < j + 1
      BY <2>1
    <3> QED BY <1>2, <2>1, <3>1, SMTT(30) DEF BatchOrder, b
  <2>7. \A i \in DOMAIN Tail(b) : <<Tail(b)[i], m>> \notin earlier
    <3>1. \A i \in DOMAIN Tail(b) : 1 < i + 1
      BY <1>2
    <3> QED BY <1>2, <2>1, <3>1 DEF BatchOrder, b
  <2>8. ASSUME NEW j \in DOMAIN got[c], got[c][j].fromQueue
        PROVE  /\ <<m, got[c][j].msg>> \notin earlier
               /\ \A i \in DOMAIN Tail(b) : <<Tail(b)[i], got[c][j].msg>> \notin earlier
    BY <1>2, <2>1, <2>8 DEF BatchOrder, b
  <2> QED BY <2>2, <2>3, <2>4, <2>5, <2>6, <2>7, <2>8
<1> HIDE DEF b, m, n
<1>5. Linked' /\ Stored' /\ Stamps'
  BY <1>1 DEF Linked, Stored, Queue, Stamps
<1>6. CASE UNCHANGED got
  <2>1. TypeOK'
    BY <1>1, <1>3, <1>6 DEF TypeOK
  <2>2. OnlyQueued' /\ Handled' /\ OncePerConnection' /\ QueuedBeforeLive'
    BY <1>1, <1>6 DEF OnlyQueued, Handled, OncePerConnection, QueuedBeforeLive
  <2>3. BatchNew'
    BY <1>1, <1>3, <1>4, <1>6 DEF BatchNew
  <2>4. BatchOrder'
    BY <1>1, <1>3, <1>4, <1>6 DEF BatchOrder
  <2> QED BY <1>5, <2>1, <2>2, <2>3, <2>4
<1>7. CASE Write(c, m, TRUE)
  <2>1. /\ got' \in [Conn -> Seq(Entry)]
        /\ n \in Nat /\ n \in DOMAIN got'[c]
        /\ got'[c][n].msg = m /\ got'[c][n].fromQueue = TRUE
        /\ \A d \in Conn : \A i \in DOMAIN got'[d] :
             \/ i \in DOMAIN got[d] /\ got'[d][i] = got[d][i]
             \/ d = c /\ i = n
        /\ \A i \in DOMAIN got[c] : i \in Nat /\ i < n
    <3> DEFINE e == [msg |-> m, fromQueue |-> TRUE]
    <3>1. e \in Entry /\ e.msg = m /\ e.fromQueue = TRUE
      BY <1>2 DEF Entry
    <3>2. got \in [Conn -> Seq(Entry)] /\ got' = [got EXCEPT ![c] = Append(@, e)]
      BY <1>7 DEF TypeOK, Entry, Write
    <3>3. n = Len(got[c]) + 1
      BY DEF n
    <3> HIDE DEF e
    <3> QED BY <3>1, <3>2, <3>3, WriteFacts
  <2>2. TypeOK'
    BY <1>1, <1>3, <2>1 DEF TypeOK, Entry
  <2>3. \A i \in DOMAIN got'[c] : got'[c][i].fromQueue
    BY <1>1, <2>1 DEF OnlyQueued
  <2>4. OnlyQueued'
    <3>1. \A d \in Conn \ {c} : got'[d] = got[d]
      BY <1>7 DEF Write, TypeOK
    <3> QED BY <1>1, <2>3, <3>1 DEF OnlyQueued
  <2>5. Handled'
    BY <1>1, <1>4, <2>1, <2>3 DEF Handled
  <2>6. BatchNew'
    <3> SUFFICES ASSUME NEW d \in Conn, NEW i \in DOMAIN batch'[d]
                 PROVE  /\ sender[batch'[d][i]] = "done"
                        /\ \A j \in DOMAIN batch'[d] : batch'[d][i] = batch'[d][j] => i = j
                        /\ \A j \in DOMAIN got'[d] : got'[d][j].msg # batch'[d][i]
      BY <1>1 DEF BatchNew
    <3>1. CASE d = c
      <4>1. batch'[d] = Tail(b)
        BY <1>3, <3>1
      <4>2. \A j \in DOMAIN got'[d] : got'[d][j].msg # Tail(b)[i]
        BY <1>4, <2>1, <3>1, <4>1, SMTT(30)
      <4> QED BY <1>4, <4>1, <4>2
    <3>2. CASE d # c
      <4>1. batch'[d] = batch[d] /\ got'[d] = got[d]
        BY <1>3, <1>7, <3>2 DEF Write, TypeOK
      <4> QED BY <4>1 DEF BatchNew
    <3> QED BY <3>1, <3>2
  <2>7. OncePerConnection'
    <3> SUFFICES ASSUME NEW d \in Conn, NEW i \in DOMAIN got'[d], NEW j \in DOMAIN got'[d],
                        got'[d][i].msg = got'[d][j].msg
                 PROVE  i = j
      BY DEF OncePerConnection
    <3>1. CASE d = c /\ (i = n \/ j = n)
      BY <1>4, <2>1, <3>1
    <3>2. CASE ~(d = c /\ (i = n \/ j = n))
      BY <2>1, <3>2 DEF OncePerConnection
    <3> QED BY <3>1, <3>2
  <2>8. QueuedBeforeLive'
    <3> SUFFICES ASSUME NEW d \in Conn, NEW i \in DOMAIN got'[d], NEW j \in DOMAIN got'[d],
                        got'[d][j].fromQueue, i < j
                 PROVE  got'[d][i].fromQueue /\ <<got'[d][j].msg, got'[d][i].msg>> \notin earlier
      BY <1>1 DEF QueuedBeforeLive
    <3>1. CASE d = c /\ j = n
      <4>1. i \in DOMAIN got[c] /\ got'[c][i] = got[c][i]
        BY <2>1, <3>1
      <4> QED BY <1>4, <2>1, <2>3, <3>1, <4>1
    <3>2. CASE ~(d = c /\ j = n)
      <4>1. j \in DOMAIN got[d] /\ got'[d][j] = got[d][j] /\ ~(d = c /\ i = n)
        BY <2>1, <3>2
      <4>2. i \in DOMAIN got[d] /\ got'[d][i] = got[d][i]
        BY <2>1, <4>1
      <4> QED BY <4>1, <4>2 DEF QueuedBeforeLive
    <3> QED BY <3>1, <3>2
  <2>9. BatchOrder'
    <3> SUFFICES ASSUME NEW d \in Conn, NEW i \in DOMAIN batch'[d]
                 PROVE  /\ \A j \in DOMAIN batch'[d] :
                             i < j => <<batch'[d][j], batch'[d][i]>> \notin earlier
                        /\ \A j \in DOMAIN got'[d] : got'[d][j].fromQueue =>
                             <<batch'[d][i], got'[d][j].msg>> \notin earlier
      BY <1>1 DEF BatchOrder
    <3>1. CASE d = c
      <4>1. batch'[d] = Tail(b)
        BY <1>3, <3>1
      <4>2. ASSUME NEW j \in DOMAIN got'[d], got'[d][j].fromQueue
            PROVE  <<Tail(b)[i], got'[d][j].msg>> \notin earlier
        <5>1. CASE j = n
          BY <1>4, <2>1, <3>1, <4>1, <5>1
        <5>2. CASE j # n
          BY <1>4, <2>1, <3>1, <4>1, <4>2, <5>2
        <5> QED BY <5>1, <5>2
      <4> QED BY <1>4, <4>1, <4>2
    <3>2. CASE d # c
      <4>1. batch'[d] = batch[d] /\ got'[d] = got[d]
        BY <1>3, <1>7, <3>2 DEF Write, TypeOK
      <4> QED BY <4>1 DEF BatchOrder
    <3> QED BY <3>1, <3>2
  <2> QED BY <1>5, <2>2, <2>4, <2>5, <2>6, <2>7, <2>8, <2>9
<1> QED BY <1>6, <1>7 DEF fetch, b, m

\* A login is over: the connection, in no slot before, takes one
\* (user_index::set_link).
LEMMA LinkKeeps ==
  ASSUME DeliveryAssumption, DeliveryInv, NEW c \in Conn, set_link(c)
  PROVE  DeliveryInv'
<1> USE DEF DeliveryInv
<1> DEFINE free == CHOOSE i \in FreeSlots : \A j \in FreeSlots : i <= j
<1>1. /\ device[c] = "link" /\ device' = [device EXCEPT ![c] = "on"]
      /\ slots' = slots \/ slots' = [slots EXCEPT ![free] = c]
      /\ UNCHANGED <<sender, next, isSend, batch, age, earlier, got>>
  BY DEF set_link
<1> HIDE DEF free
<1>2. /\ \A k \in Slot : slots[k] # c
      /\ \A k \in Slot : slots'[k] = slots[k] \/ (k = free /\ slots'[k] = c)
      /\ device'[c] = "on" /\ \A d \in Conn \ {c} : device'[d] = device[d]
  BY <1>1 DEF Linked, TypeOK
<1>3. TypeOK'
  BY <1>1 DEF TypeOK
<1>4. Linked'
  <2>1. \A k \in Slot : slots'[k] \in Conn => device'[slots'[k]] \in {"on", "leaving"}
    BY <1>2 DEF Linked
  <2>2. \A k, l \in Slot : slots'[k] \in Conn /\ slots'[k] = slots'[l] => k = l
    BY <1>2 DEF Linked
  <2> QED BY <2>1, <2>2 DEF Linked
<1>5. OnlyQueued'
  BY <1>1, <1>2 DEF OnlyQueued
<1>6. Handled'
  <2>1. \A i \in DOMAIN got[c] : got[c][i].fromQueue
    BY <1>1 DEF OnlyQueued
  <2> QED BY <1>1, <1>2, <2>1 DEF Handled
<1>7. BatchNew' /\ Stored' /\ OncePerConnection' /\ QueuedBeforeLive'
  BY <1>1 DEF BatchNew, Stored, Queue, OncePerConnection, QueuedBeforeLive
<1>8. Stamps' /\ BatchOrder'
  BY <1>1 DEF Stamps, Queue, BatchOrder
<1> QED BY <1>3, <1>4, <1>5, <1>6, <1>7, <1>8

LEMMA NextDelivery ==
  ASSUME DeliveryAssumption, DeliveryInv, [Next]_vars
  PROVE  DeliveryInv'
<1>1. CASE \E m \in Msg : Insert(m) \/ Send(m)
  BY <1>1, DeliveryAssumption, SenderKeeps, LiveKeeps DEF Send
<1>2. CASE \E c \in Conn :
        users_queue_select(c) \/ Login(c) \/ deleteClientFromMap(c) \/ un_link(c)
  BY <1>2, SelectKeeps, FetchKeeps, LinkKeeps, LeaveKeeps DEF Login
<1>3. CASE Tick \/ addIntervalRoutine \/ sql_delete_from_users_messages
  BY <1>3, QueueKeeps
<1>4. CASE Restart
  BY <1>4, RestartKeeps
<1>5. CASE UNCHANGED vars
  BY <1>5, RowsLeave DEF vars, DeliveryInv, TypeOK, Queue
<1> QED BY <1>1, <1>2, <1>3, <1>4, <1>5 DEF Next

LEMMA DeliveryInvariant == Spec => []DeliveryInv
<1>1. Init => DeliveryInv
  BY InitDelivery
<1>2. DeliveryInv /\ [Next]_vars => DeliveryInv'
  BY DeliveryAssumption, NextDelivery
<1> QED BY <1>1, <1>2, PTL DEF Spec

-----------------------------------------------------------------------------
\* What the project's runs check on small instances

\* Every variable keeps its type: the sender's loop and set_link stay within
\* the MAX_CONECTION_ON_USER_ID slots, however many connections a user opens.
THEOREM DeliveryTypes == Spec => []TypeOK
<1>1. DeliveryInv => TypeOK
  BY DEF DeliveryInv
<1> QED BY <1>1, DeliveryInvariant, PTL

\* No connection is given a message twice: the sender's pass over the slots
\* (local_send_to_user) meets each connection once, and does not meet one that
\* is still reading the queue, since web_socket_request links it afterwards.
THEOREM ShownOnce == Spec => []OncePerConnection
<1>1. DeliveryInv => OncePerConnection
  BY DEF DeliveryInv
<1> QED BY <1>1, DeliveryInvariant, PTL

\* What waited is written before what is live: web_socket_request gives the
\* connection its queue before set_link puts it where senders look.  And what
\* was stored in an earlier second is written first, though writes and
\* statements fail: msg_queue_send reads the queue by time.
THEOREM QueueFirst == Spec => []QueuedBeforeLive
<1>1. DeliveryInv => QueuedBeforeLive
  BY DEF DeliveryInv
<1> QED BY <1>1, DeliveryInvariant, PTL

\* A message some device was written live is not in users_messages, whichever
\* slots were empty, closed or refused the write after that one
\* (cluster_send_to_user stores only when isSend is 0).
THEOREM LiveIsNotKept == Spec => []LiveNotQueued
<1>1. DeliveryInv => LiveNotQueued
  <2> SUFFICES ASSUME DeliveryInv, NEW m \in Queue, NEW c \in Conn, NEW i \in DOMAIN got[c],
                      got[c][i] = [msg |-> m, fromQueue |-> FALSE]
               PROVE  FALSE
    BY DEF LiveNotQueued
  <2>1. m \in Msg /\ ~isSend[m]
    BY DEF DeliveryInv, Stored, Queue
  <2>2. isSend[m]
    BY DEF DeliveryInv, Handled
  <2> QED BY <2>1, <2>2
<1> QED BY <1>1, DeliveryInvariant, PTL

-----------------------------------------------------------------------------
\* One handler at a time, writes to open connections and statements that do not
\* fail

Serial == ~Overlap /\ ~WriteFails /\ ~DbFails

\* A login reads the whole queue; every connection finds a slot.
QueueFits == Cardinality(Msg) <= Limit
ConnsFit == IsFiniteSet(Conn) /\ Cardinality(Conn) <= MaxConn

Busy(m) == sender[m] \in {"send", "save"}
Moving(c) == device[c] \in {"login", "link", "leaving"}

OneHandler ==
  /\ \A m, n \in Msg : Busy(m) /\ Busy(n) => m = n
  /\ \A c, d \in Conn : Moving(c) /\ Moving(d) => c = d
  /\ \A m \in Msg, c \in Conn : ~(Busy(m) /\ Moving(c))

\* A sender that has written to nobody has passed empty slots only.
Passed ==
  \A m \in Msg :
    /\ isSend[m] => Received(m)
    /\ sender[m] = "new" => ~isSend[m] /\ next[m] = 1
    /\ Busy(m) /\ ~isSend[m] => \A k \in Slot : k < next[m] => slots[k] \notin Conn
    /\ sender[m] = "save" => next[m] \notin Slot

\* What waits unseen is in the hands of the login that has read it.
InHand(m, c) == \E i \in DOMAIN batch[c] : batch[c][i] = m

Reads ==
  \A c \in Conn :
    /\ device[c] # "login" => batch[c] = <<>>
    /\ device[c] = "login" => \A m \in Queue : Received(m) \/ InHand(m, c)
    /\ device[c] = "link" => \A m \in Queue : Received(m)

SerialInv ==
  /\ DeliveryInv
  /\ OneHandler
  /\ Passed
  /\ Reads

\* A device that is on has a slot, and nothing waits for it.
Placed == \A c \in Conn : device[c] = "on" => \E k \in Slot : slots[k] = c

OnlineInv ==
  /\ SerialInv
  /\ Placed
  /\ WaitingMeansOffline

\* What was received stays received, and a write adds its message.
LEMMA WriteShows ==
  ASSUME TypeOK, NEW c \in Conn, NEW m \in Msg, NEW q \in BOOLEAN, Write(c, m, q),
         NEW n
  PROVE  Received(n)' <=> Received(n) \/ n = m
<1> DEFINE e == [msg |-> m, fromQueue |-> q]
           l == Len(got[c]) + 1
<1>1. e \in Entry /\ e.msg = m
  BY DEF Entry
<1>2. got \in [Conn -> Seq(Entry)] /\ got' = [got EXCEPT ![c] = Append(@, e)]
  BY DEF TypeOK, Entry, Write
<1> HIDE DEF e
<1>3. /\ l \in DOMAIN got'[c] /\ got'[c][l] = e
      /\ \A d \in Conn : \A i \in DOMAIN got'[d] :
           \/ i \in DOMAIN got[d] /\ got'[d][i] = got[d][i]
           \/ d = c /\ i = l
  BY <1>1, <1>2, WriteFacts
<1>4. \A d \in Conn : \A i \in DOMAIN got[d] : i \in DOMAIN got'[d] /\ got'[d][i] = got[d][i]
  <2> SUFFICES ASSUME NEW d \in Conn, NEW i \in DOMAIN got[d]
               PROVE  i \in DOMAIN got'[d] /\ got'[d][i] = got[d][i]
    OBVIOUS
  <2>1. CASE d = c
    <3>1. got'[c] = Append(got[c], e) /\ got[c] \in Seq(Entry)
      BY <1>2
    <3> QED BY <1>1, <2>1, <3>1
  <2>2. CASE d # c
    BY <1>2, <2>2
  <2> QED BY <2>1, <2>2
<1> QED BY <1>1, <1>3, <1>4 DEF Received, Shown

\* Reading the queue when all its messages fit into one select.
LEMMA OldestFirstAll ==
  ASSUME DeliveryAssumption, QueueFits, NEW b \in OldestFirst, NEW m \in Queue
  PROVE  \E i \in DOMAIN b : b[i] = m
<1>1. IsFiniteSet(Queue) /\ Cardinality(Queue) <= Cardinality(Msg)
  BY FS_Subset DEF DeliveryAssumption, Queue
<1>2. Cardinality(Queue) \in Nat /\ Cardinality(Msg) \in Nat
  BY <1>1, FS_CardinalityType DEF DeliveryAssumption
<1>3. PICK t \in SetToSeqs(Queue) : b = SubSeq(t, 1, IF Len(t) < Limit THEN Len(t) ELSE Limit)
  BY DEF OldestFirst
<1> DEFINE n == Cardinality(Queue)
<1>4. t \in [1..n -> Queue] /\ \A i, j \in 1..n : i # j => t[i] # t[j]
  BY <1>3 DEF SetToSeqs
<1>5. t \in Seq(Queue) /\ Len(t) = n
  BY <1>2, <1>4
<1>6. b = t
  BY <1>1, <1>2, <1>3, <1>5 DEF DeliveryAssumption, QueueFits
<1>7. IsFiniteSet(1..n) /\ Cardinality(1..n) = n
  BY <1>2, FS_Interval
<1>8. t \in Injection(1..n, Queue)
  BY <1>4 DEF Injection, IsInjective
<1>9. t \in Surjection(1..n, Queue)
  BY <1>1, <1>7, <1>8, FS_Injection
<1> QED BY <1>4, <1>6, <1>9 DEF Surjection

LEMMA InitSerial == Init => OnlineInv
<1> SUFFICES ASSUME Init PROVE OnlineInv
  OBVIOUS
<1>1. OneHandler /\ Passed /\ Reads /\ Placed /\ WaitingMeansOffline
  BY DEF Init, OneHandler, Passed, Reads, Placed, WaitingMeansOffline, Busy, Moving, Queue
<1> QED BY <1>1, InitDelivery DEF OnlineInv, SerialInv

\* A handler that may start is alone.
LEMMA Alone ==
  ASSUME Serial, MayStart
  PROVE  (\A m \in Msg : ~Busy(m)) /\ (\A c \in Conn : ~Moving(c))
BY DEF Serial, MayStart, Busy, Moving

\* The steps of a sender.
LEMMA SenderSerial ==
  ASSUME DeliveryAssumption, Serial, SerialInv, NEW m \in Msg, Insert(m) \/ Send(m)
  PROVE  OneHandler' /\ Passed' /\ Reads'
<1> USE DEF SerialInv, DeliveryInv
<1>1. /\ UNCHANGED <<device, batch, slots>>
      /\ sender \in [Msg -> {"new", "send", "save", "done", "failed"}]
      /\ isSend \in [Msg -> BOOLEAN] /\ next \in [Msg -> 1..MaxConn + 1] /\ TypeOK
  BY DEF Insert, Send, local_send_to_user, Sent, users_queue_insert, TypeOK
<1>2. CASE Insert(m)
  <2>1. /\ sender[m] = "new" /\ sender' = [sender EXCEPT ![m] = "send"]
        /\ UNCHANGED <<next, isSend, age, got>>
        /\ (\A n \in Msg : ~Busy(n)) /\ (\A c \in Conn : ~Moving(c))
    BY <1>2, Alone DEF Insert
  <2>2. OneHandler'
    BY <1>1, <2>1 DEF OneHandler, Busy, Moving
  <2>3. Passed'
    BY <1>1, <2>1 DEF Passed, Busy, Received, Shown, Slot
  <2>4. Reads'
    BY <1>1, <2>1, SMTT(30) DEF Reads, Queue, Received, Shown, InHand
  <2> QED BY <2>2, <2>3, <2>4
<1>3. CASE ~Insert(m)
  <2>1. /\ Busy(m) /\ \A c \in Conn : ~Moving(c)
        /\ \A n \in Msg : n # m => ~Busy(n) /\ sender'[n] = sender[n]
        /\ sender'[m] \in {"send", "save", "done"}
    BY <1>1, <1>3
    DEF Send, local_send_to_user, Sent, users_queue_insert, Busy, OneHandler
  <2>2. OneHandler'
    BY <1>1, <2>1 DEF OneHandler, Busy, Moving
  <2>3. Reads'
    BY <1>1, <2>1 DEF Reads, Moving, InHand
  <2>4. Passed'
    <3>1. CASE local_send_to_user(m)
      <4> DEFINE c == slots[next[m]]
      <4>1. /\ sender[m] = "send" /\ sender' = sender /\ next[m] \in Slot
            /\ next' = [next EXCEPT ![m] = @ + 1]
        BY <3>1 DEF local_send_to_user
      <4>2. CASE c \in Conn /\ Open(c) /\ Write(c, m, FALSE)
                 /\ isSend' = [isSend EXCEPT ![m] = TRUE]
        <5>1. \A n \in Msg : Received(n)' <=> Received(n) \/ n = m
          BY <1>1, <4>2, WriteShows
        <5> QED BY <1>1, <2>1, <4>1, <4>2, <5>1 DEF Passed, Busy
      <4>3. CASE c \notin Conn /\ UNCHANGED <<isSend, got>>
        <5>1. \A k \in Slot : k \in Nat /\ (k < next'[m] => k < next[m] \/ k = next[m])
          BY <1>1, <4>1 DEF Slot, DeliveryAssumption
        <5> QED
          BY <1>1, <2>1, <4>1, <4>3, <5>1 DEF Passed, Busy, Received, Shown
      <4>4. c \in Conn => Open(c)
        BY <1>1, <2>1, <4>1 DEF Linked, Moving, Open
      <4> QED BY <3>1, <4>2, <4>3, <4>4 DEF local_send_to_user, Serial
    <3>2. CASE Sent(m)
      BY <1>1, <2>1, <3>2 DEF Sent, Passed, Busy, Received, Shown
    <3>3. CASE users_queue_insert(m)
      BY <1>1, <2>1, <3>3 DEF users_queue_insert, Passed, Busy, Received, Shown
    <3> QED BY <1>3, <3>1, <3>2, <3>3 DEF Send
  <2> QED BY <2>2, <2>3, <2>4
<1> QED BY <1>2, <1>3

\* The steps of a login and of the end of a connection.
LEMMA DeviceSerial ==
  ASSUME DeliveryAssumption, Serial, QueueFits, SerialInv, NEW c \in Conn,
         users_queue_select(c) \/ Login(c) \/ deleteClientFromMap(c) \/ un_link(c)
  PROVE  OneHandler' /\ Passed' /\ Reads'
<1> USE DEF SerialInv, DeliveryInv
<1>1. /\ UNCHANGED <<sender, next, isSend>> /\ TypeOK
      /\ device \in [Conn -> {"new", "login", "link", "on", "leaving", "off"}]
      /\ \A d \in Conn : d # c => device'[d] = device[d]
      /\ \A d \in Conn : d # c => ~Moving(d)
      /\ \A m \in Msg : ~Busy(m)
  <2>1. UNCHANGED <<sender, next, isSend>> /\ TypeOK
    BY DEF users_queue_select, Login, fetch, users_queue_delete, set_link,
           deleteClientFromMap, un_link
  <2>2. device \in [Conn -> {"new", "login", "link", "on", "leaving", "off"}]
    BY DEF TypeOK
  <2>3. \A d \in Conn : d # c => device'[d] = device[d]
    BY <2>2 DEF users_queue_select, Login, fetch, users_queue_delete, set_link,
                deleteClientFromMap, un_link
  <2>4. Moving(c) \/ MayStart
    BY DEF users_queue_select, Login, fetch, users_queue_delete, set_link,
           deleteClientFromMap, un_link, Moving
  <2> QED BY <2>1, <2>2, <2>3, <2>4, Alone DEF OneHandler
<1>2. OneHandler'
  BY <1>1 DEF OneHandler, Busy, Moving
<1>3. \A m \in Msg : Received(m) => Received(m)'
  <2>1. CASE fetch(c) /\ Write(c, Head(batch[c]), TRUE)
    <3>1. Head(batch[c]) \in Msg
      BY <2>1, Elements DEF fetch
    <3> QED BY <1>1, <2>1, <3>1, WriteShows
  <2>2. CASE UNCHANGED got
    BY <2>2 DEF Received, Shown
  <2> QED
    BY <2>1, <2>2
    DEF users_queue_select, Login, fetch, users_queue_delete, set_link, deleteClientFromMap,
        un_link
<1>4. Passed'
  BY <1>1, <1>3 DEF Passed, Busy
<1>5. ASSUME NEW d \in Conn, d # c,
             UNCHANGED batch \/ \E b : batch' = [batch EXCEPT ![c] = b]
      PROVE  device'[d] \notin {"login", "link"} /\ batch'[d] = <<>>
  BY <1>1, <1>5 DEF Reads, Moving, TypeOK
<1>6. Reads'
  <2>1. CASE users_queue_select(c)
    <3>1. PICK b \in OldestFirst : batch' = [batch EXCEPT ![c] = b]
      BY <2>1 DEF users_queue_select, Serial
    <3>2. batch'[c] = b /\ device'[c] = "login" /\ UNCHANGED <<age, got>>
      BY <1>1, <2>1, <3>1 DEF users_queue_select, TypeOK
    <3>3. \A m \in Queue : InHand(m, c)'
      BY <3>1, <3>2, OldestFirstAll DEF InHand
    <3> QED BY <1>5, <3>1, <3>2, <3>3 DEF Reads, Queue
  <2>2. CASE fetch(c)
    <3> DEFINE b == batch[c]
    <3>1. /\ device[c] = "login" /\ b # <<>> /\ batch' = [batch EXCEPT ![c] = Tail(b)]
          /\ UNCHANGED <<device, age>> /\ Write(c, Head(b), TRUE)
      BY <2>2 DEF fetch, Serial
    <3>2. b \in Seq(Msg) /\ Head(b) \in Msg
      BY <3>1, Elements
    <3>3. \A m \in Msg : Received(m)' <=> Received(m) \/ m = Head(b)
      BY <1>1, <3>1, <3>2, WriteShows
    <3>4. \A i \in DOMAIN b : b[i] = Head(b) \/ \E j \in DOMAIN Tail(b) : Tail(b)[j] = b[i]
      <4> HIDE DEF b
      <4> SUFFICES ASSUME NEW i \in DOMAIN b
                   PROVE  b[i] = Head(b) \/ \E j \in DOMAIN Tail(b) : Tail(b)[j] = b[i]
        OBVIOUS
      <4>1. CASE i = 1
        BY <3>1, <3>2, <4>1
      <4>2. CASE i # 1
        <5>1. i \in 2..Len(b) /\ Len(Tail(b)) = Len(b) - 1
          BY <3>1, <3>2, <4>2
        <5>2. i - 1 \in DOMAIN Tail(b) /\ Tail(b)[i - 1] = b[i]
          BY <3>1, <3>2, <5>1
        <5> QED BY <5>2
      <4> QED BY <4>1, <4>2
    <3>5. batch'[c] = Tail(b)
      BY <3>1 DEF TypeOK
    <3>6. \A m \in Queue : Received(m)' \/ InHand(m, c)'
      <4> SUFFICES ASSUME NEW m \in Queue PROVE Received(m)' \/ InHand(m, c)'
        OBVIOUS
      <4>1. m \in Msg /\ (Received(m) \/ \E i \in DOMAIN b : b[i] = m)
        BY <3>1 DEF Reads, InHand, Queue
      <4>2. InHand(m, c)' <=> \E j \in DOMAIN Tail(b) : Tail(b)[j] = m
        BY <3>5 DEF InHand
      <4> HIDE DEF b
      <4> QED BY <3>3, <3>4, <4>1, <4>2
    <3> QED BY <1>5, <3>1, <3>6 DEF Reads, Queue
  <2>3. CASE users_queue_delete(c)
    <3>1. /\ device[c] = "login" /\ batch[c] = <<>> /\ device'[c] = "link"
          /\ age' = DeleteQueue /\ UNCHANGED <<batch, got>>
      BY <1>1, <2>3 DEF users_queue_delete, Serial
    <3>2. \A m \in Queue : Received(m)
      BY <3>1 DEF Reads, InHand
    <3>3. \A m \in Queue' : Received(m)'
      BY <1>3, <3>1, <3>2, DeleteQueueFacts DEF Queue, TypeOK
    <3> QED BY <1>5, <3>1, <3>3 DEF Reads
  <2>4. CASE set_link(c) \/ deleteClientFromMap(c) \/ un_link(c)
    <3>1. device'[c] \in {"on", "leaving", "off"} /\ device[c] # "login" /\ UNCHANGED batch
      BY <1>1, <2>4 DEF set_link, deleteClientFromMap, un_link
    <3> QED BY <1>5, <3>1 DEF Reads
  <2> QED BY <2>1, <2>2, <2>3, <2>4 DEF Login
<1> QED BY <1>2, <1>4, <1>6

\* Rows leave the table, and the process stops.
LEMMA OthersSerial ==
  ASSUME DeliveryAssumption, SerialInv,
         Tick \/ addIntervalRoutine \/ sql_delete_from_users_messages \/ Restart
           \/ UNCHANGED vars
  PROVE  OneHandler' /\ Passed' /\ Reads'
<1> USE DEF SerialInv, DeliveryInv
<1>1. UNCHANGED <<next, isSend, got>>
  BY DEF Tick, addIntervalRoutine, sql_delete_from_users_messages, Restart, vars
<1>2. \A m \in Queue' : m \in Queue
  <2>1. CASE Tick
    BY <2>1 DEF Tick, Queue
  <2>2. CASE addIntervalRoutine
    BY <2>2 DEF addIntervalRoutine, Queue
  <2>3. CASE sql_delete_from_users_messages
    BY <2>3, DeleteQueueFacts DEF sql_delete_from_users_messages, Queue, TypeOK
  <2>4. CASE Restart \/ UNCHANGED vars
    BY <2>4 DEF Restart, vars, Queue
  <2> QED BY <2>1, <2>2, <2>3, <2>4
<1>3. CASE Restart
  <2>1. /\ \A m \in Msg : ~Busy(m)' /\ sender'[m] # "save"
        /\ \A m \in Msg : sender'[m] = "new" => sender[m] = "new"
        /\ \A c \in Conn : device'[c] \in {"new", "off"} /\ batch'[c] = <<>>
    BY <1>3 DEF Restart, Busy, TypeOK
  <2> QED
    BY <1>1, <2>1 DEF OneHandler, Passed, Reads, Moving, Received, Shown
<1>4. CASE ~Restart
  <2>1. UNCHANGED <<sender, device, batch, slots>>
    BY <1>4 DEF Tick, addIntervalRoutine, sql_delete_from_users_messages, vars
  <2>2. OneHandler' /\ Passed'
    BY <1>1, <2>1 DEF OneHandler, Passed, Busy, Moving, Received, Shown
  <2>3. Reads'
    BY <1>1, <1>2, <2>1 DEF Reads, Received, Shown, InHand
  <2> QED BY <2>2, <2>3
<1> QED BY <1>3, <1>4

LEMMA NextSerial ==
  ASSUME DeliveryAssumption, Serial, QueueFits, SerialInv, [Next]_vars
  PROVE  SerialInv'
<1>1. DeliveryInv'
  BY NextDelivery DEF SerialInv
<1>2. OneHandler' /\ Passed' /\ Reads'
  BY SenderSerial, DeviceSerial, OthersSerial DEF Next
<1> QED BY <1>1, <1>2 DEF SerialInv

-----------------------------------------------------------------------------
\* Every connection that is on has a slot

\* The first free slot is one.
LEMMA FirstFree ==
  ASSUME DeliveryAssumption, FreeSlots # {},
         NEW f, f = CHOOSE i \in FreeSlots : \A j \in FreeSlots : i <= j
  PROVE  f \in FreeSlots
<1>1. FreeSlots \in SUBSET Nat
  BY DEF FreeSlots, Slot, DeliveryAssumption
<1>2. PICK x \in FreeSlots : \A y \in FreeSlots : ~(<<y, x>> \in OpToRel(<, Nat))
  BY <1>1, WFMin, NatLessThanWellFounded
<1>3. ASSUME NEW y \in FreeSlots PROVE x <= y
  <2>1. y < x => <<y, x>> \in OpToRel(<, Nat)
    BY <1>1, <1>2 DEF OpToRel
  <2>2. ~(y < x)
    BY <1>2, <2>1, Zenon
  <2>3. x \in Nat /\ y \in Nat
    BY <1>1
  <2> QED BY <2>2, <2>3
<1> QED BY <1>2, <1>3

\* While the connections fit there is one for who logs in.
LEMMA SlotLeft ==
  ASSUME DeliveryAssumption, ConnsFit, TypeOK, Linked, NEW c \in Conn,
         \A k \in Slot : slots[k] # c
  PROVE  FreeSlots # {}
<1> SUFFICES ASSUME FreeSlots = {} PROVE FALSE
  OBVIOUS
<1>1. MaxConn \in Nat /\ IsFiniteSet(Conn) /\ Cardinality(Conn) \in Nat
  BY FS_CardinalityType DEF DeliveryAssumption, ConnsFit
<1>2. IsFiniteSet(Conn \ {c}) /\ Cardinality(Conn \ {c}) = Cardinality(Conn) - 1
  BY <1>1, FS_RemoveElement
<1>3. \A k \in Slot : slots[k] \in Conn \ {c}
  BY DEF TypeOK, FreeSlots
<1>4. slots \in Injection(Slot, Conn \ {c})
  <2>1. slots \in [Slot -> Conn \ {c}]
    BY <1>3 DEF TypeOK
  <2> QED BY <1>3, <2>1 DEF Injection, IsInjective, Linked
<1>5. Cardinality(Slot) <= Cardinality(Conn \ {c})
  BY <1>2, <1>4, FS_Injection
<1>6. Cardinality(Slot) = MaxConn
  BY <1>1, FS_Interval DEF Slot
<1> QED BY <1>1, <1>2, <1>5, <1>6 DEF ConnsFit

LEMMA PlacedStep ==
  ASSUME DeliveryAssumption, ConnsFit, DeliveryInv, Placed, [Next]_vars
  PROVE  Placed'
<1> USE DEF DeliveryInv
<1>1. ASSUME NEW c \in Conn, set_link(c) PROVE Placed'
  <2>1. PICK f : f = CHOOSE i \in FreeSlots : \A j \in FreeSlots : i <= j
    OBVIOUS
  <2>2. \A k \in Slot : slots[k] # c
    BY <1>1 DEF set_link, Linked
  <2>3. FreeSlots # {} /\ f \in FreeSlots
    BY <2>1, <2>2, SlotLeft, FirstFree
  <2>4. /\ device' = [device EXCEPT ![c] = "on"] /\ slots' = [slots EXCEPT ![f] = c]
    BY <1>1, <2>1, <2>3 DEF set_link
  <2>5. f \in Slot /\ slots[f] \notin Conn
    BY <2>3 DEF FreeSlots, DeliveryAssumption
  <2> QED BY <2>4, <2>5 DEF Placed, TypeOK
<1>2. ASSUME NEW c \in Conn, users_queue_select(c) \/ fetch(c) \/ users_queue_delete(c)
                               \/ deleteClientFromMap(c)
      PROVE  Placed'
  <2>1. UNCHANGED slots /\ \A d \in Conn : device'[d] = "on" => device[d] = "on"
    BY <1>2 DEF users_queue_select, fetch, users_queue_delete, deleteClientFromMap, TypeOK
  <2> QED BY <2>1 DEF Placed
<1>3. ASSUME NEW c \in Conn, un_link(c) PROVE Placed'
  <2>1. /\ \A d \in Conn : device'[d] = "on" => device[d] = "on" /\ d # c
        /\ \A k \in Slot : slots[k] # c => slots'[k] = slots[k]
    BY <1>3 DEF un_link, TypeOK
  <2> QED BY <2>1 DEF Placed
<1>4. ASSUME NEW m \in Msg, Insert(m) \/ Send(m) PROVE Placed'
  BY <1>4 DEF Insert, Send, local_send_to_user, Sent, users_queue_insert, Placed
<1>5. CASE Restart
  <2>1. \A d \in Conn : device'[d] # "on"
    BY <1>5 DEF Restart
  <2> QED BY <2>1 DEF Placed
<1>6. CASE Tick \/ addIntervalRoutine \/ sql_delete_from_users_messages \/ UNCHANGED vars
  BY <1>6 DEF Tick, addIntervalRoutine, sql_delete_from_users_messages, vars, Placed
<1> QED BY <1>1, <1>2, <1>3, <1>4, <1>5, <1>6 DEF Next, Login

\* A message is stored when nobody is on, and who comes on has read it.
LEMMA OfflineStep ==
  ASSUME DeliveryAssumption, Serial, QueueFits, OnlineInv, [Next]_vars
  PROVE  WaitingMeansOffline'
<1> USE DEF OnlineInv, SerialInv, DeliveryInv
<1> SUFFICES ASSUME NEW m \in Msg, m \in Queue', NEW c \in Conn, device'[c] = "on"
             PROVE  Received(m)'
  BY DEF WaitingMeansOffline, Queue
<1>1. Received(m) => Received(m)'
  <2>1. ASSUME NEW n \in Msg, local_send_to_user(n) PROVE Received(m) => Received(m)'
    BY <2>1, WriteShows DEF local_send_to_user, Received, Shown
  <2>2. ASSUME NEW d \in Conn, fetch(d) PROVE Received(m) => Received(m)'
    <3>1. Head(batch[d]) \in Msg
      BY <2>2, Elements DEF fetch
    <3> QED BY <2>2, <3>1, WriteShows DEF fetch, Received, Shown
  <2>3. CASE UNCHANGED got
    BY <2>3 DEF Received, Shown
  <2> QED
    BY <2>1, <2>2, <2>3
    DEF Next, Insert, Send, Sent, users_queue_insert, users_queue_select, Login,
        users_queue_delete, set_link, deleteClientFromMap, un_link, Tick, addIntervalRoutine,
        sql_delete_from_users_messages, Restart, vars
<1>2. CASE m \in Queue /\ device[c] = "on"
  BY <1>1, <1>2 DEF WaitingMeansOffline
<1>3. CASE m \in Queue /\ device[c] # "on"
  <2>1. device[c] = "link"
    BY <1>3
    DEF Next, Insert, Send, local_send_to_user, Sent, users_queue_insert, users_queue_select,
        Login, fetch, users_queue_delete, set_link, deleteClientFromMap, un_link, Tick,
        addIntervalRoutine, sql_delete_from_users_messages, Restart, vars, TypeOK
  <2> QED BY <1>1, <1>3, <2>1 DEF Reads
<1>4. CASE m \notin Queue
  <2>1. users_queue_insert(m)
    <3>1. ASSUME NEW n \in Msg, Insert(n) \/ Send(n), ~users_queue_insert(m) PROVE FALSE
      <4>1. users_queue_insert(n) => UNCHANGED age \/ age' = [age EXCEPT ![n] = 0]
        BY DEF users_queue_insert, queueVars
      <4>2. users_queue_insert(n) \/ UNCHANGED age
        BY <3>1 DEF Insert, Send, local_send_to_user, Sent
      <4>3. n # m \/ UNCHANGED age
        BY <3>1, <4>2
      <4>4. age'[m] = age[m]
        BY <4>1, <4>2, <4>3 DEF TypeOK
      <4> QED BY <1>4, <4>4 DEF Queue
    <3>2. ASSUME NEW d \in Conn, users_queue_select(d) \/ Login(d) \/ deleteClientFromMap(d)
                                   \/ un_link(d)
          PROVE  FALSE
      <4>1. users_queue_delete(d) => age' = age \/ age' = DeleteQueue
        BY DEF users_queue_delete
      <4>2. users_queue_delete(d) \/ UNCHANGED age
        BY <3>2
        DEF users_queue_select, Login, fetch, set_link, deleteClientFromMap, un_link
      <4> QED BY <1>4, <4>1, <4>2, DeleteQueueFacts DEF Queue, TypeOK
    <3>3. CASE Tick
      BY <1>4, <3>3 DEF Tick, Queue
    <3>4. CASE addIntervalRoutine
      BY <1>4, <3>4 DEF addIntervalRoutine, Queue
    <3>5. CASE sql_delete_from_users_messages
      BY <1>4, <3>5, DeleteQueueFacts DEF sql_delete_from_users_messages, Queue, TypeOK
    <3>6. CASE Restart \/ UNCHANGED vars
      BY <1>4, <3>6 DEF Restart, vars, Queue
    <3> QED BY <3>1, <3>2, <3>3, <3>4, <3>5, <3>6 DEF Next
  <2>2. sender[m] = "save" /\ Busy(m) /\ device[c] = "on" /\ UNCHANGED got
    BY <2>1 DEF users_queue_insert, Busy
  <2>3. CASE isSend[m]
    BY <1>1, <2>3 DEF Passed
  <2>4. CASE ~isSend[m]
    <3>1. PICK k \in Slot : slots[k] = c
      BY <2>2 DEF Placed
    <3>2. next[m] \in 1..MaxConn + 1 /\ next[m] \notin Slot /\ MaxConn \in Nat
      BY <2>2 DEF Passed, TypeOK, DeliveryAssumption
    <3>3. k < next[m]
      BY <3>2 DEF Slot
    <3> QED BY <2>2, <2>4, <3>1, <3>3 DEF Passed
  <2> QED BY <2>3, <2>4
<1> QED BY <1>2, <1>3, <1>4

\* A message waits unseen only while its user has no device online, as long as
\* one handler runs at a time, writes to open connections and the statements on
\* the queue succeed, the waiting messages fit into one select and the connections into the slots.
THEOREM WaitingIsOffline ==
  ASSUME Serial, QueueFits, ConnsFit
  PROVE  Spec => []WaitingMeansOffline
<1>1. Init => OnlineInv
  BY InitSerial
<1>2. OnlineInv /\ [Next]_vars => OnlineInv'
  <2> SUFFICES ASSUME OnlineInv, [Next]_vars PROVE OnlineInv'
    OBVIOUS
  <2>1. SerialInv'
    BY DeliveryAssumption, NextSerial DEF OnlineInv
  <2>2. Placed'
    BY DeliveryAssumption, PlacedStep DEF OnlineInv, SerialInv
  <2>3. WaitingMeansOffline'
    BY DeliveryAssumption, OfflineStep
  <2> QED BY <2>1, <2>2, <2>3 DEF OnlineInv
<1>3. OnlineInv => WaitingMeansOffline
  BY DEF OnlineInv
<1> QED BY <1>1, <1>2, <1>3, PTL DEF Spec

-----------------------------------------------------------------------------
\* The queue keeps its promise

\* Nobody clears the table, and the process goes on.
Undisturbed == Serial /\ QueueFits /\ ~Clears /\ ~Restarts

\* A message that is not sent yet was shown to nobody and waits nowhere.
LEMMA NewIsNowhere ==
  ASSUME SerialInv, NEW m \in Msg, sender[m] # "done"
  PROVE  /\ m \notin Queue /\ ~Reading(m)
         /\ Received(m) => isSend[m]
<1> USE DEF SerialInv, DeliveryInv
<1>1. m \notin Queue
  BY DEF Stored
<1>2. ~Reading(m)
  <2> SUFFICES ASSUME NEW c \in Conn, m \in Range(batch[c]) PROVE FALSE
    BY DEF Reading
  <2>1. PICK i \in DOMAIN batch[c] : batch[c][i] = m
    BY DEF Range
  <2> QED BY <2>1 DEF BatchNew
<1>3. Received(m) => isSend[m]
  BY Elements DEF Received, Shown, Handled
<1> QED BY <1>1, <1>2, <1>3

\* The status of a message, before and after a step.
LEMMA StatusIs ==
  ASSUME NEW m \in Msg,
         sender[m] = "new" => ~Waits(m),
         sender'[m] = "new" => ~Waits(m)'
  PROVE  /\ Received(m) => Status(m) = "seen"
         /\ Waits(m) => Status(m) = "waiting"
         /\ ~Received(m) /\ sender[m] = "new" => Status(m) = "new"
         /\ ~Received(m) /\ ~Waits(m) /\ sender[m] # "new" => Status(m) = "gone"
         /\ Received(m)' => Status(m)' = "seen"
         /\ Waits(m)' => Status(m)' = "waiting"
         /\ ~Received(m)' /\ sender'[m] = "new" => Status(m)' = "new"
         /\ ~Received(m)' /\ ~Waits(m)' /\ sender'[m] # "new" => Status(m)' = "gone"
<1>1. Waits(m) => ~Received(m)
  BY DEF Waits
<1>2. Waits(m)' => ~Received(m)'
  BY DEF Waits
<1>3. /\ Received(m) => Status(m) = "seen"
      /\ Waits(m) => Status(m) = "waiting"
      /\ ~Received(m) /\ sender[m] = "new" => Status(m) = "new"
      /\ ~Received(m) /\ ~Waits(m) /\ sender[m] # "new" => Status(m) = "gone"
  BY <1>1 DEF Status
<1>4. /\ Received(m)' => Status(m)' = "seen"
      /\ Waits(m)' => Status(m)' = "waiting"
      /\ ~Received(m)' /\ sender'[m] = "new" => Status(m)' = "new"
      /\ ~Received(m)' /\ ~Waits(m)' /\ sender'[m] # "new" => Status(m)' = "gone"
  BY <1>2 DEF Status
<1> QED BY <1>3, <1>4

\* A step that changes nothing the queue's promise is about.
LEMMA Unnoticed ==
  ASSUME SerialInv,
         \A n \in Msg : /\ Received(n)' <=> Received(n)
                        /\ Waits(n)' <=> Waits(n)
                        /\ sender'[n] = "new" <=> sender[n] = "new"
                        /\ Old(n)' <=> Old(n)
  PROVE  UNCHANGED Box!vars
<1>1. ASSUME NEW n \in Msg PROVE Status(n)' = Status(n)
  <2>1. (sender[n] = "new" => ~Waits(n)) /\ (sender'[n] = "new" => ~Waits(n)')
    BY NewIsNowhere DEF Waits
  <2>2. Received(n) \/ Waits(n) \/ sender[n] = "new"
          \/ (~Received(n) /\ ~Waits(n) /\ sender[n] # "new")
    OBVIOUS
  <2> QED BY <2>1, <2>2, StatusIs
<1>2. [m \in Msg |-> Status(m)]' = [m \in Msg |-> Status(m)]
  BY <1>1
<1>3. {m \in Msg : Old(m)}' = {m \in Msg : Old(m)}
  OBVIOUS
<1> QED BY <1>2, <1>3 DEF Box!vars

\* A message that waits is shown.
LEMMA Shows ==
  ASSUME SerialInv, NEW m \in Msg, Waits(m), Received(m)',
         \A n \in Msg \ {m} : /\ Received(n)' <=> Received(n)
                              /\ Waits(n)' <=> Waits(n)
                              /\ sender'[n] = "new" <=> sender[n] = "new"
                              /\ Old(n)' <=> Old(n)
  PROVE  Box!Show(m)
<1>1. ASSUME NEW n \in Msg PROVE
        /\ n # m => Status(n)' = Status(n)
        /\ n = m => Status(n)' = "seen" /\ Status(n) = "waiting"
  <2>1. (sender[n] = "new" => ~Waits(n)) /\ (sender'[n] = "new" => ~Waits(n)')
    BY NewIsNowhere DEF Waits
  <2>2. Received(n) \/ Waits(n) \/ sender[n] = "new"
          \/ (~Received(n) /\ ~Waits(n) /\ sender[n] # "new")
    OBVIOUS
  <2> QED BY <2>1, <2>2, StatusIs
<1>2. ~Old(m)'
  BY DEF Old, Waits
<1>3. [n \in Msg |-> Status(n)]' =
        [n \in Msg |-> IF n \in {m} THEN "seen" ELSE [k \in Msg |-> Status(k)][n]]
  BY <1>1
<1>4. {n \in Msg : Old(n)}' = {n \in Msg : Old(n)} \ {m}
  BY <1>2
<1>5. m \in Box!Waiting
  BY <1>1 DEF Box!Waiting
<1> QED BY <1>3, <1>4, <1>5 DEF Box!Show, Box!Move

\* The steps of a sender: it sends the message, shows it, or neither.
LEMMA SenderBox ==
  ASSUME DeliveryAssumption, Undisturbed, SerialInv, NEW m \in Msg, Insert(m) \/ Send(m)
  PROVE  [Box!Next]_Box!vars
<1> USE DEF SerialInv, DeliveryInv
<1>1. /\ UNCHANGED <<device, batch, slots>> /\ TypeOK
      /\ sender[m] # "done" /\ m \notin Queue /\ ~Reading(m)
      /\ (Received(m) => isSend[m]) /\ (\A n \in Msg : Reading(n)' <=> Reading(n))
      /\ \A n \in Msg \ {m} : sender'[n] = sender[n] /\ age'[n] = age[n]
  <2>1. UNCHANGED <<device, batch, slots>> /\ TypeOK /\ sender[m] # "done"
    BY DEF Insert, Send, local_send_to_user, Sent, users_queue_insert
  <2>2. \A n \in Msg \ {m} : sender'[n] = sender[n] /\ age'[n] = age[n]
    BY DEF Insert, Send, local_send_to_user, Sent, users_queue_insert, queueVars, TypeOK
  <2>3. \A n \in Msg : Reading(n)' <=> Reading(n)
    BY <2>1 DEF Reading
  <2> QED BY <2>1, <2>2, <2>3, NewIsNowhere
<1>2. ASSUME UNCHANGED got
      PROVE  \A n \in Msg : Received(n)' <=> Received(n)
  BY <1>2 DEF Received, Shown
<1>3. ASSUME \A n \in Msg \ {m} : Received(n)' <=> Received(n)
      PROVE  \A n \in Msg \ {m} : /\ Received(n)' <=> Received(n)
                                  /\ Waits(n)' <=> Waits(n)
                                  /\ sender'[n] = "new" <=> sender[n] = "new"
                                  /\ Old(n)' <=> Old(n)
  BY <1>1, <1>3 DEF Waits, Old, Queue
<1>4. CASE Insert(m)
  <2>1. /\ sender[m] = "new" /\ sender'[m] = "send" /\ UNCHANGED <<age, got, isSend>>
        /\ ~Received(m) /\ ~Received(m)'
    BY <1>1, <1>2, <1>4 DEF Insert, TypeOK, Passed
  <2>2. ~Waits(m) /\ Waits(m)' /\ ~Old(m) /\ ~Old(m)'
    BY <1>1, <2>1 DEF Waits, Old, Queue
  <2>3. Status(m) = "new" /\ Status(m)' = "waiting"
    BY <2>1, <2>2, StatusIs
  <2>4. ASSUME NEW n \in Msg \ {m} PROVE Status(n)' = Status(n)
    <3>1. (sender[n] = "new" => ~Waits(n)) /\ (sender'[n] = "new" => ~Waits(n)')
      BY <1>2, <1>3, <2>1, NewIsNowhere DEF Waits
    <3>2. Received(n) \/ Waits(n) \/ sender[n] = "new"
            \/ (~Received(n) /\ ~Waits(n) /\ sender[n] # "new")
      OBVIOUS
    <3> QED BY <1>2, <1>3, <2>1, <3>1, <3>2, StatusIs
  <2>5. [n \in Msg |-> Status(n)]' =
          [n \in Msg |-> IF n \in {m} THEN "waiting" ELSE [k \in Msg |-> Status(k)][n]]
    BY <2>3, <2>4
  <2>6. {n \in Msg : Old(n)}' = {n \in Msg : Old(n)}
    BY <1>2, <1>3, <2>1, <2>2
  <2>7. Box!Send(m)
    BY <2>3, <2>5, <2>6 DEF Box!Send, Box!Move
  <2> QED BY <2>7 DEF Box!Next
<1>5. CASE Send(m) /\ UNCHANGED got
  <2>1. sender[m] \in {"send", "save"} /\ sender'[m] # "new"
    BY <1>1, <1>5 DEF Send, local_send_to_user, Sent, users_queue_insert, TypeOK
  <2>2. Received(m)' <=> Received(m)
    BY <1>2, <1>5
  <2>3. ~Received(m) => Waits(m) /\ Waits(m)'
    <3>1. CASE local_send_to_user(m)
      BY <2>1, <2>2, <3>1 DEF local_send_to_user, Waits
    <3>2. CASE Sent(m)
      <4>1. ~Received(m) => ~isSend[m]
        BY DEF Passed
      <4> QED BY <2>1, <2>2, <3>2, <4>1 DEF Sent, Waits, TypeOK
    <3>3. CASE users_queue_insert(m)
      <4>1. m \in Queue'
        BY <1>1, <3>3 DEF users_queue_insert, Queue, NotQueued, TypeOK, Undisturbed, Serial
      <4> QED BY <2>1, <2>2, <4>1 DEF Waits
    <3> QED BY <1>5, <3>1, <3>2, <3>3 DEF Send
  <2>4. ~Old(m)
    BY <1>1 DEF Old
  <2>5. ~Old(m)'
    <3>1. CASE users_queue_insert(m)
      <4>1. age'[m] = 0 /\ KeepAge \in Nat
        BY <3>1 DEF users_queue_insert, TypeOK, DeliveryAssumption, Undisturbed, Serial
      <4> QED BY <1>1, <4>1 DEF Old
    <3>2. CASE ~users_queue_insert(m)
      <4>1. UNCHANGED age
        BY <1>5, <3>2 DEF Send, local_send_to_user, Sent
      <4> QED BY <1>1, <4>1 DEF Old, Queue
    <3> QED BY <3>1, <3>2
  <2>6. UNCHANGED Box!vars
    BY <1>2, <1>3, <1>5, <2>1, <2>2, <2>3, <2>4, <2>5, Unnoticed DEF Waits
  <2> QED BY <2>6
<1>6. CASE local_send_to_user(m) /\ ~UNCHANGED got
  <2>1. /\ sender[m] = "send" /\ sender'[m] = "send" /\ UNCHANGED age
        /\ slots[next[m]] \in Conn /\ Write(slots[next[m]], m, FALSE)
    BY <1>6 DEF local_send_to_user
  <2>2. \A n \in Msg : Received(n)' <=> Received(n) \/ n = m
    BY <1>1, <2>1, WriteShows
  <2>3. CASE Received(m)
    <3>1. ~Waits(m) /\ ~Waits(m)' /\ ~Old(m) /\ ~Old(m)'
      BY <2>2, <2>3 DEF Waits, Old
    <3>2. UNCHANGED Box!vars
      BY <1>3, <2>1, <2>2, <2>3, <3>1, Unnoticed
    <3> QED BY <3>2
  <2>4. CASE ~Received(m)
    <3>1. Waits(m)
      BY <2>1, <2>4 DEF Waits
    <3>2. Box!Show(m)
      BY <1>3, <2>2, <3>1, Shows
    <3> QED BY <3>2 DEF Box!Next
  <2> QED BY <2>3, <2>4
<1> QED BY <1>4, <1>5, <1>6 DEF Send, Sent, users_queue_insert

\* Only the login that runs holds messages it has read.
LEMMA ReadingNow ==
  ASSUME SerialInv, NEW m \in Msg
  PROVE  /\ Reading(m) <=> \E c \in Conn : InHand(m, c)
         /\ \A c \in Conn : InHand(m, c) => device[c] = "login"
  <1>1. Reading(m) <=> \E c \in Conn : InHand(m, c)
    BY DEF Reading, InHand, Range
  <1>2. \A c \in Conn : InHand(m, c) => device[c] = "login"
    BY DEF SerialInv, Reads, InHand
  <1> QED BY <1>1, <1>2

\* The steps of a login and of the end of a connection: a waiting message is
\* shown, or nothing happens to one.
LEMMA DeviceBox ==
  ASSUME DeliveryAssumption, Undisturbed, SerialInv, NEW c \in Conn,
         users_queue_select(c) \/ Login(c) \/ deleteClientFromMap(c) \/ un_link(c)
  PROVE  [Box!Next]_Box!vars
<1> USE DEF SerialInv, DeliveryInv
<1>1. UNCHANGED sender /\ TypeOK
  BY DEF users_queue_select, Login, fetch, users_queue_delete, set_link,
         deleteClientFromMap, un_link
<1>2. ASSUME UNCHANGED got
      PROVE  \A n \in Msg : Received(n)' <=> Received(n)
  BY <1>2 DEF Received, Shown
<1>3. CASE users_queue_select(c)
  <2>1. PICK b \in OldestFirst : batch' = [batch EXCEPT ![c] = b]
    BY <1>3 DEF users_queue_select, Undisturbed, Serial
  <2>2. UNCHANGED <<age, got>> /\ \A d \in Conn : ~Moving(d)
    BY <1>3, Alone DEF users_queue_select, Undisturbed
  <2>3. ASSUME NEW n \in Msg PROVE ~Reading(n) /\ (Reading(n)' => n \in Queue)
    <3>1. ~Reading(n)
      BY <2>2, ReadingNow DEF Moving
    <3>2. Reading(n)' => n \in Range(b)
      BY <2>1, <3>1 DEF Reading, TypeOK
    <3>3. n \in Range(b) => n \in Queue
      BY OldestFirstFacts DEF Range
    <3> QED BY <3>1, <3>2, <3>3
  <2>4. ASSUME NEW n \in Msg PROVE (Waits(n)' <=> Waits(n)) /\ (Old(n)' <=> Old(n))
    BY <1>1, <1>2, <2>2, <2>3 DEF Waits, Old, Queue
  <2>5. UNCHANGED Box!vars
    BY <1>1, <1>2, <2>2, <2>4, Unnoticed
  <2> QED BY <2>5
<1>4. CASE fetch(c)
  <2> DEFINE b == batch[c]
  <2>0. PICK h : h = Head(b)
    OBVIOUS
  <2>1. /\ device[c] = "login" /\ b # <<>> /\ batch' = [batch EXCEPT ![c] = Tail(b)]
        /\ UNCHANGED <<device, age>> /\ Write(c, h, TRUE)
    BY <1>4, <2>0 DEF fetch, Undisturbed, Serial
  <2>2. b \in Seq(Msg) /\ h \in Msg /\ Reading(h)
    <3>1. b \in Seq(Msg) /\ h \in Msg
      BY <2>0, <2>1, Elements
    <3>2. 1 \in DOMAIN b /\ b[1] = h
      BY <2>0, <2>1, <3>1
    <3> QED BY <3>1, <3>2 DEF Reading, Range
  <2>3. \A n \in Msg : Received(n)' <=> Received(n) \/ n = h
    BY <1>1, <2>1, <2>2, WriteShows
  <2>4. Range(Tail(b)) \subseteq Range(b) /\ Range(b) \subseteq Range(Tail(b)) \cup {h}
    <3> HIDE DEF b
    <3>1. /\ Len(Tail(b)) = Len(b) - 1 /\ Len(b) \in Nat \ {0}
          /\ DOMAIN b = 1 .. Len(b) /\ DOMAIN Tail(b) = 1 .. Len(b) - 1
          /\ \A i \in 1 .. Len(b) - 1 : Tail(b)[i] = b[i + 1]
          /\ b[1] = h
      BY <2>0, <2>1, <2>2
    <3>2. ASSUME NEW i \in DOMAIN b PROVE b[i] = h \/ b[i] \in Range(Tail(b))
      <4>1. i = 1 \/ (i - 1 \in DOMAIN Tail(b) /\ Tail(b)[i - 1] = b[i])
        BY <3>1
      <4> QED BY <3>1, <4>1 DEF Range
    <3>3. ASSUME NEW i \in DOMAIN Tail(b) PROVE Tail(b)[i] \in Range(b)
      <4>1. i + 1 \in DOMAIN b /\ Tail(b)[i] = b[i + 1]
        BY <3>1
      <4> QED BY <4>1 DEF Range
    <3> QED BY <3>2, <3>3 DEF Range
  <2>5. \A n \in Msg \ {h} : Reading(n)' <=> Reading(n)
    <3>1. \A d \in Conn : batch'[d] = IF d = c THEN Tail(b) ELSE batch[d]
      BY <2>1 DEF TypeOK
    <3>2. ASSUME NEW n \in Msg \ {h}, NEW d \in Conn
          PROVE  n \in Range(batch'[d]) <=> n \in Range(batch[d])
      BY <2>4, <3>1
    <3> QED BY <3>2 DEF Reading
  <2> HIDE DEF b
  <2>6. ASSUME NEW n \in Msg \ {h}
        PROVE  (Waits(n)' <=> Waits(n)) /\ (Old(n)' <=> Old(n))
    BY <1>1, <2>1, <2>3, <2>5 DEF Waits, Old, Queue
  <2>7. CASE Received(h)
    <3>1. ~Waits(h) /\ ~Waits(h)' /\ ~Old(h) /\ ~Old(h)'
      BY <2>2, <2>3, <2>7 DEF Waits, Old
    <3>2. \A n \in Msg : /\ Received(n)' <=> Received(n)
                         /\ Waits(n)' <=> Waits(n)
                         /\ sender'[n] = "new" <=> sender[n] = "new"
                         /\ Old(n)' <=> Old(n)
      BY <1>1, <2>3, <2>6, <2>7, <3>1
    <3>3. UNCHANGED Box!vars
      BY <3>2, Unnoticed
    <3> QED BY <3>3
  <2>8. CASE ~Received(h)
    <3>1. Waits(h)
      BY <2>2, <2>8 DEF Waits
    <3>2. Box!Show(h)
      BY <1>1, <2>2, <2>3, <2>6, <3>1, Shows
    <3> QED BY <2>2, <3>2 DEF Box!Next
  <2> QED BY <2>7, <2>8
<1>5. CASE users_queue_delete(c)
  <2>1. /\ device[c] = "login" /\ batch[c] = <<>> /\ age' = DeleteQueue
        /\ UNCHANGED <<batch, got>>
    BY <1>5 DEF users_queue_delete, Undisturbed, Serial
  <2>2. \A n \in Queue : Received(n)
    BY <2>1 DEF Reads, InHand
  <2>3. \A n \in Msg : (Reading(n)' <=> Reading(n)) /\ (n \in Queue' => n \in Queue)
    <3>1. \A n \in Msg : Reading(n)' <=> Reading(n)
      BY <2>1 DEF Reading
    <3> QED BY <2>1, <3>1, DeleteQueueFacts DEF Queue, TypeOK
  <2>4. ASSUME NEW n \in Msg PROVE (Waits(n)' <=> Waits(n)) /\ (Old(n)' <=> Old(n))
    BY <1>1, <1>2, <2>1, <2>2, <2>3 DEF Waits, Old
  <2>5. UNCHANGED Box!vars
    BY <1>1, <1>2, <2>1, <2>4, Unnoticed
  <2> QED BY <2>5
<1>6. CASE set_link(c) \/ deleteClientFromMap(c) \/ un_link(c)
  <2>1. UNCHANGED <<batch, age, got>>
    BY <1>6 DEF set_link, deleteClientFromMap, un_link
  <2>2. ASSUME NEW n \in Msg PROVE (Waits(n)' <=> Waits(n)) /\ (Old(n)' <=> Old(n))
    BY <1>1, <1>2, <2>1 DEF Waits, Old, Queue, Reading
  <2>3. UNCHANGED Box!vars
    BY <1>1, <1>2, <2>1, <2>2, Unnoticed
  <2> QED BY <2>3
<1> QED BY <1>3, <1>4, <1>5, <1>6 DEF Login

\* A second passes.
LEMMA TickBox ==
  ASSUME DeliveryAssumption, SerialInv, Tick
  PROVE  [Box!Next]_Box!vars
<1> USE DEF SerialInv, DeliveryInv
<1>1. /\ UNCHANGED <<sender, batch, got>> /\ age \in [Msg -> NotQueued..MaxAge]
      /\ age' = [m \in Msg |-> IF m \in Queue THEN age[m] + 1 ELSE age[m]]
  BY DEF Tick, TypeOK
<1>2. KeepAge \in Nat /\ NotQueued = -1
  BY DEF DeliveryAssumption, NotQueued
<1>3. ASSUME NEW m \in Msg
      PROVE  /\ m \in Queue' <=> m \in Queue
             /\ m \in Queue /\ age[m] > KeepAge => age'[m] > KeepAge
  BY <1>1, <1>2 DEF Queue
<1>4. ASSUME NEW m \in Msg
      PROVE  /\ Received(m)' <=> Received(m)
             /\ Reading(m)' <=> Reading(m)
             /\ Waits(m)' <=> Waits(m)
             /\ Status(m)' = Status(m)
  <2>1. (Received(m)' <=> Received(m)) /\ (Reading(m)' <=> Reading(m))
    BY <1>1 DEF Received, Shown, Reading
  <2>2. Waits(m)' <=> Waits(m)
    BY <1>1, <1>3, <2>1 DEF Waits
  <2>3. (sender[m] = "new" => ~Waits(m)) /\ (sender'[m] = "new" => ~Waits(m)')
    BY <1>1, <2>2, NewIsNowhere DEF Waits
  <2>4. Received(m) \/ Waits(m) \/ sender[m] = "new"
          \/ (~Received(m) /\ ~Waits(m) /\ sender[m] # "new")
    OBVIOUS
  <2> QED BY <1>1, <2>1, <2>2, <2>3, <2>4, StatusIs
<1>5. ASSUME NEW m \in Msg PROVE Old(m) => Old(m)'
  BY <1>3, <1>4 DEF Old
<1>6. PICK S : S = {m \in Msg : Old(m)}'
  OBVIOUS
<1>7. S \in SUBSET Box!Waiting
  <2>1. ASSUME NEW m \in S PROVE m \in Msg /\ Status(m) = "waiting"
    <3>1. m \in Msg /\ Waits(m)
      BY <1>4, <1>6 DEF Old
    <3> QED BY <3>1, NewIsNowhere, <1>1, <1>4, StatusIs DEF Waits
  <2> QED BY <2>1 DEF Box!Waiting
<1>8. {m \in Msg : Old(m)}' = {m \in Msg : Old(m)} \cup S
  BY <1>5, <1>6
<1>9. [m \in Msg |-> Status(m)]' = [m \in Msg |-> Status(m)]
  BY <1>4
<1>10. Box!Age(S)
  BY <1>8, <1>9 DEF Box!Age
<1> QED BY <1>7, <1>10 DEF Box!Next

\* The interval loop throws old rows away: what they hold is lost, unless a
\* login has already read it.
LEMMA ExpireBox ==
  ASSUME DeliveryAssumption, Undisturbed, SerialInv, addIntervalRoutine
  PROVE  [Box!Next]_Box!vars
<1> USE DEF SerialInv, DeliveryInv
<1>1. /\ UNCHANGED <<sender, batch, got>> /\ age \in [Msg -> NotQueued..MaxAge]
      /\ age' = [m \in Msg |-> IF age[m] > KeepAge THEN NotQueued ELSE age[m]]
  BY DEF addIntervalRoutine, TypeOK
<1>2. KeepAge \in Nat /\ NotQueued = -1
  BY DEF DeliveryAssumption, NotQueued
<1>3. ASSUME NEW m \in Msg
      PROVE  /\ m \in Queue' <=> m \in Queue /\ ~(age[m] > KeepAge)
             /\ m \in Queue' => age'[m] = age[m]
             /\ Received(m)' <=> Received(m)
             /\ Reading(m)' <=> Reading(m)
             /\ m \in Queue => sender[m] = "done"
  <2>1. (Received(m)' <=> Received(m)) /\ (Reading(m)' <=> Reading(m))
    BY <1>1 DEF Received, Shown, Reading
  <2>2. /\ m \in Queue' <=> m \in Queue /\ ~(age[m] > KeepAge)
        /\ m \in Queue' => age'[m] = age[m]
    BY <1>1, <1>2 DEF Queue
  <2> QED BY <2>1, <2>2 DEF Stored
<1>4. CASE \E c \in Conn : device[c] = "login"
  <2>1. ASSUME NEW m \in Queue PROVE Received(m) \/ Reading(m)
    <3>1. m \in Msg
      BY DEF Queue
    <3> QED BY <1>4, <3>1, ReadingNow DEF Reads
  <2>2. ASSUME NEW m \in Msg PROVE (Waits(m)' <=> Waits(m)) /\ (Old(m)' <=> Old(m))
    BY <1>1, <1>3, <2>1 DEF Waits, Old
  <2>3. UNCHANGED Box!vars
    BY <1>1, <1>3, <2>2, Unnoticed
  <2> QED BY <2>3
<1>5. CASE \A c \in Conn : device[c] # "login"
  <2>1. \A m \in Msg : ~Reading(m) /\ ~Reading(m)'
    BY <1>3, <1>5, ReadingNow
  <2>2. ASSUME NEW m \in Msg
        PROVE  /\ Old(m) <=> ~Received(m) /\ m \in Queue /\ age[m] > KeepAge
               /\ ~Old(m)'
               /\ Waits(m)' <=> Waits(m) /\ ~Old(m)
    BY <1>1, <1>3, <2>1 DEF Waits, Old
  <2>3. ASSUME NEW m \in Msg
        PROVE  Status(m)' = IF Old(m) THEN "gone" ELSE Status(m)
    <3>1. (sender[m] = "new" => ~Waits(m)) /\ (sender'[m] = "new" => ~Waits(m)')
      BY <1>1, <2>2, NewIsNowhere DEF Waits
    <3>2. CASE Old(m)
      <4>1. ~Received(m)' /\ ~Waits(m)' /\ sender'[m] # "new"
        BY <1>1, <1>3, <2>2, <3>2
      <4> QED BY <3>1, <3>2, <4>1, StatusIs
    <3>3. CASE ~Old(m)
      <4>1. Received(m) \/ Waits(m) \/ sender[m] = "new"
              \/ (~Received(m) /\ ~Waits(m) /\ sender[m] # "new")
        OBVIOUS
      <4> QED BY <1>1, <1>3, <2>2, <3>1, <3>3, <4>1, StatusIs
    <3> QED BY <3>2, <3>3
  <2>4. [m \in Msg |-> Status(m)]' =
          [m \in Msg |-> IF m \in {k \in Msg : Old(k)} THEN "gone"
                         ELSE [k \in Msg |-> Status(k)][m]]
    BY <2>3
  <2>5. {m \in Msg : Old(m)}' = {}
    BY <2>2
  <2>6. Box!Expire
    BY <2>4, <2>5 DEF Box!Expire, Box!Move
  <2> QED BY <2>6 DEF Box!Next
<1> QED BY <1>4, <1>5

\* Delivery implements Mailbox: with one handler at a time, writes to open
\* connections and statements that succeed, a queue that fits into one select, no statement
\* that clears it and no stop of the process, a message is shown or waits until
\* it is old, at the moments of the code's own steps: the write to a socket, the
\* statement of the interval loop.
THEOREM DeliveryKeepsMessages ==
  ASSUME Undisturbed
  PROVE  Spec => KeepsMessages
<1>1. Init => SerialInv
  BY InitSerial DEF OnlineInv
<1>2. SerialInv /\ [Next]_vars => SerialInv'
  BY DeliveryAssumption, NextSerial DEF Undisturbed
<1>3. Init => Box!Init
  <2> SUFFICES ASSUME Init PROVE Box!Init
    OBVIOUS
  <2>1. ASSUME NEW m \in Msg PROVE Status(m) = "new" /\ ~Old(m)
    <3>1. sender[m] = "new" /\ ~Received(m) /\ ~Waits(m)
      BY DEF Init, Received, Shown, Waits, Queue, Reading, Range
    <3> QED BY <3>1 DEF Status, Old
  <2> QED BY <2>1 DEF Box!Init
<1>4. SerialInv /\ [Next]_vars => [Box!Next]_Box!vars
  <2> SUFFICES ASSUME SerialInv, [Next]_vars PROVE [Box!Next]_Box!vars
    OBVIOUS
  <2>1. ASSUME NEW m \in Msg, Insert(m) \/ Send(m) PROVE [Box!Next]_Box!vars
    BY <2>1, DeliveryAssumption, SenderBox
  <2>2. ASSUME NEW c \in Conn,
               users_queue_select(c) \/ Login(c) \/ deleteClientFromMap(c) \/ un_link(c)
        PROVE  [Box!Next]_Box!vars
    BY <2>2, DeliveryAssumption, DeviceBox
  <2>3. CASE Tick \/ addIntervalRoutine
    BY <2>3, DeliveryAssumption, TickBox, ExpireBox
  <2>4. ~sql_delete_from_users_messages /\ ~Restart
    BY DEF Undisturbed, sql_delete_from_users_messages, Restart
  <2>5. CASE UNCHANGED vars
    <3>1. ASSUME NEW n \in Msg
          PROVE  /\ Received(n)' <=> Received(n)
                 /\ Waits(n)' <=> Waits(n)
                 /\ Old(n)' <=> Old(n)
      BY <2>5 DEF vars, Received, Shown, Waits, Queue, Reading, Old
    <3>2. UNCHANGED Box!vars
      BY <2>5, <3>1, Unnoticed DEF vars
    <3> QED BY <3>2
  <2> QED BY <2>1, <2>2, <2>3, <2>4, <2>5 DEF Next
<1> QED BY <1>1, <1>2, <1>3, <1>4, PTL DEF Spec, KeepsMessages, Box!Spec
=============================================================================
