--------------------------- MODULE ClusterProofs ---------------------------
(***************************************************************************)
(* What Cluster promises of any number of nodes, senders and connections,  *)
(* whatever crashes and is lost: a message reaches whoever it is passed on *)
(* to on a node the sender had no trouble with, in order and again only    *)
(* for an answer that was lost, one node carries out what is for one, the  *)
(* users of a channel are counted once, and what is sent to a user on a    *)
(* node is delivered or stored, unless its insert fails.                   *)
(***************************************************************************)
EXTENDS Cluster, FiniteSetTheorems, SequenceTheorems, TLAPS

\* A call over a link is a query: it ends after an answer, after the attempt on
\* a new link, or without one.
Calls ==
  \A t \in Thread :
    /\ kind[t] = "query"
    /\ stage[t] \in {"idle", "first", "reconnect", "third", "done"}
    /\ stage[t] = "done" => result[t] \in {"ok", "error"}

Own(s) == {id \in Id : id[1] = s}
Busy(s) == step[s] # "idle"

\* A sender asks nodes for the statement it is at, each once, but never its own.
Round(s) ==
  /\ IsInjective(todo[s]) /\ Place[s] \notin Range(todo[s])
  /\ Busy(s) =>
       /\ served[s] < Len(script[s])
       /\ step[s] = "all" <=> ~(Place[s] = Proxy /\ Statement(s).op = "user")

\* The statements a sender has begun, which alone leave a trace.
Started(id) ==
  \/ id[2] <= served[id[1]]
  \/ id = Current(id[1]) /\ Busy(id[1])

Trace(s) ==
  /\ \A c \in Conn : \A i \in DOMAIN got[c] : got[c][i][1] = s => Started(got[c][i])
  /\ \A id \in Own(s) :
       /\ \A f \in inflight : f[2] = id => Started(id) /\ seen.unheard[id] > 0
       /\ \A n \in Node : <<id, n>> \in seen.executed => Started(id)
       /\ id \in queued => id[2] <= served[s]

\* The node a sender asks has carried its statement out and was heard, or all
\* attempts have failed.
Heard(s) == todo[s] # <<>> /\ stage[Link(s)] = "done" /\ result[Link(s)] = "ok"
Failed(s) == todo[s] # <<>> /\ stage[Link(s)] = "done" /\ result[Link(s)] = "error"

Blamed(s) == Failed(s) => Link(s) \in seen.troubled \/ ~Understood(s)

\* The node of a connection may still carry the statement out and be heard.
MayAnswer(s, c) ==
  \/ step[s] = "one" /\ todo[s] # <<>> /\ ~Heard(s)
  \/ Home[c] \in Range(todo[s]) /\ ~(Home[c] = Head(todo[s]) /\ Heard(s))

\* What a connection was sent and what may still come late.
Late(id, c) == {k \in 1..MaxFaults : <<Home[c], id, k>> \in inflight}
Copies(id, c) == Times(id, c) + Cardinality(Late(id, c))

\* Each copy but one stands for an answer that was lost, and the one for the
\* answer that was heard.
Accounted(s) ==
  \A id \in Own(s), c \in Conn :
    /\ Copies(id, c) <= 1 + seen.unheard[id]
    /\ Of(id).op = "count" \/ (id = Current(s) /\ MayAnswer(s, c)) =>
         Copies(id, c) <= seen.unheard[id]

InOrder(s) ==
  \A c \in Conn : \A i, j \in DOMAIN got[c] :
    /\ i < j /\ got[c][i][1] = s /\ got[c][j][1] = s
    /\ seen.unheard[got[c][i]] = 0 /\ seen.unheard[got[c][j]] = 0
    => got[c][i][2] < got[c][j][2]

\* Who was online when a statement was begun is, or has gone with his node.
Staying(s) == Busy(s) =>
  \A c \in seen.audience[Current(s)] : c \in online \/ <<s, Home[c]>> \in seen.troubled

\* A channel message has reached who is on the nodes that were asked.
Reaching(s) == Busy(s) /\ Statement(s).op = "pipe" =>
  \A c \in seen.audience[Current(s)] \ {s} :
    \/ ~Addressed(Current(s), c)
    \/ Times(Current(s), c) > 0
    \/ <<s, Home[c]>> \in seen.troubled
    \/ Home[c] \in Range(todo[s]) /\ ~(Home[c] = Head(todo[s]) /\ stage[Link(s)] = "done")

HasReached(s) ==
  \A id \in Own(s) \cap Finished : Of(id).op = "pipe" =>
    \A c \in seen.audience[id] \ {s} :
      Addressed(id, c) => Times(id, c) > 0 \/ <<s, Home[c]>> \in seen.troubled

\* One node has carried out what is for one, once it was heard.
Executors(id) == {n \in Node : <<id, n>> \in seen.executed}

Choosing(s) == Busy(s) /\ Place[s] = Proxy /\ Statement(s).op = "user" =>
  \/ seen.unheard[Current(s)] > 0
  \/ Heard(s) /\ Executors(Current(s)) = {Head(todo[s])}
  \/ /\ todo[s] # <<>> /\ ~Heard(s)
     /\ Executors(Current(s)) = {}
     /\ step[s] = "others" =>
          \A n \in Node : n \in Range(todo[s]) \/ <<s, n>> \in seen.troubled
  \/ /\ todo[s] = <<>>
     /\ \/ \E n \in Node : Executors(Current(s)) = {n}
        \/ \A n \in Node : <<s, n>> \in seen.troubled

HasChosen(s) ==
  \A id \in Own(s) \cap Finished :
    /\ Place[s] = Proxy /\ Of(id).op = "user"
    /\ seen.unheard[id] = 0
    /\ \E n \in Node : <<s, n>> \notin seen.troubled
    => \E n \in Node : Executors(id) = {n}

\* The users on the nodes that were asked have been added up.
Sure(s) == {c \in seen.audience[Current(s)] : <<s, Home[c]>> \notin seen.troubled}
On(S, s) == {c \in S : Home[c] \notin Range(todo[s])}
There(S, s) == {c \in S : Home[c] = Head(todo[s])}

Adding(s) ==
  /\ ~Counting(s) => sum[s] = 0 /\ reply[s] = 0
  /\ Counting(s) =>
       /\ online \subseteq seen.met[s]
       /\ Cardinality(On(Sure(s), s)) <= sum[s]
       /\ sum[s] <= Cardinality(On(seen.met[s], s))
       /\ Heard(s) =>
            /\ Cardinality(There(Sure(s), s)) <= reply[s]
            /\ reply[s] <= Cardinality(There(seen.met[s], s))

\* What a node sends to a user is carried out by no other node, and is to be
\* stored unless it was delivered at once.
Direct(id) == Of(id).op = "user" /\ Place[id[1]] # Proxy

Storing(s) ==
  /\ \A f \in inflight : f[2] \in Own(s) => ~Direct(f[2])
  /\ Busy(s) /\ Direct(Current(s)) =>
       (undelivered[s] <=> Times(Current(s), Statement(s).to) = 0)

HasStored(s) ==
  \A id \in Own(s) \cap Finished : Direct(id) =>
    /\ Kept(id) \/ id \in seen.unstored
    /\ id \in queued => Times(id, Of(id).to) = 0

Progress(s) ==
  /\ Round(s) /\ Trace(s) /\ Blamed(s)
  /\ Accounted(s) /\ InOrder(s)
  /\ Staying(s) /\ Reaching(s) /\ HasReached(s)
  /\ Choosing(s) /\ HasChosen(s)
  /\ Adding(s)
  /\ Storing(s) /\ HasStored(s)

ClusterInv ==
  /\ TypeOK /\ Calls /\ CountIsTrue
  /\ \A s \in Sender : Progress(s)

-----------------------------------------------------------------------------
\* Lists of nodes, statements and copies of a message

\* Going on to the next node takes the first one from the list.
LEMMA TailFacts ==
  ASSUME NEW S, NEW q \in Seq(S), q # <<>>, IsInjective(q)
  PROVE  /\ Head(q) \in S /\ Head(q) \in Range(q) /\ Tail(q) \in Seq(S)
         /\ IsInjective(Tail(q))
         /\ Range(Tail(q)) = Range(q) \ {Head(q)}
         /\ Tail(q) # <<>> => Head(Tail(q)) # Head(q) /\ Head(Tail(q)) \in Range(q)
         /\ Tail(q) = <<>> => Range(q) = {Head(q)}
<1>1. /\ Len(Tail(q)) = Len(q) - 1 /\ Len(q) \in Nat \ {0}
      /\ DOMAIN q = 1 .. Len(q) /\ DOMAIN Tail(q) = 1 .. Len(q) - 1
      /\ \A i \in 1 .. Len(q) - 1 : Tail(q)[i] = q[i + 1]
      /\ Head(q) = q[1] /\ Head(q) \in S /\ Tail(q) \in Seq(S)
  OBVIOUS
<1>2. \A i, j \in 1 .. Len(q) : q[i] = q[j] => i = j
  BY <1>1 DEF IsInjective
<1>3. IsInjective(Tail(q))
  BY <1>1, <1>2 DEF IsInjective
<1>4. ASSUME NEW i \in DOMAIN Tail(q) PROVE Tail(q)[i] \in Range(q) \ {Head(q)}
  BY <1>1, <1>2, <1>4 DEF Range
<1>5. ASSUME NEW i \in DOMAIN q, q[i] # Head(q) PROVE q[i] \in Range(Tail(q))
  <2>1. i - 1 \in DOMAIN Tail(q) /\ Tail(q)[i - 1] = q[i]
    BY <1>1, <1>5
  <2> QED BY <2>1 DEF Range
<1>6. Head(q) \in Range(q)
  BY <1>1 DEF Range
<1>7. Range(Tail(q)) = Range(q) \ {Head(q)}
  BY <1>4, <1>5 DEF Range
<1>8. Tail(q) # <<>> => Head(Tail(q)) \in Range(Tail(q))
  <2>1. Tail(q) # <<>> => 1 \in DOMAIN Tail(q) /\ Head(Tail(q)) = Tail(q)[1]
    BY <1>1
  <2> QED BY <2>1 DEF Range
<1>9. Tail(q) = <<>> => Range(Tail(q)) = {}
  BY DEF Range
<1> QED BY <1>1, <1>3, <1>6, <1>7, <1>8, <1>9

\* The head of a list is in it; the empty one holds nothing.
LEMMA HeadFacts ==
  /\ \A S : \A q \in Seq(S) : q # <<>> => Head(q) \in S /\ Head(q) \in Range(q)
  /\ Range(<<>>) = {} /\ IsInjective(<<>>)
  /\ \A S : \A q \in Seq(S) : Range(q) \subseteq S
<1>1. ASSUME NEW S, NEW q \in Seq(S), q # <<>>
      PROVE  Head(q) \in S /\ Head(q) \in Range(q)
  <2>1. 1 \in DOMAIN q /\ Head(q) = q[1] /\ q[1] \in S
    BY <1>1
  <2> QED BY <2>1 DEF Range
<1>2. Range(<<>>) = {} /\ IsInjective(<<>>)
  BY DEF Range, IsInjective
<1>3. ASSUME NEW S, NEW q \in Seq(S)
      PROVE  Range(q) \subseteq S
  BY DEF Range
<1> QED BY <1>1, <1>2, <1>3

\* One more entry of a sequence.
Number(q, m) == Cardinality({i \in DOMAIN q : q[i] = m})

LEMMA AppendCount ==
  ASSUME NEW S, NEW q \in Seq(S), NEW e \in S, NEW m
  PROVE  /\ Number(q, m) \in Nat
         /\ Number(Append(q, e), m) = Number(q, m) + IF m = e THEN 1 ELSE 0
<1> DEFINE l == Len(q) + 1
           A == {i \in DOMAIN q : q[i] = m}
           B == {i \in DOMAIN Append(q, e) : Append(q, e)[i] = m}
<1>1. /\ l \in Nat /\ DOMAIN q = 1 .. Len(q) /\ DOMAIN Append(q, e) = 1 .. l
      /\ \A i \in 1 .. Len(q) : Append(q, e)[i] = q[i]
      /\ Append(q, e)[l] = e /\ Len(q) \in Nat
  OBVIOUS
<1>2. IsFiniteSet(A) /\ Cardinality(A) \in Nat /\ l \notin A
  <2>1. IsFiniteSet(1 .. Len(q))
    BY <1>1, FS_Interval
  <2>2. A \subseteq 1 .. Len(q) /\ l \notin A
    BY <1>1
  <2> QED BY <2>1, <2>2, FS_Subset, FS_CardinalityType
<1>3. ASSUME m = e PROVE Cardinality(B) = Cardinality(A) + 1
  <2>1. B = A \cup {l}
    BY <1>1, <1>3
  <2>2. Cardinality(A \cup {l}) = Cardinality(A) + 1
    BY <1>2, FS_AddElement
  <2> QED BY <2>1, <2>2
<1>4. ASSUME m # e PROVE Cardinality(B) = Cardinality(A)
  <2>1. B = A
    BY <1>1, <1>4
  <2> QED BY <2>1
<1> HIDE DEF A, B
<1>5. Cardinality(A) \in Nat /\ Cardinality(B) = Cardinality(A) + IF m = e THEN 1 ELSE 0
  BY <1>2, <1>3, <1>4
<1> QED BY <1>5 DEF A, B, Number

\* The statements of a script, and the one a sender is at.
LEMMA IdFacts ==
  ASSUME ClusterAssumption, TypeOK, NEW id \in Id
  PROVE  /\ id[1] \in Sender /\ id[2] \in Nat \ {0}
         /\ id = <<id[1], id[2]>> /\ id \in Own(id[1])
         /\ id[2] <= Len(script[id[1]])
         /\ Of(id) \in Request
         /\ Place[id[1]] # Proxy => Of(id).op # "count"
<1>1. script \in [Sender -> Seq(Request)]
  BY DEF ClusterAssumption, TypeOK
<1>2. \A s \in Sender : Place[s] # Proxy => script[s] \in Seq(Message)
  BY DEF ClusterAssumption, TypeOK
<1>3. PICK s \in Sender : id \in {s} \X DOMAIN script[s]
  BY DEF Id
<1>4. id[1] = s /\ id[2] \in DOMAIN script[s] /\ id = <<id[1], id[2]>>
  BY <1>3
<1>5. script[s] \in Seq(Request) /\ DOMAIN script[s] = 1 .. Len(script[s]) /\ Len(script[s]) \in Nat
  BY <1>1
<1>6. Place[s] # Proxy => Of(id) \in Message
  BY <1>2, <1>4 DEF Of
<1>7. id \in Own(id[1])
  BY DEF Own
<1>8. Of(id) \in Request /\ (Place[id[1]] # Proxy => Of(id).op # "count")
  BY <1>4, <1>5, <1>6 DEF Of, Message
<1> QED BY <1>4, <1>5, <1>7, <1>8

LEMMA CurrentFacts ==
  ASSUME ClusterAssumption, TypeOK, NEW s \in Sender
  PROVE  /\ served[s] \in Nat /\ Len(script[s]) \in Nat
         /\ Current(s)[1] = s /\ Current(s)[2] = served[s] + 1
         /\ \A id \in Own(s) : id[1] = s /\ id \in Id /\ id[2] \in Nat \ {0}
         /\ served[s] < Len(script[s]) => Current(s) \in Own(s) /\ Statement(s) \in Request
<1>1. script \in [Sender -> Seq(Request)]
  BY DEF ClusterAssumption, TypeOK
<1>2. script[s] \in Seq(Request) /\ served[s] \in Nat
  BY <1>1 DEF TypeOK
<1>3. Current(s)[1] = s /\ Current(s)[2] = served[s] + 1
  BY DEF Current
<1>4. served[s] < Len(script[s]) => served[s] + 1 \in DOMAIN script[s]
  BY <1>2
<1>5. ASSUME served[s] < Len(script[s]) PROVE Current(s) \in Own(s) /\ Statement(s) \in Request
  <2>1. Current(s) \in {s} \X DOMAIN script[s]
    BY <1>4, <1>5 DEF Current
  <2>2. Current(s) \in Id
    BY <2>1 DEF Id
  <2> QED BY <1>3, <2>2, IdFacts DEF Own, Statement
<1>6. ASSUME NEW id \in Own(s) PROVE id[1] = s /\ id \in Id /\ id[2] \in Nat \ {0}
  BY IdFacts DEF Own
<1> QED BY <1>2, <1>3, <1>5, <1>6

\* The ghosts, field by field.
LEMMA SeenFacts ==
  ASSUME TypeOK
  PROVE  /\ seen = [audience |-> seen.audience, met |-> seen.met, unheard |-> seen.unheard,
                    troubled |-> seen.troubled, executed |-> seen.executed,
                    abandoned |-> seen.abandoned, unstored |-> seen.unstored,
                    counts |-> seen.counts]
         /\ seen.audience \in [Id -> SUBSET Conn] /\ seen.met \in [Sender -> SUBSET Conn]
         /\ seen.unheard \in [Id -> Nat] /\ seen.troubled \in SUBSET Thread
         /\ seen.executed \in SUBSET (Id \X Node) /\ seen.abandoned \in SUBSET Id
         /\ seen.unstored \in SUBSET Id
         /\ seen.counts \in SUBSET [users : Nat, least : Nat, most : Nat]
BY DEF TypeOK, Seen

LEMMA SeenMade ==
  ASSUME NEW a \in [Id -> SUBSET Conn], NEW m \in [Sender -> SUBSET Conn],
         NEW u \in [Id -> Nat], NEW t \in SUBSET Thread, NEW e \in SUBSET (Id \X Node),
         NEW b \in SUBSET Id, NEW l \in SUBSET Id,
         NEW n \in SUBSET [users : Nat, least : Nat, most : Nat]
  PROVE  [audience |-> a, met |-> m, unheard |-> u, troubled |-> t, executed |-> e,
          abandoned |-> b, unstored |-> l, counts |-> n] \in Seen
BY DEF Seen

\* The links of the senders.
LEMMA LinkFacts ==
  ASSUME ClusterAssumption
  PROVE  /\ \A s \in Sender, n \in Node : <<s, n>> \in Thread
         /\ \A t \in Thread : t[1] \in Sender /\ t[2] \in Node /\ t = <<t[1], t[2]>>
BY DEF ClusterAssumption

\* What a sender that asks knows of the node it asks.
LEMMA AskedFacts ==
  ASSUME ClusterAssumption, TypeOK, NEW s \in Sender
  PROVE  /\ todo[s] \in Seq(Node)
         /\ todo[s] # <<>> => /\ Head(todo[s]) \in Node /\ Link(s) \in Thread
                              /\ Link(s)[1] = s /\ Link(s)[2] = Head(todo[s])
                              /\ Busy(s)
         /\ \A n \in Node : <<s, n>> # Link(s) \/ todo[s] = <<>> => stage[<<s, n>>] = "idle"
         /\ Heard(s) => ~Failed(s)
<1>1. todo[s] \in Seq(Node)
  BY DEF TypeOK
<1>2. todo[s] # <<>> => Head(todo[s]) \in Node
  BY <1>1, HeadFacts
<1>3. Link(s) = <<s, Head(todo[s])>>
  BY DEF Link
<1>4. ASSUME NEW n \in Node, <<s, n>> # Link(s) \/ todo[s] = <<>>
      PROVE  stage[<<s, n>>] = "idle"
  BY <1>3, <1>4 DEF TypeOK
<1> QED BY <1>1, <1>2, <1>3, <1>4, LinkFacts DEF TypeOK, Busy, Heard, Failed

-----------------------------------------------------------------------------
\* The invariant at first

LEMMA InitCluster ==
  ASSUME ClusterAssumption, Init
  PROVE  ClusterInv
<1>1. script \in [Sender -> Seq(Request)]
  BY DEF ClusterAssumption, Init
<1>2. TypeOK
  <2>1. LinkTypeOK
    BY DEF Init, LinkInit, LinkTypeOK, Stage, Attempt, Kind
  <2>2. /\ served \in [Sender -> Nat] /\ \A s \in Sender : served[s] <= Len(script[s])
    BY <1>1 DEF Init
  <2>3. /\ step \in [Sender -> {"idle", "all", "one", "others"}]
        /\ todo \in [Sender -> Seq(Node)]
        /\ {sum, reply} \subseteq [Sender -> Nat] /\ undelivered \in [Sender -> BOOLEAN]
        /\ got \in [Conn -> Seq(Id)]
    BY DEF Init
  <2>4. /\ \A s \in Sender : todo[s] = <<>> /\ \A n \in Node : stage[<<s, n>>] = "idle"
    BY LinkFacts DEF Init, LinkInit
  <2>5. /\ up \in SUBSET Node /\ online \in SUBSET {c \in Conn : Home[c] \in up}
        /\ queued \in SUBSET Id /\ inflight \in SUBSET (up \X Id \X (1..MaxFaults))
        /\ faults \in 0..MaxFaults
    BY DEF Init, ClusterAssumption
  <2>6. seen \in Seen
    BY SeenMade DEF Init
  <2>7. script \in Scripts
    BY DEF Init
  <2> QED BY <2>1, <2>2, <2>3, <2>4, <2>5, <2>6, <2>7 DEF TypeOK
<1>3. Calls
  BY DEF Calls, Init, LinkInit
<1>4. CountIsTrue
  BY DEF CountIsTrue, Init
<1>5. ASSUME NEW s \in Sender PROVE Progress(s)
  <2>1. /\ step[s] = "idle" /\ todo[s] = <<>> /\ served[s] = 0 /\ sum[s] = 0 /\ reply[s] = 0
        /\ \A c \in Conn : got[c] = <<>>
        /\ inflight = {} /\ queued = {} /\ seen.executed = {}
        /\ \A id \in Id : seen.unheard[id] = 0
    BY DEF Init
  <2>2. ~Busy(s) /\ ~Heard(s) /\ ~Failed(s) /\ ~Counting(s)
    BY <2>1 DEF Busy, Heard, Failed, Counting
  <2>3. Round(s)
    BY <2>1, <2>2, HeadFacts DEF Round
  <2>4. Trace(s) /\ InOrder(s)
    BY <2>1 DEF Trace, InOrder
  <2>5. Accounted(s)
    <3> SUFFICES ASSUME NEW id \in Own(s), NEW c \in Conn
                 PROVE  Copies(id, c) = 0 /\ seen.unheard[id] = 0
      BY DEF Accounted
    <3>1. Late(id, c) = {}
      BY <2>1 DEF Late
    <3>2. DOMAIN got[c] = {}
      BY <2>1
    <3>3. {i \in DOMAIN got[c] : got[c][i] = id} = {}
      BY <3>2
    <3>4. Cardinality({}) = 0
      BY FS_EmptySet
    <3>5. Times(id, c) = 0 /\ Cardinality(Late(id, c)) = 0
      BY <3>1, <3>3, <3>4 DEF Times
    <3> QED BY <2>1, <3>5 DEF Copies, Own
  <2>6. ASSUME NEW id \in Own(s) PROVE id \notin Finished
    <3>1. id[1] = s /\ id[2] \in Nat \ {0}
      BY <1>2, CurrentFacts
    <3> QED BY <2>1, <3>1 DEF Finished
  <2>7. HasReached(s) /\ HasChosen(s) /\ HasStored(s)
    BY <2>6 DEF HasReached, HasChosen, HasStored
  <2> QED
    BY <2>1, <2>2, <2>3, <2>4, <2>5, <2>7
    DEF Progress, Blamed, Staying, Reaching, Choosing, Adding, Storing
<1> QED BY <1>2, <1>3, <1>4, <1>5 DEF ClusterInv

-----------------------------------------------------------------------------
\* The calls over the links

OthersCalls(t) == \A u \in Thread \ {t} : stage'[u] = stage[u] /\ result'[u] = result[u]

\* A call begins, and its result is done with.
LEMMA CallEffect ==
  ASSUME LinkTypeOK, Calls, NEW t \in Thread, Call(t, "query") \/ Rest(t)
  PROVE  /\ LinkTypeOK' /\ Calls' /\ OthersCalls(t)
         /\ Call(t, "query") => stage[t] \in {"idle", "done"} /\ stage'[t] = "first"
         /\ Rest(t) => stage[t] \in {"idle", "done"} /\ stage'[t] = "idle"
<1>1. LinkTypeOK'
  BY DEF LinkTypeOK, Call, Rest, Stage, Attempt, Kind
<1>2. Calls' /\ OthersCalls(t)
  BY DEF LinkTypeOK, Calls, OthersCalls, Call, Rest
<1> QED BY <1>1, <1>2 DEF LinkTypeOK, Call, Rest

\* An attempt: an answer ends the call, what is not one ends the last attempt.
LEMMA ExecuteEffect ==
  ASSUME LinkTypeOK, Calls, NEW t \in Thread,
         NEW o \in {"ok", "refused", "lost", "unanswered"}, Execute(t, o)
  PROVE  /\ LinkTypeOK' /\ Calls' /\ OthersCalls(t)
         /\ stage[t] \in {"first", "third"}
         /\ o = "ok" => stage'[t] = "done" /\ result'[t] = "ok"
         /\ o # "ok" => stage'[t] = "reconnect" \/ (stage'[t] = "done" /\ result'[t] = "error")
<1>1. QueryAttempt(t, o)
  BY DEF Execute, StatementAttempt, Calls
<1>2. stage[t] \in {"first", "third"}
  BY <1>1 DEF QueryAttempt, Server, Attempt, Calls
<1>3. /\ applied' \in [Thread -> Nat] /\ unheard' \in [Thread -> Nat]
      /\ UNCHANGED <<kind, usable>>
  BY <1>1 DEF LinkTypeOK, QueryAttempt, Server
<1>4. \E x \in {"done", "reconnect"} :
        /\ stage' = [stage EXCEPT ![t] = x]
        /\ \/ o = "ok" /\ x = "done" /\ result' = [result EXCEPT ![t] = "ok"]
           \/ o # "ok" /\ x = "done" /\ result' = [result EXCEPT ![t] = "error"]
           \/ o # "ok" /\ x = "reconnect" /\ UNCHANGED result
  BY <1>1 DEF QueryAttempt, GoOn, Return
<1>5. LinkTypeOK'
  BY <1>3, <1>4 DEF LinkTypeOK, Stage
<1>6. Calls' /\ OthersCalls(t)
  BY <1>3, <1>4 DEF LinkTypeOK, Calls, OthersCalls
<1> QED BY <1>2, <1>4, <1>5, <1>6 DEF LinkTypeOK

\* A new link, or none.
LEMMA ReconnectEffect ==
  ASSUME LinkTypeOK, Calls, NEW t \in Thread, NEW ok \in BOOLEAN, Reconnect(t, ok)
  PROVE  /\ LinkTypeOK' /\ Calls' /\ OthersCalls(t)
         /\ stage[t] = "reconnect"
         /\ ok => stage'[t] = "third"
         /\ ~ok => stage'[t] = "done" /\ result'[t] = "error"
<1>1. /\ stage' = [stage EXCEPT ![t] = IF ok THEN "third" ELSE "done"]
      /\ result' = IF ok THEN result ELSE [result EXCEPT ![t] = "error"]
      /\ UNCHANGED <<kind, applied, unheard>> /\ stage[t] = "reconnect"
      /\ usable' = [usable EXCEPT ![t] = ok]
  BY DEF Reconnect, GoOn, Return, Calls
<1>2. LinkTypeOK'
  BY <1>1 DEF LinkTypeOK, Stage, Attempt
<1>3. Calls' /\ OthersCalls(t)
  BY <1>1 DEF LinkTypeOK, Calls, OthersCalls
<1> QED BY <1>1, <1>2, <1>3 DEF LinkTypeOK

-----------------------------------------------------------------------------
\* Steps that a sender has no part in

Apart(s) ==
  /\ UNCHANGED script
  /\ served'[s] = served[s] /\ step'[s] = step[s] /\ todo'[s] = todo[s]
  /\ sum'[s] = sum[s] /\ reply'[s] = reply[s] /\ undelivered'[s] = undelivered[s]
  /\ \A n \in Node : stage'[<<s, n>>] = stage[<<s, n>>] /\ result'[<<s, n>>] = result[<<s, n>>]
  /\ \A c \in Conn : \A i \in DOMAIN got'[c] :
       got'[c][i][1] = s => i \in DOMAIN got[c] /\ got'[c][i] = got[c][i]
  /\ \A id \in Own(s) :
       /\ \A c \in Conn : Times(id, c)' = Times(id, c)
       /\ seen'.audience[id] = seen.audience[id] /\ seen'.unheard[id] = seen.unheard[id]
       /\ \A n \in Node : <<id, n>> \in seen'.executed <=> <<id, n>> \in seen.executed
       /\ id \in queued' <=> id \in queued
       /\ id \in seen.abandoned => id \in seen'.abandoned
       /\ id \in seen.unstored => id \in seen'.unstored
       /\ \A f \in inflight' : f[2] = id => f \in inflight
  /\ seen.troubled \subseteq seen'.troubled
  /\ \A c \in online : c \in online' \/ <<s, Home[c]>> \in seen'.troubled
  /\ seen.met[s] \subseteq seen'.met[s]
  /\ Counting(s) => online' \subseteq online \cup seen'.met[s]

\* The names of what a sender does stay what they were.
LEMMA ApartFacts ==
  ASSUME ClusterAssumption, TypeOK, NEW s \in Sender, Apart(s)
  PROVE  /\ Own(s)' = Own(s) /\ Current(s)' = Current(s) /\ Statement(s)' = Statement(s)
         /\ \A id : Of(id)' = Of(id) /\ (Direct(id)' <=> Direct(id))
         /\ \A id, c : Addressed(id, c)' <=> Addressed(id, c)
         /\ Busy(s)' <=> Busy(s)
         /\ Counting(s)' <=> Counting(s)
         /\ todo[s] # <<>> => Link(s)' = Link(s) /\ Head(todo'[s]) = Head(todo[s])
         /\ todo[s] # <<>> => stage'[Link(s)] = stage[Link(s)] /\ result'[Link(s)] = result[Link(s)]
         /\ Heard(s)' <=> Heard(s)
         /\ Failed(s)' <=> Failed(s)
         /\ Understood(s)' <=> Understood(s)
         /\ \A c : MayAnswer(s, c)' <=> MayAnswer(s, c)
         /\ \A id \in Own(s) : /\ Started(id)' <=> Started(id)
                               /\ id \in Finished' => id \in Finished
                               /\ Executors(id)' = Executors(id)
<1>1. UNCHANGED script /\ served'[s] = served[s] /\ step'[s] = step[s] /\ todo'[s] = todo[s]
  BY DEF Apart
<1>2. /\ Own(s)' = Own(s) /\ Current(s)' = Current(s) /\ Statement(s)' = Statement(s)
      /\ \A id : Of(id)' = Of(id) /\ (Direct(id)' <=> Direct(id))
      /\ \A id, c : Addressed(id, c)' <=> Addressed(id, c)
      /\ (Busy(s)' <=> Busy(s)) /\ (Counting(s)' <=> Counting(s))
      /\ Understood(s)' <=> Understood(s)
  BY <1>1 DEF Own, Id, Current, Statement, Of, Direct, Busy, Counting, Understood,
              Addressed, PassedOn
<1>3. /\ todo[s] # <<>> => Link(s)' = Link(s) /\ Head(todo'[s]) = Head(todo[s])
      /\ todo[s] # <<>> => stage'[Link(s)] = stage[Link(s)] /\ result'[Link(s)] = result[Link(s)]
  <2>1. todo[s] # <<>> => Head(todo[s]) \in Node
    BY AskedFacts
  <2> QED BY <1>1, <2>1 DEF Link, Apart
<1>4. (Heard(s)' <=> Heard(s)) /\ (Failed(s)' <=> Failed(s))
  BY <1>1, <1>3 DEF Heard, Failed
<1>5. \A c : MayAnswer(s, c)' <=> MayAnswer(s, c)
  BY <1>1, <1>4 DEF MayAnswer
<1>6. ASSUME NEW id \in Own(s)
      PROVE  /\ Started(id)' <=> Started(id)
             /\ id \in Finished' => id \in Finished
             /\ Executors(id)' = Executors(id)
  <2>1. id[1] = s /\ id \in Id
    BY CurrentFacts
  <2>2. Started(id)' <=> Started(id)
    BY <1>1, <1>2, <2>1 DEF Started
  <2>3. id \in Finished' => id \in Finished
    BY <1>1, <2>1 DEF Finished, Apart
  <2>4. Executors(id)' = Executors(id)
    BY DEF Executors, Apart
  <2> QED BY <2>2, <2>3, <2>4
<1> QED BY <1>2, <1>3, <1>4, <1>5, <1>6

\* Its copies do not grow.
LEMMA LateFinite ==
  ASSUME ClusterAssumption, NEW id, NEW c
  PROVE  IsFiniteSet(Late(id, c)) /\ Cardinality(Late(id, c)) \in Nat
<1>1. IsFiniteSet(1..MaxFaults)
  BY FS_Interval DEF ClusterAssumption
<1>2. Late(id, c) \subseteq 1..MaxFaults
  BY DEF Late
<1> QED BY <1>1, <1>2, FS_Subset, FS_CardinalityType

LEMMA TimesNat ==
  ASSUME TypeOK, NEW c \in Conn, NEW id
  PROVE  /\ Times(id, c) \in Nat
         /\ Times(id, c) > 0 <=> \E i \in DOMAIN got[c] : got[c][i] = id
<1> DEFINE A == {i \in DOMAIN got[c] : got[c][i] = id}
<1>1. DOMAIN got[c] = 1 .. Len(got[c]) /\ Len(got[c]) \in Nat
  BY DEF TypeOK
<1>2. IsFiniteSet(A)
  <2>1. IsFiniteSet(1 .. Len(got[c])) /\ A \subseteq 1 .. Len(got[c])
    BY <1>1, FS_Interval
  <2> QED BY <2>1, FS_Subset
<1>3. Cardinality(A) \in Nat /\ (Cardinality(A) = 0 <=> A = {})
  BY <1>2, FS_CardinalityType, FS_EmptySet
<1>4. A # {} <=> \E i \in DOMAIN got[c] : got[c][i] = id
  OBVIOUS
<1> HIDE DEF A
<1>5. Cardinality(A) \in Nat /\ (Cardinality(A) > 0 <=> \E i \in DOMAIN got[c] : got[c][i] = id)
  BY <1>3, <1>4
<1> QED BY <1>5 DEF Times, A

\* Sets of connections are finite.
LEMMA ConnSets ==
  ASSUME ClusterAssumption
  PROVE  \A S \in SUBSET Conn :
           /\ IsFiniteSet(S) /\ Cardinality(S) \in Nat
           /\ \A T \in SUBSET S : Cardinality(T) \in Nat /\ Cardinality(T) <= Cardinality(S)
<1>1. ASSUME NEW S \in SUBSET Conn
      PROVE  IsFiniteSet(S) /\ Cardinality(S) \in Nat
  BY FS_Subset, FS_CardinalityType DEF ClusterAssumption
<1>2. ASSUME NEW S \in SUBSET Conn, NEW T \in SUBSET S
      PROVE  Cardinality(T) \in Nat /\ Cardinality(T) <= Cardinality(S)
  BY <1>1, FS_Subset, FS_CardinalityType
<1> QED BY <1>1, <1>2

\* A step that a sender has no part in keeps what holds of it.
LEMMA ApartKeeps ==
  ASSUME ClusterAssumption, TypeOK, TypeOK', NEW s \in Sender, Progress(s), Apart(s)
  PROVE  Progress(s)'
<1> USE DEF Progress
<1>1. /\ UNCHANGED script /\ served'[s] = served[s] /\ step'[s] = step[s] /\ todo'[s] = todo[s]
      /\ sum'[s] = sum[s] /\ reply'[s] = reply[s] /\ undelivered'[s] = undelivered[s]
      /\ seen.troubled \subseteq seen'.troubled
  BY DEF Apart
<1>2. Round(s)'
  BY <1>1, ApartFacts DEF Round
<1>3. Trace(s)'
  <2>1. ASSUME NEW c \in Conn, NEW i \in DOMAIN got'[c], got'[c][i][1] = s
        PROVE  Started(got[c][i])'
    <3>1. i \in DOMAIN got[c] /\ got'[c][i] = got[c][i] /\ Started(got[c][i])
      BY <2>1 DEF Apart, Trace
    <3>2. PICK id : id = got[c][i]
      OBVIOUS
    <3>3. id \in Own(s) /\ Started(id)
      BY <2>1, <3>1, <3>2, SMTT(30) DEF Own, TypeOK
    <3>4. Started(id)'
      BY <3>3, ApartFacts
    <3> QED BY <3>1, <3>2, <3>4
  <2>2. ASSUME NEW id \in Own(s)
        PROVE  /\ \A f \in inflight' : f[2] = id => Started(id)' /\ seen'.unheard[id] > 0
               /\ \A n \in Node : <<id, n>> \in seen'.executed => Started(id)'
               /\ id \in queued' => id[2] <= served'[s]
    BY <1>1, ApartFacts DEF Apart, Trace
  <2> QED BY <2>1, <2>2, ApartFacts DEF Trace
<1>4. Blamed(s)'
  <2>1. Failed(s)' => Link(s)' = Link(s)
    BY ApartFacts DEF Failed
  <2> QED BY <1>1, <2>1, ApartFacts DEF Blamed
<1>5. Accounted(s)'
  <2>1. ASSUME NEW id \in Own(s), NEW c \in Conn
        PROVE  /\ Copies(id, c)' <= Copies(id, c)
               /\ Copies(id, c) \in Nat /\ Copies(id, c)' \in Nat
               /\ seen'.unheard[id] = seen.unheard[id] /\ seen.unheard[id] \in Nat
    <3>1. Times(id, c)' = Times(id, c) /\ Times(id, c) \in Nat
      BY TimesNat DEF Apart
    <3>2. Late(id, c)' \subseteq Late(id, c)
      BY DEF Late, Apart
    <3>3. PICK L : L = Late(id, c)'
      OBVIOUS
    <3>4. IsFiniteSet(Late(id, c)) /\ Cardinality(Late(id, c)) \in Nat
      BY LateFinite
    <3>5. Cardinality(L) <= Cardinality(Late(id, c)) /\ Cardinality(L) \in Nat
      BY <3>2, <3>3, <3>4, FS_Subset, FS_CardinalityType
    <3>6. seen'.unheard[id] = seen.unheard[id] /\ seen.unheard[id] \in Nat
      BY SeenFacts DEF Apart, ClusterAssumption, Own
    <3> QED BY <3>1, <3>3, <3>4, <3>5, <3>6 DEF Copies
  <2>2. ASSUME NEW id \in Own(s), NEW c \in Conn
        PROVE  /\ Copies(id, c)' <= 1 + seen'.unheard[id]
               /\ Of(id)'.op = "count" \/ (id = Current(s)' /\ MayAnswer(s, c)') =>
                    Copies(id, c)' <= seen'.unheard[id]
    <3>1. (Of(id)' = Of(id)) /\ (MayAnswer(s, c)' <=> MayAnswer(s, c)) /\ Current(s)' = Current(s)
      BY ApartFacts
    <3>2. /\ Copies(id, c) <= 1 + seen.unheard[id]
          /\ Of(id).op = "count" \/ (id = Current(s) /\ MayAnswer(s, c)) =>
               Copies(id, c) <= seen.unheard[id]
      BY DEF Accounted
    <3> HIDE DEF Progress
    <3> QED BY <2>1, <3>1, <3>2
  <2> QED BY <2>2, ApartFacts DEF Accounted
<1>6. InOrder(s)'
  <2> SUFFICES ASSUME NEW c \in Conn, NEW i \in DOMAIN got'[c], NEW j \in DOMAIN got'[c], i < j,
                      got'[c][i][1] = s, got'[c][j][1] = s,
                      seen'.unheard[got'[c][i]] = 0, seen'.unheard[got'[c][j]] = 0
               PROVE  got'[c][i][2] < got'[c][j][2]
    BY DEF InOrder
  <2>1. /\ i \in DOMAIN got[c] /\ got'[c][i] = got[c][i]
        /\ j \in DOMAIN got[c] /\ got'[c][j] = got[c][j]
    BY DEF Apart
  <2>2. got[c][i] \in Own(s) /\ got[c][j] \in Own(s)
    BY <2>1, SMTT(30) DEF TypeOK, Own
  <2>3. seen.unheard[got[c][i]] = 0 /\ seen.unheard[got[c][j]] = 0
    BY <2>1, <2>2 DEF Apart
  <2> QED BY <2>1, <2>3 DEF InOrder
<1>7. Staying(s)'
  <2> SUFFICES ASSUME Busy(s) PROVE Staying(s)'
    BY ApartFacts DEF Staying
  <2>1. PICK id \in Own(s) : id = Current(s)
    BY CurrentFacts DEF Round
  <2>2. seen'.audience[id] = seen.audience[id] /\ Current(s)' = id
    BY <2>1, ApartFacts DEF Apart
  <2>3. \A c \in seen.audience[id] : c \in online' \/ <<s, Home[c]>> \in seen'.troubled
    BY <1>1, <2>1 DEF Staying, Apart
  <2> QED BY <2>2, <2>3 DEF Staying
<1>8. Reaching(s)'
  <2> SUFFICES ASSUME Busy(s), Statement(s).op = "pipe"
               PROVE  Reaching(s)'
    BY ApartFacts DEF Reaching
  <2>1. PICK id \in Own(s) : id = Current(s)
    BY CurrentFacts DEF Round
  <2>2. ASSUME NEW c \in seen'.audience[id] \ {s}
        PROVE  \/ ~Addressed(id, c)
               \/ Times(id, c)' > 0
               \/ <<s, Home[c]>> \in seen'.troubled
               \/ /\ Home[c] \in Range(todo'[s])
                  /\ ~(Home[c] = Head(todo'[s]) /\ stage'[Link(s)'] = "done")
    <3>1. c \in seen.audience[id] \ {s} /\ c \in Conn
      BY SeenFacts, CurrentFacts DEF Apart
    <3>2. Times(id, c)' = Times(id, c)
      BY <3>1 DEF Apart
    <3>3. Range(todo[s]) # {} => todo[s] # <<>>
      BY HeadFacts
    <3> QED BY <1>1, <2>1, <3>1, <3>2, <3>3, ApartFacts DEF Reaching
  <2> QED BY <2>1, <2>2, ApartFacts DEF Reaching
<1>9. HasReached(s)'
  <2> SUFFICES ASSUME NEW id \in Own(s), id \in Finished', Of(id).op = "pipe",
                      NEW c \in seen'.audience[id] \ {s}, Addressed(id, c)
               PROVE  Times(id, c)' > 0 \/ <<s, Home[c]>> \in seen'.troubled
    BY ApartFacts DEF HasReached
  <2>1. id \in Finished /\ c \in seen.audience[id] \ {s} /\ c \in Conn
    BY ApartFacts, SeenFacts, CurrentFacts DEF Apart
  <2>2. Times(id, c)' = Times(id, c)
    BY <2>1 DEF Apart
  <2> QED BY <1>1, <2>1, <2>2 DEF HasReached
<1>10. Choosing(s)'
  <2> SUFFICES ASSUME Busy(s), Place[s] = Proxy, Statement(s).op = "user"
               PROVE  Choosing(s)'
    BY ApartFacts DEF Choosing
  <2>1. PICK id \in Own(s) : id = Current(s)
    BY CurrentFacts DEF Round
  <2>2. /\ Executors(id)' = Executors(id) /\ Current(s)' = id
        /\ seen'.unheard[id] = seen.unheard[id]
    BY <2>1, ApartFacts DEF Apart
  <2> QED BY <1>1, <2>1, <2>2, ApartFacts DEF Choosing, Heard
<1>11. HasChosen(s)'
  <2> SUFFICES ASSUME NEW id \in Own(s), id \in Finished', Place[s] = Proxy, Of(id).op = "user",
                      seen'.unheard[id] = 0, \E n \in Node : <<s, n>> \notin seen'.troubled
               PROVE  \E n \in Node : Executors(id)' = {n}
    BY ApartFacts DEF HasChosen
  <2>1. /\ id \in Finished /\ seen.unheard[id] = 0 /\ Executors(id)' = Executors(id)
        /\ \E n \in Node : <<s, n>> \notin seen.troubled
    BY <1>1, ApartFacts DEF Apart
  <2> QED BY <2>1 DEF HasChosen
<1>12. Adding(s)'
  <2>1. CASE ~Counting(s)
    BY <1>1, <2>1, ApartFacts DEF Adding
  <2>2. CASE Counting(s)
    <3>1. PICK id \in Own(s) : id = Current(s)
      BY <2>2, CurrentFacts DEF Round, Counting, Busy
    <3>2. /\ Sure(s) \subseteq Conn /\ seen'.met[s] \subseteq Conn
          /\ Sure(s)' \subseteq Sure(s) /\ seen.met[s] \subseteq seen'.met[s]
      <4>1. seen'.met[s] \subseteq Conn
        BY DEF TypeOK, Seen
      <4>2. /\ seen.audience[id] \subseteq Conn /\ seen'.audience[id] = seen.audience[id]
            /\ Current(s)' = id
        BY <3>1, ApartFacts, SeenFacts, CurrentFacts DEF Apart
      <4> QED BY <1>1, <3>1, <4>1, <4>2 DEF Sure, Apart
    <3>3. PICK A, B, C, D : /\ A = On(Sure(s), s)' /\ B = On(seen.met[s], s)'
                            /\ C = There(Sure(s), s)' /\ D = There(seen.met[s], s)'
      OBVIOUS
    <3>4. /\ A \subseteq On(Sure(s), s) /\ On(seen.met[s], s) \subseteq B
          /\ C \subseteq There(Sure(s), s) /\ There(seen.met[s], s) \subseteq D
          /\ B \subseteq Conn /\ D \subseteq Conn
          /\ On(Sure(s), s) \subseteq Conn /\ There(Sure(s), s) \subseteq Conn
      BY <1>1, <3>2, <3>3 DEF On, There
    <3>5. /\ Cardinality(A) <= Cardinality(On(Sure(s), s))
          /\ Cardinality(On(seen.met[s], s)) <= Cardinality(B)
          /\ Cardinality(C) <= Cardinality(There(Sure(s), s))
          /\ Cardinality(There(seen.met[s], s)) <= Cardinality(D)
      BY <3>4, ConnSets
    <3>6. online' \subseteq seen'.met[s]
      BY <2>2, <3>2 DEF Adding, Apart
    <3>7. On(seen.met[s], s) \subseteq Conn /\ There(seen.met[s], s) \subseteq Conn
          /\ A \subseteq Conn /\ C \subseteq Conn
      BY <3>4, SeenFacts DEF On, There
    <3>8. /\ Cardinality(A) \in Nat /\ Cardinality(B) \in Nat
          /\ Cardinality(C) \in Nat /\ Cardinality(D) \in Nat
      BY <3>4, <3>7, ConnSets
    <3>9. /\ Cardinality(On(Sure(s), s)) \in Nat /\ Cardinality(On(seen.met[s], s)) \in Nat
          /\ Cardinality(There(Sure(s), s)) \in Nat /\ Cardinality(There(seen.met[s], s)) \in Nat
      BY <3>4, <3>7, ConnSets
    <3>10. sum[s] \in Nat /\ reply[s] \in Nat
      BY DEF TypeOK
    <3>11. Cardinality(A) <= sum'[s] /\ sum'[s] <= Cardinality(B)
      <4>1. Cardinality(On(Sure(s), s)) <= sum[s] /\ sum[s] <= Cardinality(On(seen.met[s], s))
        BY <2>2 DEF Adding
      <4> HIDE DEF Progress
      <4> QED BY <1>1, <3>5, <3>8, <3>9, <3>10, <4>1
    <3>12. Heard(s) => Cardinality(C) <= reply'[s] /\ reply'[s] <= Cardinality(D)
      <4>1. Heard(s) => /\ Cardinality(There(Sure(s), s)) <= reply[s]
                        /\ reply[s] <= Cardinality(There(seen.met[s], s))
        BY <2>2 DEF Adding
      <4> HIDE DEF Progress
      <4> QED BY <1>1, <3>5, <3>8, <3>9, <3>10, <4>1
    <3> HIDE DEF Progress
    <3> QED BY <2>2, <3>3, <3>6, <3>11, <3>12, ApartFacts DEF Adding
  <2> QED BY <2>1, <2>2
<1>13. Storing(s)' /\ HasStored(s)'
  <2>1. \A f \in inflight' : f[2] \in Own(s) => f \in inflight
    BY DEF Apart
  <2>2. ASSUME Busy(s)
        PROVE  Direct(Current(s))' => (undelivered'[s] <=> Times(Current(s), Statement(s).to)' = 0)
    <3>1. PICK id \in Own(s) : id = Current(s)
      BY <2>2, CurrentFacts DEF Round
    <3>2. Direct(id) => Of(id).to \in Conn
      BY CurrentFacts, IdFacts DEF Direct, Request, Message
    <3>3. PICK c : c = Of(id).to
      OBVIOUS
    <3>4. Direct(id) => (undelivered[s] <=> Times(id, c) = 0)
      BY <2>2, <3>1, <3>3 DEF Storing, Statement
    <3>5. Direct(id) => Times(id, c)' = Times(id, c)
      BY <3>2, <3>3 DEF Apart
    <3>6. Current(s)' = id /\ Statement(s)'.to = c
      BY <3>1, <3>3, ApartFacts DEF Statement
    <3> QED BY <1>1, <3>4, <3>5, <3>6, ApartFacts
  <2>3. Storing(s)'
    BY <2>1, <2>2, ApartFacts DEF Storing
  <2>4. ASSUME NEW id \in Own(s), id \in Finished', Direct(id)
        PROVE  /\ Kept(id)' \/ id \in seen'.unstored
               /\ id \in queued' => Times(id, Of(id).to)' = 0
    <3>1. Of(id).to \in Conn /\ id \in Finished
      BY <2>4, IdFacts, CurrentFacts, ApartFacts DEF Direct, Request, Message
    <3>2. PICK c \in Conn : c = Of(id).to
      BY <3>1
    <3>3. /\ Of(id)'.to = c /\ Times(id, c)' = Times(id, c) /\ (id \in queued' <=> id \in queued)
          /\ id \in seen.unstored => id \in seen'.unstored
      BY <3>2, ApartFacts DEF Apart
    <3> QED BY <2>4, <3>1, <3>2, <3>3 DEF HasStored, Kept
  <2> QED BY <2>3, <2>4, ApartFacts DEF HasStored
<1> QED BY <1>2, <1>3, <1>4, <1>5, <1>6, <1>7, <1>8, <1>9, <1>10, <1>11,
            <1>12, <1>13

-----------------------------------------------------------------------------
\* Deliveries

\* A message that is delivered is added to what its receivers were sent.
LEMMA Delivered ==
  ASSUME TypeOK, UNCHANGED script, NEW n \in Node, NEW id \in Id, Deliver(n, id)
  PROVE  /\ got' \in [Conn -> Seq(Id)]
         /\ \A c \in Conn : \A m :
              Times(m, c)' = Times(m, c) + IF m = id /\ c \in Receivers(n, id) THEN 1 ELSE 0
         /\ \A c \in Conn : \A i \in DOMAIN got'[c] :
              \/ i \in DOMAIN got[c] /\ got'[c][i] = got[c][i]
              \/ i = Len(got[c]) + 1 /\ got'[c][i] = id /\ c \in Receivers(n, id)
<1>1. got \in [Conn -> Seq(Id)]
  BY DEF TypeOK
<1>2. \A c \in Conn : got'[c] = IF c \in Receivers(n, id) THEN Append(got[c], id) ELSE got[c]
  BY DEF Deliver
<1>3. got' \in [Conn -> Seq(Id)]
  <2>1. \A c \in Conn : Append(got[c], id) \in Seq(Id) /\ got[c] \in Seq(Id)
    BY <1>1
  <2> QED BY <2>1 DEF Deliver
<1>4. ASSUME NEW c \in Conn, NEW m
      PROVE  Times(m, c)' = Times(m, c) + IF m = id /\ c \in Receivers(n, id) THEN 1 ELSE 0
  <2>1. PICK q \in Seq(Id) : q = got[c]
    BY <1>1
  <2>2. /\ Number(q, m) \in Nat
        /\ Number(Append(q, id), m) = Number(q, m) + IF m = id THEN 1 ELSE 0
    BY AppendCount
  <2>3. Times(m, c) = Number(q, m)
    BY <2>1 DEF Times, Number
  <2>4. CASE c \in Receivers(n, id)
    <3>1. got'[c] = Append(q, id)
      BY <1>2, <2>1, <2>4
    <3>2. Times(m, c)' = Number(Append(q, id), m)
      BY <3>1 DEF Times, Number
    <3> QED BY <2>2, <2>3, <2>4, <3>2
  <2>5. CASE c \notin Receivers(n, id)
    <3>1. got'[c] = q
      BY <1>2, <2>1, <2>5
    <3>2. Times(m, c)' = Times(m, c) /\ Times(m, c) \in Nat
      BY <2>1, <2>2, <2>3, <3>1 DEF Times, Number
    <3> QED BY <2>5, <3>2
  <2> QED BY <2>4, <2>5
<1>5. ASSUME NEW c \in Conn, NEW i \in DOMAIN got'[c]
      PROVE  \/ i \in DOMAIN got[c] /\ got'[c][i] = got[c][i]
             \/ i = Len(got[c]) + 1 /\ got'[c][i] = id /\ c \in Receivers(n, id)
  <2>1. PICK q \in Seq(Id) : q = got[c]
    BY <1>1
  <2>2. CASE c \in Receivers(n, id)
    <3>1. got'[c] = Append(q, id)
      BY <1>2, <2>1, <2>2
    <3> QED BY <2>1, <2>2, <3>1
  <2>3. CASE c \notin Receivers(n, id)
    BY <1>2, <2>3
  <2> QED BY <2>2, <2>3
<1> QED BY <1>3, <1>4, <1>5

\* A node that carries a statement out delivers it: a select reaches nobody.
LEMMA RunDelivers ==
  ASSUME TypeOK, NEW n \in Node, NEW id \in Id, Run(n, id)
  PROVE  /\ Deliver(n, id)
         /\ Of(id).op = "count" => Receivers(n, id) = {}
<1>1. Of(id).op = "count" => Receivers(n, id) = {}
  BY DEF Receivers
<1>2. got = [c \in Conn |-> got[c]]
  BY DEF TypeOK
<1> QED BY <1>1, <1>2 DEF Run, Deliver

\* What another sender is delivered does not change what a sender was.
LEMMA GotApart ==
  ASSUME TypeOK, UNCHANGED script, NEW s \in Sender,
         \/ UNCHANGED got
         \/ \E n \in Node : \E id \in Id : id[1] # s /\ Deliver(n, id)
  PROVE  /\ \A c \in Conn : \A i \in DOMAIN got'[c] :
              got'[c][i][1] = s => i \in DOMAIN got[c] /\ got'[c][i] = got[c][i]
         /\ \A id \in Own(s) : \A c \in Conn : Times(id, c)' = Times(id, c)
<1>1. CASE UNCHANGED got
  BY <1>1 DEF Times
<1>2. ASSUME NEW n \in Node, NEW id \in Id, id[1] # s, Deliver(n, id)
      PROVE  /\ \A c \in Conn : \A i \in DOMAIN got'[c] :
                  got'[c][i][1] = s => i \in DOMAIN got[c] /\ got'[c][i] = got[c][i]
             /\ \A m \in Own(s) : \A c \in Conn : Times(m, c)' = Times(m, c)
  <2>1. \A m \in Own(s) : m # id
    BY <1>2 DEF Own
  <2>2. \A c \in Conn : \A i \in DOMAIN got'[c] :
          \/ i \in DOMAIN got[c] /\ got'[c][i] = got[c][i]
          \/ got'[c][i] = id
    BY <1>2, Delivered
  <2>3. ASSUME NEW m \in Own(s), NEW c \in Conn PROVE Times(m, c)' = Times(m, c)
    <3>1. Times(m, c)' = Times(m, c) + IF m = id /\ c \in Receivers(n, id) THEN 1 ELSE 0
      BY <1>2, Delivered
    <3> QED BY <2>1, <3>1, TimesNat
  <2> QED BY <1>2, <2>2, <2>3
<1> QED BY <1>1, <1>2

-----------------------------------------------------------------------------
\* The types, and the calls, after each step

LEMMA IdKept ==
  ASSUME UNCHANGED script
  PROVE  /\ Id' = Id /\ Seen' = Seen
         /\ \A s : Own(s)' = Own(s)
         /\ \A id : Of(id)' = Of(id) /\ (Direct(id)' <=> Direct(id))
BY DEF Id, Seen, Own, Of, Direct

\* The lists of nodes a sender may be given.
LEMMA Lists ==
  ASSUME ClusterAssumption, NEW s \in Sender
  PROVE  /\ \A n \in Node : <<n>> \in Seq(Node) /\ <<n>> # <<>> /\ IsInjective(<<n>>)
                            /\ Head(<<n>>) = n /\ Range(<<n>>) = {n}
         /\ proxyCluster \in Seq(Node) /\ IsInjective(proxyCluster)
         /\ Range(proxyCluster) = Node
         /\ Place[s] = Proxy => Place[s] \notin Node
         /\ Place[s] # Proxy =>
              /\ Place[s] \in Node
              /\ wsCluster[Place[s]] \in Seq(Node) /\ IsInjective(wsCluster[Place[s]])
              /\ Range(wsCluster[Place[s]]) = Node \ {Place[s]}
<1>1. ASSUME NEW n \in Node
      PROVE  <<n>> \in Seq(Node) /\ <<n>> # <<>> /\ IsInjective(<<n>>)
             /\ Head(<<n>>) = n /\ Range(<<n>>) = {n}
  <2>1. DOMAIN <<n>> = {1} /\ <<n>>[1] = n
    OBVIOUS
  <2> QED BY <2>1 DEF IsInjective, Range
<1> QED BY <1>1 DEF ClusterAssumption

\* A sender that does not ask has no call under way.
LEMMA GoTypes ==
  ASSUME ClusterAssumption, TypeOK, Calls, NEW s \in Sender, Ready(s),
         NEW how \in {"all", "one"}, NEW list \in Seq(Node), Place[s] \notin Range(list),
         Go(s, how, list), got' \in [Conn -> Seq(Id)], undelivered' \in [Sender -> BOOLEAN]
  PROVE  TypeOK' /\ Calls'
<1>1. /\ UNCHANGED <<script, served, sum, reply, up, online, queued, inflight, faults>>
      /\ UNCHANGED linkVars
      /\ step' = [step EXCEPT ![s] = how] /\ todo' = [todo EXCEPT ![s] = list]
  BY DEF Go
<1>2. LinkTypeOK' /\ Calls'
  BY <1>1 DEF TypeOK, LinkTypeOK, Calls, linkVars
<1>3. Id' = Id /\ Seen' = Seen
  BY <1>1, IdKept
<1>4. Current(s) \in Id /\ online \subseteq Conn
  BY CurrentFacts DEF Ready, TypeOK
<1>5. seen' \in Seen
  <2>1. seen \in Seen
    BY DEF TypeOK
  <2> QED BY <1>4, <2>1 DEF Go, Begun, Seen
<1>6. todo[s] = <<>> /\ \A n \in Node : stage[<<s, n>>] = "idle"
  BY DEF TypeOK, Ready
<1>7. list # <<>> => Head(list) # Place[s]
  BY HeadFacts
<1>8. /\ step' \in [Sender -> {"idle", "all", "one", "others"}]
      /\ todo' \in [Sender -> Seq(Node)]
  BY <1>1 DEF TypeOK
<1>9. ASSUME NEW u \in Sender
      PROVE  /\ todo'[u] # <<>> => step'[u] # "idle" /\ Head(todo'[u]) # Place[u]
             /\ \A n \in Node : stage'[<<u, n>>] # "idle" => todo'[u] # <<>> /\ n = Head(todo'[u])
  <2>1. stage' = stage
    BY <1>1 DEF linkVars
  <2>2. u = s => step'[u] = how /\ todo'[u] = list
    BY <1>1 DEF TypeOK
  <2>3. u # s => step'[u] = step[u] /\ todo'[u] = todo[u]
    BY <1>1 DEF TypeOK
  <2>4. CASE u = s
    BY <1>6, <1>7, <2>1, <2>2, <2>4
  <2>5. CASE u # s
    BY <2>1, <2>3, <2>5 DEF TypeOK
  <2> QED BY <2>4, <2>5
<1>10. got' \in [Conn -> Seq(Id')]
  BY <1>3
<1>11. /\ (script \in Scripts)' /\ (served \in [Sender -> Nat])'
       /\ \A u \in Sender : served'[u] <= Len(script'[u])
       /\ {sum', reply'} \subseteq [Sender -> Nat] /\ up' \in SUBSET Node
       /\ (online \in SUBSET {c \in Conn : Home[c] \in up})'
       /\ faults' \in 0..MaxFaults
  BY <1>1 DEF TypeOK
<1>12. /\ (queued \in SUBSET Id)'
       /\ (inflight \in SUBSET (up \X Id \X (1..MaxFaults)))'
  BY <1>1, <1>3 DEF TypeOK
<1> QED BY <1>2, <1>3, <1>5, <1>8, <1>9, <1>10, <1>11, <1>12 DEF TypeOK

LEMMA RouteTypes ==
  ASSUME ClusterAssumption, ClusterInv, NEW s \in Sender, Route(s)
  PROVE  TypeOK' /\ Calls'
<1>1. TypeOK /\ Calls /\ Ready(s) /\ Place[s] = Proxy /\ UNCHANGED script
  BY DEF ClusterInv, Route, Go
<1>2. got' \in [Conn -> Seq(Id)] /\ undelivered' \in [Sender -> BOOLEAN]
  BY <1>1 DEF Route, TypeOK
<1>3. CASE Statement(s).op = "user"
  <2>1. PICK n \in Node : Go(s, "one", <<n>>)
    BY <1>3 DEF Route
  <2>2. <<n>> \in Seq(Node) /\ Place[s] \notin Range(<<n>>)
    BY <1>1, Lists
  <2> QED BY <1>1, <1>2, <2>1, <2>2, GoTypes
<1>4. CASE Statement(s).op # "user"
  <2>1. Go(s, "all", proxyCluster)
    BY <1>4 DEF Route
  <2>2. proxyCluster \in Seq(Node) /\ Place[s] \notin Range(proxyCluster)
    BY <1>1, Lists
  <2> QED BY <1>1, <1>2, <2>1, <2>2, GoTypes
<1> QED BY <1>3, <1>4

LEMMA SendHereTypes ==
  ASSUME ClusterAssumption, ClusterInv, NEW s \in Sender, SendHere(s)
  PROVE  TypeOK' /\ Calls'
<1>1. /\ TypeOK /\ Calls /\ Ready(s) /\ UNCHANGED script
      /\ Deliver(Place[s], Current(s)) /\ Place[s] \in up
  BY DEF ClusterInv, SendHere, Go
<1>2. Place[s] \in Node /\ Place[s] # Proxy
  BY <1>1 DEF TypeOK, ClusterAssumption
<1>3. undelivered' \in [Sender -> BOOLEAN]
  BY <1>1 DEF SendHere, TypeOK
<1>4. Current(s) \in Id
  BY <1>1, CurrentFacts DEF Ready
<1>5. got' \in [Conn -> Seq(Id)]
  BY <1>1, <1>2, <1>4, Delivered
<1>6. PICK list \in Seq(Node) : Go(s, "all", list) /\ Place[s] \notin Range(list)
  <2>1. CASE Forwarded(s)
    <3>1. Go(s, "all", wsCluster[Place[s]])
      BY <2>1 DEF SendHere
    <3> QED BY <1>2, <3>1, Lists
  <2>2. CASE ~Forwarded(s)
    <3>1. Go(s, "all", <<>>)
      BY <2>2 DEF SendHere
    <3>2. <<>> \in Seq(Node) /\ Range(<<>>) = {}
      BY HeadFacts
    <3> QED BY <3>1, <3>2
  <2> QED BY <2>1, <2>2
<1> QED BY <1>1, <1>3, <1>5, <1>6, GoTypes

\* A step of the call over the link of a sender.
LEMMA LinkTypes ==
  ASSUME ClusterAssumption, TypeOK, NEW s \in Sender, todo[s] # <<>>,
         LinkTypeOK', OthersCalls(Link(s)),
         UNCHANGED <<script, served, step, todo, sum, undelivered, up, online, queued>>,
         reply' \in [Sender -> Nat], got' \in [Conn -> Seq(Id)],
         inflight' \in SUBSET (up \X Id \X (1..MaxFaults)),
         faults' \in 0..MaxFaults, seen' \in Seen
  PROVE  TypeOK'
<1>1. Id' = Id /\ Seen' = Seen
  BY IdKept
<1>2. ASSUME NEW u \in Sender, NEW n \in Node, stage'[<<u, n>>] # "idle"
      PROVE  todo'[u] # <<>> /\ n = Head(todo'[u])
  <2>1. <<u, n>> \in Thread
    BY LinkFacts
  <2>2. CASE <<u, n>> = Link(s)
    BY <2>2 DEF Link
  <2>3. CASE <<u, n>> # Link(s)
    BY <1>2, <2>1, <2>3 DEF OthersCalls, TypeOK
  <2> QED BY <2>2, <2>3
<1>3. \A u \in Sender :
        /\ todo'[u] # <<>> => step'[u] # "idle" /\ Head(todo'[u]) # Place[u]
        /\ \A n \in Node : stage'[<<u, n>>] # "idle" => todo'[u] # <<>> /\ n = Head(todo'[u])
  BY <1>2 DEF TypeOK
<1>4. /\ (script \in Scripts)' /\ (served \in [Sender -> Nat])'
      /\ \A u \in Sender : served'[u] <= Len(script'[u])
      /\ step' \in [Sender -> {"idle", "all", "one", "others"}]
      /\ todo' \in [Sender -> Seq(Node)]
      /\ {sum', reply'} \subseteq [Sender -> Nat] /\ up' \in SUBSET Node
      /\ undelivered' \in [Sender -> BOOLEAN]
      /\ (online \in SUBSET {c \in Conn : Home[c] \in up})'
  BY DEF TypeOK
<1>5. /\ got' \in [Conn -> Seq(Id')] /\ queued' \in SUBSET Id'
      /\ inflight' \in SUBSET (up' \X Id' \X (1..MaxFaults))
  BY <1>1 DEF TypeOK
<1> QED BY <1>1, <1>3, <1>4, <1>5 DEF TypeOK

LEMMA AskTypes ==
  ASSUME ClusterAssumption, ClusterInv, NEW s \in Sender, Ask(s)
  PROVE  TypeOK' /\ Calls'
<1>1. TypeOK /\ Calls /\ LinkTypeOK /\ todo[s] # <<>> /\ Call(Link(s), "query")
  BY DEF ClusterInv, Ask, TypeOK
<1>2. Link(s) \in Thread
  BY <1>1, AskedFacts
<1>3. LinkTypeOK' /\ Calls' /\ OthersCalls(Link(s))
  BY <1>1, <1>2, CallEffect
<1>4. UNCHANGED <<script, served, step, todo, sum, reply, undelivered, up, online, got, queued,
                  inflight, faults, seen>>
  BY DEF Ask, work, nodes
<1>5. /\ reply' \in [Sender -> Nat] /\ got' \in [Conn -> Seq(Id)]
      /\ inflight' \in SUBSET (up \X Id \X (1..MaxFaults))
      /\ faults' \in 0..MaxFaults /\ seen' \in Seen
  BY <1>1, <1>4 DEF TypeOK
<1> QED BY <1>1, <1>3, <1>4, <1>5, LinkTypes

LEMMA RelinkTypes ==
  ASSUME ClusterAssumption, ClusterInv, NEW s \in Sender, NEW ok \in BOOLEAN, Relink(s, ok)
  PROVE  TypeOK' /\ Calls'
<1>1. TypeOK /\ Calls /\ LinkTypeOK /\ todo[s] # <<>> /\ Reconnect(Link(s), ok)
  BY DEF ClusterInv, Relink, TypeOK
<1>2. Link(s) \in Thread
  BY <1>1, AskedFacts
<1>3. LinkTypeOK' /\ Calls' /\ OthersCalls(Link(s))
  BY <1>1, <1>2, ReconnectEffect
<1>4. UNCHANGED <<script, served, step, todo, sum, reply, undelivered, up, online, got, queued,
                  inflight>>
  BY DEF Relink, work, nodes
<1>5. seen' \in Seen
  BY <1>1, <1>2 DEF Relink, Seen, TypeOK
<1>6. faults' \in 0..MaxFaults
  BY <1>1 DEF Relink, Count, TypeOK, ClusterAssumption
<1>7. /\ reply' \in [Sender -> Nat] /\ got' \in [Conn -> Seq(Id)]
      /\ inflight' \in SUBSET (up \X Id \X (1..MaxFaults))
  BY <1>1, <1>4 DEF TypeOK
<1> QED BY <1>1, <1>3, <1>4, <1>5, <1>6, <1>7, LinkTypes

\* What an attempt is at, and what it may come to.
LEMMA AttemptFacts ==
  ASSUME ClusterAssumption, ClusterInv, NEW s \in Sender, NEW o, Attempted(s, o)
  PROVE  /\ o \in {"ok", "refused", "lost", "unanswered"}
         /\ todo[s] # <<>> /\ Head(todo[s]) \in Node /\ Link(s) \in Thread
         /\ Link(s) = <<s, Head(todo[s])>>
         /\ Current(s) \in Own(s) /\ Current(s) \in Id /\ Busy(s)
         /\ Calls' /\ LinkTypeOK' /\ OthersCalls(Link(s))
         /\ ~Heard(s) /\ ~Failed(s)
         /\ o = "ok" => stage'[Link(s)] = "done" /\ result'[Link(s)] = "ok" /\ Head(todo[s]) \in up
         /\ o # "ok" => \/ stage'[Link(s)] = "reconnect"
                        \/ stage'[Link(s)] = "done" /\ result'[Link(s)] = "error"
         /\ o # "lost" => (o = "refused" <=> ~Understood(s))
         /\ UNCHANGED <<script, served, step, todo, sum, undelivered, up, online, queued>>
<1>1. /\ TypeOK /\ Calls /\ LinkTypeOK /\ todo[s] # <<>> /\ Execute(Link(s), o)
      /\ o \in {"ok", "refused", "lost", "unanswered"} /\ Progress(s)
  BY DEF ClusterInv, Attempted, TypeOK
<1>2. Head(todo[s]) \in Node /\ Link(s) \in Thread /\ Busy(s)
  BY <1>1, AskedFacts
<1>3. /\ LinkTypeOK' /\ Calls' /\ OthersCalls(Link(s))
      /\ stage[Link(s)] \in {"first", "third"}
      /\ o = "ok" => stage'[Link(s)] = "done" /\ result'[Link(s)] = "ok"
      /\ o # "ok" => \/ stage'[Link(s)] = "reconnect"
                     \/ stage'[Link(s)] = "done" /\ result'[Link(s)] = "error"
  BY <1>1, <1>2, ExecuteEffect
<1>4. Current(s) \in Own(s) /\ Current(s) \in Id
  BY <1>1, <1>2, CurrentFacts DEF Progress, Round
<1>5. /\ o = "ok" => Head(todo[s]) \in up
      /\ o # "lost" => (o = "refused" <=> ~Understood(s))
      /\ UNCHANGED <<script, served, step, todo, sum, undelivered, up, online, queued>>
  BY DEF Attempted
<1> QED BY <1>1, <1>2, <1>3, <1>4, <1>5 DEF Heard, Failed, Link

\* An answer: the node has carried the statement out.
LEMMA AnswerFacts ==
  ASSUME ClusterAssumption, ClusterInv, NEW s \in Sender, Attempted(s, "ok")
  PROVE  /\ Run(Head(todo[s]), Current(s)) /\ Understood(s)
         /\ reply' = [reply EXCEPT ![s] = Users(Head(todo[s]), Current(s))]
         /\ UNCHANGED <<inflight, faults>>
         /\ seen' = [seen EXCEPT !.executed = @ \cup
              IF Statement(s).op = "user" THEN {<<Current(s), Head(todo[s])>>} ELSE {}]
<1>1. PICK o : o = "ok"
  OBVIOUS
<1>2. Attempted(s, o)
  BY <1>1
<1>3. Run(Head(todo[s]), Current(s)) /\ Understood(s)
  BY <1>1, <1>2 DEF Attempted
<1>4. reply' = [reply EXCEPT ![s] = Users(Head(todo[s]), Current(s))]
  BY <1>1, <1>2 DEF Attempted
<1>5. UNCHANGED <<inflight, faults>>
  BY <1>1, <1>2 DEF Attempted, MayCome, Count
<1> QED BY <1>3, <1>4, <1>5 DEF Run, Statement

\* No answer, or one that refuses.
LEMMA NoAnswerFacts ==
  ASSUME ClusterAssumption, ClusterInv, NEW s \in Sender,
         NEW o \in {"refused", "lost", "unanswered"}, Attempted(s, o)
  PROVE  /\ UNCHANGED <<got, reply>>
         /\ seen' = [seen EXCEPT
              !.troubled = @ \cup IF o = "refused" THEN {} ELSE {Link(s)},
              !.unheard[Current(s)] = @ + IF o = "unanswered" THEN 1 ELSE 0]
         /\ faults' \in 0..MaxFaults
         /\ \/ UNCHANGED inflight
            \/ /\ o = "unanswered" /\ Understood(s) /\ Head(todo[s]) \in up
               /\ faults' \in 1..MaxFaults
               /\ inflight' = inflight \cup {<<Head(todo[s]), Current(s), faults'>>}
<1>1. faults \in 0..MaxFaults /\ MaxFaults \in Nat
  BY DEF ClusterInv, TypeOK, ClusterAssumption
<1>2. UNCHANGED <<got, reply>>
  BY DEF Attempted
<1>3. seen' = [seen EXCEPT
              !.troubled = @ \cup IF o = "refused" THEN {} ELSE {Link(s)},
              !.unheard[Current(s)] = @ + IF o = "unanswered" THEN 1 ELSE 0]
  BY DEF Attempted
<1>4. \E reached \in BOOLEAN :
        /\ Count(reached /\ o \in {"lost", "unanswered"})
        /\ reached => Head(todo[s]) \in up
        /\ inflight' = inflight \cup
             IF MayCome(o) /\ reached THEN {<<Head(todo[s]), Current(s), faults'>>} ELSE {}
  BY DEF Attempted, ClusterInv, TypeOK, LinkTypeOK
<1>5. o # "lost" => (o = "refused" <=> ~Understood(s))
  BY DEF Attempted
<1> QED BY <1>1, <1>2, <1>3, <1>4, <1>5 DEF Count, MayCome

LEMMA AttemptTypes ==
  ASSUME ClusterAssumption, ClusterInv, NEW s \in Sender, NEW o, Attempted(s, o)
  PROVE  TypeOK' /\ Calls'
<1>1. TypeOK /\ Calls
  BY DEF ClusterInv
<1>2. /\ Calls' /\ LinkTypeOK' /\ OthersCalls(Link(s)) /\ todo[s] # <<>>
      /\ Head(todo[s]) \in Node /\ Link(s) \in Thread /\ Current(s) \in Id
      /\ UNCHANGED <<script, served, step, todo, sum, undelivered, up, online, queued>>
  BY AttemptFacts
<1>3. seen \in Seen /\ online \subseteq Conn
  BY <1>1 DEF TypeOK
<1>4. CASE o = "ok"
  <2>1. /\ Run(Head(todo[s]), Current(s)) /\ UNCHANGED <<inflight, faults>>
        /\ reply' = [reply EXCEPT ![s] = Users(Head(todo[s]), Current(s))]
        /\ seen' = [seen EXCEPT !.executed = @ \cup
              IF Statement(s).op = "user" THEN {<<Current(s), Head(todo[s])>>} ELSE {}]
    BY <1>4, AnswerFacts
  <2>2. got' \in [Conn -> Seq(Id)]
    BY <1>1, <1>2, <2>1, RunDelivers, Delivered
  <2>3. Users(Head(todo[s]), Current(s)) \in Nat
    <3>1. PICK S \in SUBSET Conn : S = {c \in online : Home[c] = Head(todo[s])}
      BY <1>3
    <3>2. Cardinality(S) \in Nat
      BY ConnSets
    <3> QED BY <3>1, <3>2 DEF Users
  <2>4. reply' \in [Sender -> Nat]
    BY <1>1, <2>1, <2>3 DEF TypeOK
  <2>5. seen' \in Seen
    <3> DEFINE e == seen.executed \cup
                 IF Statement(s).op = "user" THEN {<<Current(s), Head(todo[s])>>} ELSE {}
    <3>1. e \in SUBSET (Id \X Node)
      BY <1>2, <1>3 DEF Seen
    <3> HIDE DEF e
    <3>2. seen' = [audience |-> seen.audience, met |-> seen.met, unheard |-> seen.unheard,
                   troubled |-> seen.troubled, executed |-> e,
                   abandoned |-> seen.abandoned, unstored |-> seen.unstored,
                   counts |-> seen.counts]
      BY <1>1, <2>1, SeenFacts DEF e
    <3> QED BY <1>1, <3>1, <3>2, SeenFacts, SeenMade
  <2>6. inflight' \in SUBSET (up \X Id \X (1..MaxFaults)) /\ faults' \in 0..MaxFaults
    BY <1>1, <2>1 DEF TypeOK
  <2> QED BY <1>1, <1>2, <2>2, <2>4, <2>5, <2>6, LinkTypes
<1>5. CASE o # "ok"
  <2>1. PICK p \in {"refused", "lost", "unanswered"} : p = o
    BY <1>5, AttemptFacts
  <2>2. /\ UNCHANGED <<got, reply>> /\ faults' \in 0..MaxFaults
        /\ seen' = [seen EXCEPT
              !.troubled = @ \cup IF p = "refused" THEN {} ELSE {Link(s)},
              !.unheard[Current(s)] = @ + IF p = "unanswered" THEN 1 ELSE 0]
        /\ \/ UNCHANGED inflight
           \/ /\ Head(todo[s]) \in up /\ faults' \in 1..MaxFaults
              /\ inflight' = inflight \cup {<<Head(todo[s]), Current(s), faults'>>}
    <3>1. Attempted(s, p)
      BY <2>1
    <3> QED BY <3>1, NoAnswerFacts, ZenonT(60)
  <2>3. seen' \in Seen
    <3> DEFINE b == seen.troubled \cup IF p = "refused" THEN {} ELSE {Link(s)}
               h == [seen.unheard EXCEPT ![Current(s)] = @ + IF p = "unanswered" THEN 1 ELSE 0]
    <3>1. b \in SUBSET Thread
      BY <1>2, <1>3 DEF Seen
    <3>2. h \in [Id -> Nat]
      <4>1. PICK g \in [Id -> Nat] : g = seen.unheard
        BY <1>1, SeenFacts
      <4>2. PICK id \in Id : id = Current(s)
        BY <1>2
      <4>3. PICK k \in Nat : k = IF p = "unanswered" THEN 1 ELSE 0
        OBVIOUS
      <4>4. [g EXCEPT ![id] = @ + k] \in [Id -> Nat]
        OBVIOUS
      <4> QED BY <4>1, <4>2, <4>3, <4>4
    <3> HIDE DEF b, h
    <3>3. seen' = [audience |-> seen.audience, met |-> seen.met, unheard |-> h,
                   troubled |-> b, executed |-> seen.executed,
                   abandoned |-> seen.abandoned, unstored |-> seen.unstored,
                   counts |-> seen.counts]
      BY <1>1, <2>2, SeenFacts DEF b, h
    <3>4. /\ seen.audience \in [Id -> SUBSET Conn] /\ seen.met \in [Sender -> SUBSET Conn]
          /\ seen.executed \in SUBSET (Id \X Node) /\ seen.abandoned \in SUBSET Id
          /\ seen.unstored \in SUBSET Id
          /\ seen.counts \in SUBSET [users : Nat, least : Nat, most : Nat]
      BY <1>1, SeenFacts
    <3>5. [audience |-> seen.audience, met |-> seen.met, unheard |-> h,
           troubled |-> b, executed |-> seen.executed,
           abandoned |-> seen.abandoned, unstored |-> seen.unstored,
           counts |-> seen.counts] \in Seen
      BY <3>1, <3>2, <3>4 DEF Seen
    <3> QED BY <3>3, <3>5
  <2>4. inflight' \in SUBSET (up \X Id \X (1..MaxFaults))
    <3>1. inflight \in SUBSET (up \X Id \X (1..MaxFaults))
      BY <1>1 DEF TypeOK
    <3>2. CASE UNCHANGED inflight
      BY <3>1, <3>2
    <3>3. CASE /\ Head(todo[s]) \in up /\ faults' \in 1..MaxFaults
               /\ inflight' = inflight \cup {<<Head(todo[s]), Current(s), faults'>>}
      <4>1. <<Head(todo[s]), Current(s), faults'>> \in up \X Id \X (1..MaxFaults)
        BY <1>2, <3>3
      <4> QED BY <3>1, <3>3, <4>1
    <3> QED BY <2>2, <3>2, <3>3
  <2>5. got' \in [Conn -> Seq(Id)] /\ reply' \in [Sender -> Nat]
    BY <1>1, <2>2 DEF TypeOK
  <2> QED BY <1>1, <1>2, <2>2, <2>3, <2>4, <2>5, LinkTypes
<1> QED BY <1>4, <1>5

\* A sender is done with the node it has asked.
LEMMA AskedTypes ==
  ASSUME ClusterAssumption, TypeOK, Calls, NEW s \in Sender, Answered(s),
         NEW how \in {"all", "one", "others"}, NEW list \in Seq(Node),
         Place[s] \notin Range(list), Asked(s, how, list),
         sum' \in [Sender -> Nat], faults' \in 0..MaxFaults, seen' \in Seen
  PROVE  TypeOK' /\ Calls' /\ OthersCalls(Link(s)) /\ stage'[Link(s)] = "idle"
<1>1. /\ todo[s] # <<>> /\ Rest(Link(s))
      /\ UNCHANGED <<script, served, reply, undelivered, up, online, got, queued, inflight>>
      /\ step' = [step EXCEPT ![s] = how] /\ todo' = [todo EXCEPT ![s] = list]
  BY DEF Answered, Asked, nodes
<1>2. Link(s) \in Thread /\ LinkTypeOK
  BY <1>1, AskedFacts DEF TypeOK
<1>3. LinkTypeOK' /\ Calls' /\ OthersCalls(Link(s)) /\ stage'[Link(s)] = "idle"
  BY <1>1, <1>2, CallEffect
<1>4. Id' = Id /\ Seen' = Seen
  BY <1>1, IdKept
<1>5. list # <<>> => Head(list) # Place[s]
  BY HeadFacts
<1>6. ASSUME NEW u \in Sender
      PROVE  /\ todo'[u] # <<>> => step'[u] # "idle" /\ Head(todo'[u]) # Place[u]
             /\ \A n \in Node : stage'[<<u, n>>] # "idle" => todo'[u] # <<>> /\ n = Head(todo'[u])
  <2>1. CASE u = s
    <3>1. step'[u] = how /\ todo'[u] = list
      BY <1>1, <2>1 DEF TypeOK
    <3>2. ASSUME NEW n \in Node PROVE stage'[<<u, n>>] = "idle"
      <4>1. <<u, n>> \in Thread
        BY LinkFacts
      <4>2. <<u, n>> # Link(s) => stage'[<<u, n>>] = stage[<<u, n>>] /\ stage[<<u, n>>] = "idle"
        BY <1>3, <2>1, <4>1, AskedFacts DEF OthersCalls
      <4> QED BY <1>3, <4>2
    <3> QED BY <1>5, <2>1, <3>1, <3>2
  <2>2. CASE u # s
    <3>1. step'[u] = step[u] /\ todo'[u] = todo[u]
      BY <1>1, <2>2 DEF TypeOK
    <3>2. ASSUME NEW n \in Node PROVE stage'[<<u, n>>] = stage[<<u, n>>]
      <4>1. <<u, n>> \in Thread /\ <<u, n>> # Link(s)
        BY <2>2, LinkFacts DEF Link
      <4> QED BY <1>3, <4>1 DEF OthersCalls
    <3>3. /\ todo[u] # <<>> => step[u] # "idle" /\ Head(todo[u]) # Place[u]
          /\ \A n \in Node : stage[<<u, n>>] # "idle" => todo[u] # <<>> /\ n = Head(todo[u])
      BY DEF TypeOK
    <3> QED BY <3>1, <3>2, <3>3
  <2> QED BY <2>1, <2>2
<1>7. /\ (script \in Scripts)' /\ (served \in [Sender -> Nat])'
      /\ \A u \in Sender : served'[u] <= Len(script'[u])
      /\ step' \in [Sender -> {"idle", "all", "one", "others"}]
      /\ todo' \in [Sender -> Seq(Node)]
      /\ {sum', reply'} \subseteq [Sender -> Nat] /\ up' \in SUBSET Node
      /\ undelivered' \in [Sender -> BOOLEAN]
      /\ (online \in SUBSET {c \in Conn : Home[c] \in up})'
  BY <1>1 DEF TypeOK
<1>8. /\ got' \in [Conn -> Seq(Id')] /\ queued' \in SUBSET Id'
      /\ inflight' \in SUBSET (up' \X Id' \X (1..MaxFaults))
  BY <1>1, <1>4 DEF TypeOK
<1> QED BY <1>3, <1>4, <1>6, <1>7, <1>8 DEF TypeOK

\* The nodes that are left do not hold the one a sender runs on.
LEMMA Rests ==
  ASSUME ClusterAssumption, TypeOK, NEW s \in Sender, Progress(s), todo[s] # <<>>
  PROVE  /\ Tail(todo[s]) \in Seq(Node) /\ Place[s] \notin Range(Tail(todo[s]))
         /\ step[s] \in {"one", "others"} =>
              Place[s] = Proxy /\ Place[s] \notin Range(proxyCluster) /\ proxyCluster \in Seq(Node)
         /\ <<>> \in Seq(Node) /\ Place[s] \notin Range(<<>>)
<1>1. todo[s] \in Seq(Node) /\ IsInjective(todo[s]) /\ Place[s] \notin Range(todo[s])
  BY DEF TypeOK, Progress, Round
<1>2. Tail(todo[s]) \in Seq(Node) /\ Range(Tail(todo[s])) = Range(todo[s]) \ {Head(todo[s])}
  BY <1>1, TailFacts
<1>3. step[s] \in {"one", "others"} => Place[s] = Proxy
  BY AskedFacts DEF Progress, Round
<1> QED BY <1>1, <1>2, <1>3, Lists, HeadFacts

LEMMA AskNextTypes ==
  ASSUME ClusterAssumption, ClusterInv, NEW s \in Sender, AskNext(s)
  PROVE  TypeOK' /\ Calls' /\ OthersCalls(Link(s)) /\ stage'[Link(s)] = "idle"
<1>1. /\ TypeOK /\ Calls /\ Progress(s) /\ Answered(s) /\ todo[s] # <<>>
      /\ Asked(s, "all", Tail(todo[s]))
  BY DEF ClusterInv, AskNext, Answered
<1>2. Tail(todo[s]) \in Seq(Node) /\ Place[s] \notin Range(Tail(todo[s]))
  BY <1>1, Rests
<1>3. sum' \in [Sender -> Nat]
  <2>1. PICK f \in [Sender -> Nat] : f = sum
    BY <1>1 DEF TypeOK
  <2>2. PICK k \in Nat : k = IF result[Link(s)] = "ok" THEN reply[s] ELSE 0
    BY <1>1 DEF TypeOK
  <2>3. [f EXCEPT ![s] = @ + k] \in [Sender -> Nat]
    OBVIOUS
  <2> QED BY <2>1, <2>2, <2>3 DEF AskNext
<1>4. faults' \in 0..MaxFaults /\ seen' \in Seen
  BY <1>1 DEF AskNext, TypeOK
<1> QED BY <1>1, <1>2, <1>3, <1>4, AskedTypes

LEMMA AskAgainTypes ==
  ASSUME ClusterAssumption, ClusterInv, NEW s \in Sender, AskAgain(s)
  PROVE  TypeOK' /\ Calls' /\ OthersCalls(Link(s)) /\ stage'[Link(s)] = "idle"
<1>1. /\ TypeOK /\ Calls /\ Progress(s) /\ Answered(s) /\ todo[s] # <<>>
      /\ Asked(s, "all", todo[s])
  BY DEF ClusterInv, AskAgain, Answered
<1>2. todo[s] \in Seq(Node) /\ Place[s] \notin Range(todo[s]) /\ Link(s) \in Thread
  BY <1>1, AskedFacts DEF Progress, Round
<1>3. sum' \in [Sender -> Nat]
  BY <1>1 DEF AskAgain, TypeOK
<1>4. faults' \in 0..MaxFaults
  BY <1>1 DEF AskAgain, Count, TypeOK, ClusterAssumption
<1>5. seen' \in Seen
  BY <1>1, <1>2 DEF AskAgain, Seen, TypeOK
<1> QED BY <1>1, <1>2, <1>3, <1>4, <1>5, AskedTypes

LEMMA AskAnotherTypes ==
  ASSUME ClusterAssumption, ClusterInv, NEW s \in Sender, AskAnother(s)
  PROVE  TypeOK' /\ Calls' /\ OthersCalls(Link(s)) /\ stage'[Link(s)] = "idle"
<1>1. /\ TypeOK /\ Calls /\ Progress(s) /\ Answered(s) /\ todo[s] # <<>>
      /\ step[s] \in {"one", "others"}
  BY DEF ClusterInv, AskAnother, Answered
<1>2. sum' \in [Sender -> Nat] /\ faults' \in 0..MaxFaults /\ seen' \in Seen
  BY <1>1 DEF AskAnother, TypeOK
<1>3. PICK how \in {"one", "others"}, list \in Seq(Node) :
        Asked(s, how, list) /\ Place[s] \notin Range(list)
  <2>1. /\ Tail(todo[s]) \in Seq(Node) /\ Place[s] \notin Range(Tail(todo[s]))
        /\ Place[s] \notin Range(proxyCluster) /\ proxyCluster \in Seq(Node)
        /\ <<>> \in Seq(Node) /\ Place[s] \notin Range(<<>>)
    BY <1>1, Rests
  <2>2. CASE result[Link(s)] = "ok"
    <3>1. Asked(s, step[s], <<>>)
      BY <2>2 DEF AskAnother
    <3> QED BY <1>1, <2>1, <3>1
  <2>3. CASE result[Link(s)] # "ok" /\ step[s] = "one"
    <3>1. Asked(s, "others", proxyCluster)
      BY <2>3 DEF AskAnother
    <3> QED BY <2>1, <3>1
  <2>4. CASE result[Link(s)] # "ok" /\ step[s] # "one"
    <3>1. Asked(s, "others", Tail(todo[s]))
      BY <2>4 DEF AskAnother
    <3> QED BY <2>1, <3>1
  <2> QED BY <2>2, <2>3, <2>4
<1> QED BY <1>1, <1>2, <1>3, AskedTypes

\* A statement ends, whether or not its message could be stored.
Finishing(s) == \E stored \in BOOLEAN : Finish(s, stored)

\* What a sender records when it is done: a count that is true, and at most its
\* own message as not stored.
LEMMA FinishCounts ==
  ASSUME ClusterAssumption, ClusterInv, NEW s \in Sender, Finishing(s)
  PROVE  /\ Current(s) \in Own(s) /\ Current(s) \in Id /\ Busy(s) /\ todo[s] = <<>>
         /\ UNCHANGED <<script, todo, up, online, got, inflight>> /\ UNCHANGED linkVars
         /\ faults' \in 0..MaxFaults
         /\ \E new \in SUBSET [users : Nat, least : Nat, most : Nat],
               lost \in SUBSET {Current(s)} :
              /\ seen' = [seen EXCEPT !.met[s] = {}, !.unstored = @ \cup lost,
                            !.counts = @ \cup new]
              /\ \A r \in new : r.least <= r.users /\ r.users <= r.most
<1>0. PICK stored \in BOOLEAN : Finish(s, stored)
  BY DEF Finishing
<1> DEFINE lost == IF stored THEN {} ELSE {Current(s)}
<1>1. TypeOK /\ Progress(s) /\ Busy(s) /\ todo[s] = <<>>
  BY <1>0 DEF ClusterInv, Finish, Busy
<1>2. Current(s) \in Own(s) /\ Current(s) \in Id
  BY <1>1, CurrentFacts DEF Progress, Round
<1>3. /\ UNCHANGED <<script, todo, up, online, got, inflight>> /\ UNCHANGED linkVars
      /\ faults' \in 0..MaxFaults
  BY <1>0, <1>1 DEF Finish, Count, TypeOK, ClusterAssumption
<1>4. /\ Sure(s) \subseteq Conn /\ seen.met[s] \subseteq Conn
  <2>1. seen.audience \in [Id -> SUBSET Conn] /\ seen.met \in [Sender -> SUBSET Conn]
    BY <1>1, SeenFacts
  <2> QED BY <1>2, <2>1 DEF Sure
<1>5. PICK least \in Nat, most \in Nat :
        least = Cardinality(Sure(s)) /\ most = Cardinality(seen.met[s])
  BY <1>4, ConnSets
<1>6. PICK users \in Nat : users = sum[s]
  BY <1>1 DEF TypeOK
<1>7. Counting(s) => least <= users /\ users <= most
  <2>1. On(Sure(s), s) = Sure(s) /\ On(seen.met[s], s) = seen.met[s]
    BY <1>1, HeadFacts DEF On
  <2>2. Counting(s) => /\ Cardinality(On(Sure(s), s)) <= sum[s]
                       /\ sum[s] <= Cardinality(On(seen.met[s], s))
    BY <1>1 DEF Progress, Adding
  <2> QED BY <1>5, <1>6, <2>1, <2>2
<1> DEFINE r == [users |-> users, least |-> least, most |-> most]
           new == IF Statement(s).op = "count" THEN {r} ELSE {}
<1>8. r \in [users : Nat, least : Nat, most : Nat]
  OBVIOUS
<1>9. Counting(s) <=> Statement(s).op = "count"
  BY <1>1 DEF Counting, Busy
<1>10. seen' = [seen EXCEPT !.met[s] = {}, !.unstored = @ \cup lost,
                   !.counts = @ \cup new]
  BY <1>0, <1>5, <1>6 DEF Finish, Sure
<1>11. \A x \in new : x.least <= x.users /\ x.users <= x.most
  BY <1>7, <1>9
<1>12. new \in SUBSET [users : Nat, least : Nat, most : Nat]
  BY <1>8
<1>13. lost \in SUBSET {Current(s)}
  OBVIOUS
<1> HIDE DEF new, lost
<1> QED BY <1>1, <1>2, <1>3, <1>10, <1>11, <1>12, <1>13

LEMMA FinishTypes ==
  ASSUME ClusterAssumption, ClusterInv, NEW s \in Sender,
         NEW stored \in BOOLEAN, Finish(s, stored)
  PROVE  TypeOK' /\ Calls' /\ CountIsTrue'
<1>0. Finishing(s)
  BY Zenon DEF Finishing
<1>1. TypeOK /\ Calls /\ CountIsTrue /\ Progress(s)
  BY DEF ClusterInv
<1>2. /\ Current(s) \in Own(s) /\ Current(s) \in Id /\ todo[s] = <<>> /\ Busy(s)
      /\ UNCHANGED <<script, todo, up, online, got, inflight>> /\ UNCHANGED linkVars
      /\ faults' \in 0..MaxFaults
  BY <1>0, FinishCounts
<1>3. PICK new \in SUBSET [users : Nat, least : Nat, most : Nat],
           lost \in SUBSET {Current(s)} :
        /\ seen' = [seen EXCEPT !.met[s] = {}, !.unstored = @ \cup lost,
                      !.counts = @ \cup new]
        /\ \A r \in new : r.least <= r.users /\ r.users <= r.most
  BY <1>0, FinishCounts
<1>4. LinkTypeOK' /\ Calls' /\ UNCHANGED stage
  BY <1>1, <1>2 DEF TypeOK, LinkTypeOK, Calls, linkVars
<1>5. Id' = Id /\ Seen' = Seen
  BY <1>2, IdKept
<1>6. seen' \in Seen
  <2>1. lost \subseteq Id /\ seen \in Seen
    BY <1>1, <1>2 DEF TypeOK
  <2>2. seen.unstored \cup lost \in SUBSET Id
    BY <2>1 DEF Seen
  <2>3. seen.counts \cup new \in SUBSET [users : Nat, least : Nat, most : Nat]
    BY <2>1 DEF Seen
  <2>4. [seen.met EXCEPT ![s] = {}] \in [Sender -> SUBSET Conn]
    BY <2>1 DEF Seen
  <2> QED BY <1>3, <2>1, <2>2, <2>3, <2>4 DEF Seen
<1>7. CountIsTrue'
  BY <1>1, <1>3 DEF CountIsTrue, TypeOK, Seen
<1>8. /\ served' = [served EXCEPT ![s] = @ + 1] /\ step' = [step EXCEPT ![s] = "idle"]
      /\ sum' = [sum EXCEPT ![s] = 0] /\ reply' = [reply EXCEPT ![s] = 0]
      /\ undelivered' = [undelivered EXCEPT ![s] = FALSE]
      /\ queued' = queued \cup
           IF ToStore(s) /\ stored THEN {Current(s)} ELSE {}
  BY DEF Finish
<1>9. /\ served' \in [Sender -> Nat]
      /\ \A u \in Sender : served'[u] <= Len(script'[u])
  <2>1. PICK f \in [Sender -> Nat] : f = served
    BY <1>1 DEF TypeOK
  <2>2. [f EXCEPT ![s] = @ + 1] \in [Sender -> Nat]
    OBVIOUS
  <2>3. served[s] < Len(script[s]) /\ Len(script[s]) \in Nat /\ served[s] \in Nat
    BY <1>1, <1>2, CurrentFacts DEF Progress, Round
  <2>4. served'[s] = served[s] + 1 /\ \A u \in Sender \ {s} : served'[u] = served[u]
    BY <1>8, <2>1
  <2>5. served'[s] <= Len(script'[s])
    BY <1>2, <2>3, <2>4
  <2>6. \A u \in Sender \ {s} : served'[u] <= Len(script'[u])
    BY <1>1, <1>2, <2>4 DEF TypeOK
  <2> QED BY <1>8, <2>1, <2>2, <2>5, <2>6
<1>10. /\ step' \in [Sender -> {"idle", "all", "one", "others"}]
       /\ todo' \in [Sender -> Seq(Node)]
       /\ {sum', reply'} \subseteq [Sender -> Nat] /\ undelivered' \in [Sender -> BOOLEAN]
  BY <1>1, <1>2, <1>8 DEF TypeOK
<1>11. ASSUME NEW u \in Sender
       PROVE  /\ todo'[u] # <<>> => step'[u] # "idle" /\ Head(todo'[u]) # Place[u]
              /\ \A n \in Node : stage'[<<u, n>>] # "idle" => todo'[u] # <<>> /\ n = Head(todo'[u])
  <2>1. /\ todo[u] # <<>> => step[u] # "idle" /\ Head(todo[u]) # Place[u]
        /\ \A n \in Node : stage[<<u, n>>] # "idle" => todo[u] # <<>> /\ n = Head(todo[u])
    BY <1>1 DEF TypeOK
  <2>2. u # s => step'[u] = step[u]
    BY <1>1, <1>8 DEF TypeOK
  <2> QED BY <1>2, <1>4, <2>1, <2>2
<1>12. queued' \in SUBSET Id
  BY <1>1, <1>2, <1>8 DEF TypeOK
<1>13. /\ (script \in Scripts)' /\ up' \in SUBSET Node
       /\ (online \in SUBSET {c \in Conn : Home[c] \in up})'
       /\ got' \in [Conn -> Seq(Id)] /\ inflight' \in SUBSET (up' \X Id \X (1..MaxFaults))
       /\ faults' \in 0..MaxFaults
  BY <1>1, <1>2 DEF TypeOK
<1> QED BY <1>4, <1>5, <1>6, <1>7, <1>9, <1>10, <1>11, <1>12, <1>13 DEF TypeOK

\* A statement that is carried out late.
LEMMA LateTypes ==
  ASSUME ClusterAssumption, ClusterInv, NEW n \in Node, NEW id \in Id, NEW k \in 1..MaxFaults,
         <<n, id, k>> \in inflight, inflight' = inflight \ {<<n, id, k>>}, Run(n, id),
         UNCHANGED <<work, up, online, queued, faults, linkVars>>
  PROVE  TypeOK' /\ Calls' /\ CountIsTrue'
<1>1. TypeOK /\ Calls /\ CountIsTrue
  BY DEF ClusterInv
<1>2. /\ UNCHANGED <<script, served, step, todo, sum, reply, undelivered>>
      /\ UNCHANGED <<stage, kind, usable, applied, unheard, result>>
  BY DEF work, linkVars
<1>3. LinkTypeOK' /\ Calls'
  BY <1>1, <1>2 DEF TypeOK, LinkTypeOK, Calls
<1>4. Id' = Id /\ Seen' = Seen
  BY <1>2, IdKept
<1>5. got' \in [Conn -> Seq(Id)]
  BY <1>1, <1>2, RunDelivers, Delivered
<1>6. PICK e \in SUBSET (Id \X Node) : seen' = [seen EXCEPT !.executed = @ \cup e]
  <2>1. (IF Of(id).op = "user" THEN {<<id, n>>} ELSE {}) \in SUBSET (Id \X Node)
    OBVIOUS
  <2> QED BY <2>1 DEF Run
<1>7. seen' \in Seen /\ seen'.counts = seen.counts
  BY <1>1, <1>6 DEF TypeOK, Seen
<1>8. CountIsTrue'
  BY <1>1, <1>7 DEF CountIsTrue
<1> QED BY <1>1, <1>2, <1>3, <1>4, <1>5, <1>7, <1>8 DEF TypeOK

\* What the end of a process takes with it.
LEMMA CrashFacts ==
  ASSUME ClusterAssumption, TypeOK, NEW n \in Node, Crash(n)
  PROVE  /\ UNCHANGED <<script, sum, reply, got, queued, kind, usable, applied, unheard, result>>
         /\ online' = {c \in online : Home[c] # n}
         /\ inflight' = {f \in inflight : f[1] # n}
         /\ seen' = [seen EXCEPT
              !.troubled = @ \cup {t \in Thread : t[2] = n},
              !.abandoned = @ \cup {id \in Id : Place[id[1]] = n /\ id[2] > served[id[1]]}]
<1> DEFINE gone == {s \in Sender : Place[s] = n}
<1>1. /\ UNCHANGED <<script, sum, reply, got, queued, kind, usable, applied, unheard, result>>
      /\ online' = {c \in online : Home[c] # n}
      /\ inflight' = {f \in inflight : f[1] # n}
      /\ seen' = [seen EXCEPT
           !.troubled = @ \cup {t \in Thread : t[2] = n},
           !.abandoned = @ \cup {id \in Id : id[1] \in gone /\ id[2] > served[id[1]]}]
  BY DEF Crash
<1>2. \A id \in Id : id[1] \in gone <=> Place[id[1]] = n
  BY IdFacts
<1>3. {id \in Id : id[1] \in gone /\ id[2] > served[id[1]]}
        = {id \in Id : Place[id[1]] = n /\ id[2] > served[id[1]]}
  BY <1>2
<1> QED BY <1>1, <1>3

\* Its senders and those of the other nodes.
LEMMA CrashSender ==
  ASSUME ClusterAssumption, TypeOK, NEW n \in Node, Crash(n), NEW s \in Sender
  PROVE  /\ Place[s] = n => /\ served'[s] = Len(script[s]) /\ step'[s] = "idle"
                            /\ todo'[s] = <<>> /\ undelivered'[s] = FALSE
         /\ Place[s] # n => /\ served'[s] = served[s] /\ step'[s] = step[s]
                            /\ todo'[s] = todo[s] /\ undelivered'[s] = undelivered[s]
<1>1. undelivered[s] \in BOOLEAN
  BY DEF TypeOK
<1> QED BY <1>1 DEF Crash

LEMMA CrashCall ==
  ASSUME ClusterAssumption, NEW n \in Node, Crash(n), NEW s \in Sender, NEW m \in Node
  PROVE  stage'[<<s, m>>] = IF Place[s] = n THEN "idle" ELSE stage[<<s, m>>]
<1>1. <<s, m>> \in Thread /\ <<s, m>>[1] = s
  BY LinkFacts
<1> QED BY <1>1 DEF Crash

LEMMA CrashTypes ==
  ASSUME ClusterAssumption, ClusterInv, NEW n \in Node, Crash(n)
  PROVE  TypeOK' /\ Calls' /\ CountIsTrue'
<1>1. TypeOK /\ Calls /\ CountIsTrue
  BY DEF ClusterInv
<1>2. /\ UNCHANGED <<script, sum, reply, got, queued, kind, usable, applied, unheard, result>>
      /\ online' = {c \in online : Home[c] # n}
      /\ inflight' = {f \in inflight : f[1] # n}
  BY <1>1, CrashFacts
<1>3. /\ up' = up \ {n} /\ faults' \in 0..MaxFaults
  BY <1>1 DEF Crash, Count, TypeOK, ClusterAssumption
<1>4. stage' \in [Thread -> {"idle"} \cup {stage[t] : t \in Thread}]
      /\ \A t \in Thread : stage'[t] \in {"idle", stage[t]}
  BY DEF Crash
<1>5. LinkTypeOK'
  <2>1. stage \in [Thread -> Stage]
    BY <1>1 DEF TypeOK, LinkTypeOK
  <2>2. stage' \in [Thread -> Stage]
    BY <1>4, <2>1 DEF Stage
  <2> QED BY <1>1, <1>2, <2>2 DEF TypeOK, LinkTypeOK
<1>6. Calls'
  BY <1>1, <1>2, <1>4 DEF Calls
<1>7. Id' = Id /\ Seen' = Seen
  BY <1>2, IdKept
<1>8. PICK old \in SUBSET Thread, lost \in SUBSET Id :
        seen' = [seen EXCEPT !.troubled = @ \cup old, !.abandoned = @ \cup lost]
  <2>1. seen' = [seen EXCEPT
              !.troubled = @ \cup {t \in Thread : t[2] = n},
              !.abandoned = @ \cup {id \in Id : Place[id[1]] = n /\ id[2] > served[id[1]]}]
    BY <1>1, CrashFacts
  <2> QED BY <2>1
<1>9. seen' \in Seen /\ seen'.counts = seen.counts
  BY <1>1, <1>8 DEF TypeOK, Seen
<1>10. CountIsTrue'
  BY <1>1, <1>9 DEF CountIsTrue
<1>11. /\ served' \in [Sender -> Nat] /\ step' \in [Sender -> {"idle", "all", "one", "others"}]
       /\ todo' \in [Sender -> Seq(Node)] /\ undelivered' \in [Sender -> BOOLEAN]
  <2>1. \A s \in Sender : Len(script[s]) \in Nat /\ served[s] \in Nat
    BY <1>1, CurrentFacts
  <2>2. \A s \in Sender : /\ step[s] \in {"idle", "all", "one", "others"}
                          /\ todo[s] \in Seq(Node) /\ undelivered[s] \in BOOLEAN
    BY <1>1 DEF TypeOK
  <2>3. <<>> \in Seq(Node)
    OBVIOUS
  <2> QED BY <2>1, <2>2, <2>3 DEF Crash
<1>12. ASSUME NEW s \in Sender
       PROVE  /\ served'[s] <= Len(script'[s])
              /\ todo'[s] # <<>> => step'[s] # "idle" /\ Head(todo'[s]) # Place[s]
              /\ \A m \in Node : stage'[<<s, m>>] # "idle" => todo'[s] # <<>> /\ m = Head(todo'[s])
  <2>1. /\ served[s] <= Len(script[s])
        /\ todo[s] # <<>> => step[s] # "idle" /\ Head(todo[s]) # Place[s]
        /\ \A m \in Node : stage[<<s, m>>] # "idle" => todo[s] # <<>> /\ m = Head(todo[s])
    BY <1>1 DEF TypeOK
  <2>2. script' = script /\ Len(script[s]) \in Nat
    BY <1>1, <1>2, CurrentFacts
  <2>3. served'[s] <= Len(script'[s])
    <3>1. served'[s] = Len(script[s]) \/ served'[s] = served[s]
      BY <1>1, CrashSender
    <3> QED BY <2>1, <2>2, <3>1
  <2>4. todo'[s] # <<>> => step'[s] # "idle" /\ Head(todo'[s]) # Place[s]
    BY <1>1, <2>1, CrashSender
  <2>5. ASSUME NEW m \in Node, stage'[<<s, m>>] # "idle"
        PROVE  todo'[s] # <<>> /\ m = Head(todo'[s])
    <3>1. Place[s] # n /\ stage[<<s, m>>] # "idle"
      BY <2>5, CrashCall
    <3>2. todo'[s] = todo[s]
      BY <1>1, <3>1, CrashSender, ZenonT(30)
    <3> QED BY <2>1, <3>1, <3>2
  <2> QED BY <2>3, <2>4, <2>5
<1>13. /\ up' \in SUBSET Node /\ online' \in SUBSET {c \in Conn : Home[c] \in up'}
       /\ queued' \in SUBSET Id /\ got' \in [Conn -> Seq(Id)]
       /\ (script \in Scripts)' /\ {sum', reply'} \subseteq [Sender -> Nat]
  BY <1>1, <1>2, <1>3 DEF TypeOK
<1>14. inflight' \in SUBSET (up' \X Id \X (1..MaxFaults))
  <2>1. inflight \in SUBSET (up \X Id \X (1..MaxFaults))
    BY <1>1 DEF TypeOK
  <2> QED BY <1>2, <1>3, <2>1
<1> QED BY <1>3, <1>5, <1>6, <1>7, <1>9, <1>10, <1>11, <1>12, <1>13, <1>14 DEF TypeOK

LEMMA RestartTypes ==
  ASSUME ClusterAssumption, ClusterInv, NEW n \in Node, Restart(n)
  PROVE  TypeOK' /\ Calls' /\ CountIsTrue'
<1>1. TypeOK /\ Calls /\ CountIsTrue
  BY DEF ClusterInv
<1>2. /\ UNCHANGED <<script, served, step, todo, sum, reply, undelivered>>
      /\ UNCHANGED <<stage, kind, usable, applied, unheard, result>>
      /\ UNCHANGED <<online, got, queued, inflight, faults, seen>>
      /\ up' = up \cup {n}
  BY DEF Restart, work, linkVars
<1>3. LinkTypeOK' /\ Calls' /\ CountIsTrue'
  BY <1>1, <1>2 DEF TypeOK, LinkTypeOK, Calls, CountIsTrue
<1>4. Id' = Id /\ Seen' = Seen
  BY <1>2, IdKept
<1>5. /\ up' \in SUBSET Node /\ online' \in SUBSET {c \in Conn : Home[c] \in up'}
      /\ inflight' \in SUBSET (up' \X Id \X (1..MaxFaults))
  BY <1>1, <1>2 DEF TypeOK
<1> QED BY <1>1, <1>2, <1>3, <1>4, <1>5 DEF TypeOK

LEMMA JoinTypes ==
  ASSUME ClusterAssumption, ClusterInv, NEW c \in Conn, Join(c)
  PROVE  TypeOK' /\ Calls' /\ CountIsTrue'
<1>1. TypeOK /\ Calls /\ CountIsTrue
  BY DEF ClusterInv
<1>2. /\ UNCHANGED <<script, served, step, todo, sum, reply, undelivered>>
      /\ UNCHANGED <<stage, kind, usable, applied, unheard, result>>
      /\ UNCHANGED <<up, got, queued, inflight, faults>>
      /\ online' = online \cup {c} /\ Home[c] \in up
  BY DEF Join, work, linkVars
<1>3. LinkTypeOK' /\ Calls'
  BY <1>1, <1>2 DEF TypeOK, LinkTypeOK, Calls
<1>4. Id' = Id /\ Seen' = Seen
  BY <1>2, IdKept
<1>5. PICK met \in [Sender -> SUBSET Conn] : seen' = [seen EXCEPT !.met = met]
  <2>1. \A s \in Sender : seen.met[s] \in SUBSET Conn
    BY <1>1, SeenFacts
  <2> DEFINE met == [s \in Sender |-> seen.met[s] \cup IF Counting(s) THEN {c} ELSE {}]
  <2>2. met \in [Sender -> SUBSET Conn]
    BY <2>1
  <2> QED BY <2>2 DEF Join
<1>6. seen' \in Seen /\ seen'.counts = seen.counts
  BY <1>1, <1>5 DEF TypeOK, Seen
<1>7. CountIsTrue'
  BY <1>1, <1>6 DEF CountIsTrue
<1>8. online' \in SUBSET {d \in Conn : Home[d] \in up'}
  BY <1>1, <1>2 DEF TypeOK
<1> QED BY <1>1, <1>2, <1>3, <1>4, <1>6, <1>7, <1>8 DEF TypeOK

-----------------------------------------------------------------------------
\* What a sender has no part in: the steps of the others, and most of the nodes'

\* The part of a step that a sender has no part in which is the same for all
\* steps of another: its statements and its links are not those of the other.
LEMMA Others ==
  ASSUME ClusterAssumption, TypeOK, NEW s \in Sender, NEW u \in Sender, u # s
  PROVE  /\ \A id \in Own(u) : id # Current(s) /\ id \in Id
         /\ Current(s)[1] # u
         /\ \A n \in Node : <<u, n>> \in Thread /\ <<u, n>> # Link(s)
BY CurrentFacts, LinkFacts DEF Link

LEMMA OthersLinks ==
  ASSUME ClusterAssumption, NEW s \in Sender, NEW u \in Sender, u # s,
         OthersCalls(Link(s)) \/ UNCHANGED linkVars
  PROVE  \A n \in Node : stage'[<<u, n>>] = stage[<<u, n>>] /\ result'[<<u, n>>] = result[<<u, n>>]
<1>1. \A n \in Node : <<u, n>> \in Thread /\ <<u, n>> # Link(s)
  BY LinkFacts DEF Link
<1> QED BY <1>1 DEF OthersCalls, linkVars

LEMMA GoApart ==
  ASSUME ClusterAssumption, TypeOK, NEW s \in Sender, NEW u \in Sender, u # s, Ready(s),
         NEW how, NEW list, Go(s, how, list),
         undelivered'[u] = undelivered[u],
         UNCHANGED got \/ \E n \in Node : Deliver(n, Current(s))
  PROVE  Apart(u)
<1>1. /\ UNCHANGED <<script, served, sum, reply, up, online, queued, inflight, faults>>
      /\ UNCHANGED linkVars
      /\ step' = [step EXCEPT ![s] = how] /\ todo' = [todo EXCEPT ![s] = list]
  BY DEF Go
<1>2. /\ served'[u] = served[u] /\ step'[u] = step[u] /\ todo'[u] = todo[u]
      /\ sum'[u] = sum[u] /\ reply'[u] = reply[u]
  BY <1>1 DEF TypeOK
<1>3. \A n \in Node : stage'[<<u, n>>] = stage[<<u, n>>] /\ result'[<<u, n>>] = result[<<u, n>>]
  BY <1>1, OthersLinks
<1>4. Current(s) \in Id /\ \A id \in Own(u) : id # Current(s) /\ id \in Id
  BY CurrentFacts, Others DEF Ready
<1>5. /\ \A c \in Conn : \A i \in DOMAIN got'[c] :
           got'[c][i][1] = u => i \in DOMAIN got[c] /\ got'[c][i] = got[c][i]
      /\ \A id \in Own(u) : \A c \in Conn : Times(id, c)' = Times(id, c)
  BY <1>1, <1>4, Others, GotApart
<1>6. /\ seen'.unheard = seen.unheard /\ seen'.executed = seen.executed
      /\ seen'.troubled = seen.troubled /\ seen'.abandoned = seen.abandoned
      /\ seen'.unstored = seen.unstored
      /\ seen'.met[u] = seen.met[u]
      /\ \A id \in Own(u) : seen'.audience[id] = seen.audience[id]
  <2>1. seen \in Seen
    BY DEF TypeOK
  <2>2. seen' = [seen EXCEPT !.audience[Current(s)] = online,
                             !.met[s] = IF Statement(s).op = "count" THEN online ELSE {}]
    BY DEF Go, Begun
  <2> QED BY <1>4, <2>1, <2>2 DEF Seen
<1> QED BY <1>1, <1>2, <1>3, <1>5, <1>6 DEF Apart

LEMMA RouteApart ==
  ASSUME ClusterAssumption, ClusterInv, NEW s \in Sender, NEW u \in Sender, u # s, Route(s)
  PROVE  Apart(u)
<1>1. /\ TypeOK /\ Ready(s) /\ undelivered'[u] = undelivered[u] /\ UNCHANGED got
      /\ \E how, list : Go(s, how, list)
  BY DEF ClusterInv, Route
<1> QED BY <1>1, GoApart

LEMMA SendHereApart ==
  ASSUME ClusterAssumption, ClusterInv, NEW s \in Sender, NEW u \in Sender, u # s, SendHere(s)
  PROVE  Apart(u)
<1>1. /\ TypeOK /\ Ready(s) /\ \E how, list : Go(s, how, list)
      /\ Deliver(Place[s], Current(s))
  BY DEF ClusterInv, SendHere
<1>2. Place[s] \in Node
  BY <1>1 DEF SendHere, TypeOK
<1>3. undelivered'[u] = undelivered[u]
  BY <1>1 DEF SendHere, TypeOK
<1>4. PICK how, list : Go(s, how, list)
  BY <1>1
<1>5. \E n \in Node : Deliver(n, Current(s))
  BY <1>1, <1>2
<1> QED BY <1>1, <1>3, <1>4, <1>5, GoApart

\* Steps of a sender that leave no trace.
LEMMA QuietApart ==
  ASSUME ClusterAssumption, TypeOK, NEW s \in Sender, NEW u \in Sender, u # s,
         OthersCalls(Link(s)),
         UNCHANGED <<script, served, reply, undelivered, online, got, queued, inflight>>,
         step'[u] = step[u], todo'[u] = todo[u], sum'[u] = sum[u],
         NEW new, seen' = [seen EXCEPT !.troubled = @ \cup new]
  PROVE  Apart(u)
<1>1. /\ seen'.unheard = seen.unheard /\ seen'.executed = seen.executed
      /\ seen.troubled \subseteq seen'.troubled /\ seen'.abandoned = seen.abandoned
      /\ seen'.met = seen.met /\ seen'.audience = seen.audience
      /\ seen'.unstored = seen.unstored
  BY DEF TypeOK, Seen
<1>2. \A n \in Node : stage'[<<u, n>>] = stage[<<u, n>>] /\ result'[<<u, n>>] = result[<<u, n>>]
  BY OthersLinks
<1>3. \A id \in Own(u) : \A c \in Conn : Times(id, c)' = Times(id, c)
  BY DEF Times
<1> QED BY <1>1, <1>2, <1>3 DEF Apart

LEMMA AskApart ==
  ASSUME ClusterAssumption, ClusterInv, NEW s \in Sender, NEW u \in Sender, u # s,
         Ask(s) \/ \E ok \in BOOLEAN : Relink(s, ok)
  PROVE  Apart(u)
<1>1. TypeOK /\ Calls /\ LinkTypeOK /\ todo[s] # <<>>
  BY DEF ClusterInv, TypeOK, Ask, Relink
<1>2. Link(s) \in Thread
  BY <1>1, AskedFacts
<1>3. OthersCalls(Link(s))
  BY <1>1, <1>2, CallEffect, ReconnectEffect DEF Ask, Relink
<1>4. UNCHANGED <<script, served, step, todo, sum, reply, undelivered, online, got, queued,
                  inflight>>
  BY DEF Ask, Relink, work, nodes
<1>5. PICK new : seen' = [seen EXCEPT !.troubled = @ \cup new]
  <2>1. CASE Ask(s)
    <3>1. seen' = [seen EXCEPT !.troubled = @ \cup {}]
      BY <1>1, <2>1 DEF Ask, TypeOK, Seen
    <3> QED BY <3>1
  <2>2. CASE \E ok \in BOOLEAN : Relink(s, ok)
    BY <2>2 DEF Relink
  <2> QED BY <2>1, <2>2
<1> QED BY <1>1, <1>3, <1>4, <1>5, QuietApart

LEMMA AskedApart ==
  ASSUME ClusterAssumption, ClusterInv, NEW s \in Sender, NEW u \in Sender, u # s,
         AskNext(s) \/ AskAgain(s) \/ AskAnother(s)
  PROVE  Apart(u)
<1>1. TypeOK /\ seen \in Seen
  BY DEF ClusterInv, TypeOK
<1>2. OthersCalls(Link(s))
  BY AskNextTypes, AskAgainTypes, AskAnotherTypes
<1>3. PICK how, list : Asked(s, how, list)
  <2>1. AskNext(s) => Asked(s, "all", Tail(todo[s]))
    BY DEF AskNext
  <2>2. AskAgain(s) => Asked(s, "all", todo[s])
    BY DEF AskAgain
  <2>3. AskAnother(s) => \E how, list : Asked(s, how, list)
    BY DEF AskAnother
  <2> QED BY <2>1, <2>2, <2>3
<1>4. /\ UNCHANGED <<script, served, reply, undelivered, online, got, queued, inflight>>
      /\ step'[u] = step[u] /\ todo'[u] = todo[u]
  BY <1>1, <1>3 DEF Asked, nodes, TypeOK
<1>5. sum'[u] = sum[u]
  BY <1>1 DEF AskNext, AskAgain, AskAnother, TypeOK
<1>6. PICK new : seen' = [seen EXCEPT !.troubled = @ \cup new]
  <2>1. CASE AskAgain(s)
    BY <2>1 DEF AskAgain
  <2>2. CASE AskNext(s) \/ AskAnother(s)
    <3>1. seen' = [seen EXCEPT !.troubled = @ \cup {}]
      BY <1>1, <2>2 DEF AskNext, AskAnother, Seen
    <3> QED BY <3>1
  <2> QED BY <2>1, <2>2
<1> QED BY <1>1, <1>2, <1>4, <1>5, <1>6, QuietApart

LEMMA AttemptApart ==
  ASSUME ClusterAssumption, ClusterInv, NEW s \in Sender, NEW u \in Sender, u # s,
         NEW o, Attempted(s, o)
  PROVE  Apart(u)
<1>1. TypeOK /\ seen \in Seen
  BY DEF ClusterInv, TypeOK
<1>2. /\ o \in {"ok", "refused", "lost", "unanswered"} /\ Head(todo[s]) \in Node
      /\ OthersCalls(Link(s)) /\ Current(s) \in Id
      /\ UNCHANGED <<script, served, step, todo, sum, undelivered, up, online, queued>>
  BY AttemptFacts
<1>3. /\ \A n \in Node : stage'[<<u, n>>] = stage[<<u, n>>] /\ result'[<<u, n>>] = result[<<u, n>>]
      /\ \A id \in Own(u) : id # Current(s) /\ id \in Id
      /\ Current(s)[1] # u
  BY <1>1, <1>2, OthersLinks, Others
<1>4. CASE o = "ok"
  <2>1. /\ Run(Head(todo[s]), Current(s)) /\ UNCHANGED inflight
        /\ reply' = [reply EXCEPT ![s] = Users(Head(todo[s]), Current(s))]
        /\ seen' = [seen EXCEPT !.executed = @ \cup
              IF Statement(s).op = "user" THEN {<<Current(s), Head(todo[s])>>} ELSE {}]
    BY <1>4, AnswerFacts
  <2>2. Deliver(Head(todo[s]), Current(s))
    BY <1>1, <1>2, <2>1, RunDelivers
  <2>3. /\ \A c \in Conn : \A i \in DOMAIN got'[c] :
             got'[c][i][1] = u => i \in DOMAIN got[c] /\ got'[c][i] = got[c][i]
        /\ \A id \in Own(u) : \A c \in Conn : Times(id, c)' = Times(id, c)
    BY <1>1, <1>2, <1>3, <2>2, GotApart
  <2>4. /\ seen'.unheard = seen.unheard /\ seen'.troubled = seen.troubled
        /\ seen'.abandoned = seen.abandoned /\ seen'.met = seen.met
        /\ seen'.audience = seen.audience /\ seen'.unstored = seen.unstored
    BY <1>1, <2>1 DEF Seen
  <2>5. ASSUME NEW id \in Own(u), NEW n \in Node
        PROVE  <<id, n>> \in seen'.executed <=> <<id, n>> \in seen.executed
    <3>1. \A e \in seen'.executed : e \in seen.executed \/ e[1] = Current(s)
      BY <1>1, <2>1 DEF Seen
    <3>2. seen.executed \subseteq seen'.executed
      BY <1>1, <2>1 DEF Seen
    <3>3. <<id, n>>[1] # Current(s)
      BY <1>3
    <3> QED BY <3>1, <3>2, <3>3
  <2>6. reply'[u] = reply[u]
    BY <1>1, <2>1 DEF TypeOK
  <2> QED BY <1>2, <1>3, <2>1, <2>3, <2>4, <2>5, <2>6 DEF Apart
<1>5. CASE o # "ok"
  <2>1. PICK p \in {"refused", "lost", "unanswered"} : p = o
    BY <1>2, <1>5
  <2>2. Attempted(s, p)
    BY <2>1
  <2>3. /\ UNCHANGED <<got, reply>>
        /\ seen' = [seen EXCEPT
              !.troubled = @ \cup IF p = "refused" THEN {} ELSE {Link(s)},
              !.unheard[Current(s)] = @ + IF p = "unanswered" THEN 1 ELSE 0]
        /\ \/ UNCHANGED inflight
           \/ inflight' = inflight \cup {<<Head(todo[s]), Current(s), faults'>>}
    BY <2>2, NoAnswerFacts, ZenonT(30)
  <2>4. /\ seen'.executed = seen.executed /\ seen.troubled \subseteq seen'.troubled
        /\ seen'.abandoned = seen.abandoned /\ seen'.met = seen.met
        /\ seen'.audience = seen.audience /\ seen'.unstored = seen.unstored
    BY <1>1, <2>3 DEF Seen
  <2>5. \A id \in Own(u) : seen'.unheard[id] = seen.unheard[id]
    <3>1. PICK k : k = IF p = "unanswered" THEN 1 ELSE 0
      OBVIOUS
    <3>2. seen'.unheard = [seen.unheard EXCEPT ![Current(s)] = @ + k]
      BY <1>1, <2>3, <3>1 DEF Seen
    <3>3. seen.unheard \in [Id -> Nat]
      BY <1>1, SeenFacts
    <3> QED BY <1>3, <3>2, <3>3
  <2>6. \A f \in inflight' : f \in inflight \/ f[2] = Current(s)
    BY <2>3
  <2>7. \A id \in Own(u) : \A c \in Conn : Times(id, c)' = Times(id, c)
    BY <2>3 DEF Times
  <2> QED BY <1>2, <1>3, <2>3, <2>4, <2>5, <2>6, <2>7 DEF Apart
<1> QED BY <1>4, <1>5

LEMMA FinishApart ==
  ASSUME ClusterAssumption, ClusterInv, NEW s \in Sender, NEW u \in Sender, u # s,
         NEW stored \in BOOLEAN, Finish(s, stored)
  PROVE  Apart(u)
<1>0. Finishing(s)
  BY Zenon DEF Finishing
<1>1. TypeOK /\ seen \in Seen
  BY DEF ClusterInv, TypeOK
<1>2. UNCHANGED <<script, todo, up, online, got, inflight>> /\ UNCHANGED linkVars
  BY <1>0, FinishCounts
<1>3. PICK new \in SUBSET [users : Nat, least : Nat, most : Nat],
           lost \in SUBSET {Current(s)} :
        seen' = [seen EXCEPT !.met[s] = {}, !.unstored = @ \cup lost,
                   !.counts = @ \cup new]
  BY <1>0, FinishCounts
<1>4. /\ seen'.unheard = seen.unheard /\ seen'.executed = seen.executed
      /\ seen'.troubled = seen.troubled /\ seen'.abandoned = seen.abandoned
      /\ seen'.met[u] = seen.met[u] /\ seen'.audience = seen.audience
      /\ seen.unstored \subseteq seen'.unstored
  BY <1>1, <1>3 DEF Seen
<1>5. /\ served'[u] = served[u] /\ step'[u] = step[u] /\ sum'[u] = sum[u]
      /\ reply'[u] = reply[u] /\ undelivered'[u] = undelivered[u]
  BY <1>1 DEF Finish, TypeOK
<1>6. \A id \in Own(u) : id # Current(s)
  BY <1>1, Others
<1>7. \A id \in Own(u) : id \in queued' <=> id \in queued
  BY <1>6 DEF Finish
<1>8. \A n \in Node : stage'[<<u, n>>] = stage[<<u, n>>] /\ result'[<<u, n>>] = result[<<u, n>>]
  BY <1>2, OthersLinks
<1>9. \A id \in Own(u) : \A c \in Conn : Times(id, c)' = Times(id, c)
  BY <1>2 DEF Times
<1> QED BY <1>2, <1>4, <1>5, <1>7, <1>8, <1>9 DEF Apart

LEMMA LateApart ==
  ASSUME ClusterAssumption, ClusterInv, NEW n \in Node, NEW id \in Id, NEW k \in 1..MaxFaults,
         <<n, id, k>> \in inflight, inflight' = inflight \ {<<n, id, k>>}, Run(n, id),
         UNCHANGED <<work, up, online, queued, faults, linkVars>>,
         NEW u \in Sender, u # id[1]
  PROVE  Apart(u)
<1>1. TypeOK /\ seen \in Seen
  BY DEF ClusterInv, TypeOK
<1>2. /\ UNCHANGED <<script, served, step, todo, sum, reply, undelivered, online, queued>>
      /\ UNCHANGED <<stage, result>>
  BY DEF work, linkVars
<1>3. \A m \in Own(u) : m # id /\ m \in Id
  BY <1>1, CurrentFacts
<1>4. /\ \A c \in Conn : \A i \in DOMAIN got'[c] :
           got'[c][i][1] = u => i \in DOMAIN got[c] /\ got'[c][i] = got[c][i]
      /\ \A m \in Own(u) : \A c \in Conn : Times(m, c)' = Times(m, c)
  BY <1>1, <1>2, RunDelivers, GotApart
<1>5. /\ seen'.unheard = seen.unheard /\ seen'.troubled = seen.troubled
      /\ seen'.abandoned = seen.abandoned /\ seen'.met = seen.met
      /\ seen'.audience = seen.audience /\ seen'.unstored = seen.unstored
      /\ seen.executed \subseteq seen'.executed
      /\ \A e \in seen'.executed : e \in seen.executed \/ e[1] = id
  BY <1>1 DEF Run, Seen
<1>6. ASSUME NEW m \in Own(u), NEW j \in Node
      PROVE  <<m, j>> \in seen'.executed <=> <<m, j>> \in seen.executed
  <2>1. <<m, j>>[1] # id
    BY <1>3
  <2> QED BY <1>5, <2>1
<1> QED BY <1>2, <1>4, <1>5, <1>6 DEF Apart

LEMMA CrashApart ==
  ASSUME ClusterAssumption, ClusterInv, NEW n \in Node, Crash(n),
         NEW u \in Sender, Place[u] # n
  PROVE  Apart(u)
<1>1. TypeOK /\ seen \in Seen
  BY DEF ClusterInv, TypeOK
<1>2. /\ UNCHANGED <<script, sum, reply, got, queued, result>>
      /\ online' = {c \in online : Home[c] # n}
      /\ inflight' = {f \in inflight : f[1] # n}
      /\ seen' = [seen EXCEPT
              !.troubled = @ \cup {t \in Thread : t[2] = n},
              !.abandoned = @ \cup {id \in Id : Place[id[1]] = n /\ id[2] > served[id[1]]}]
  BY <1>1, CrashFacts
<1>3. /\ served'[u] = served[u] /\ step'[u] = step[u]
      /\ todo'[u] = todo[u] /\ undelivered'[u] = undelivered[u]
  BY <1>1, CrashSender
<1>4. \A m \in Node : stage'[<<u, m>>] = stage[<<u, m>>]
  BY CrashCall
<1>5. /\ seen'.unheard = seen.unheard /\ seen'.executed = seen.executed
      /\ seen'.audience = seen.audience /\ seen'.met = seen.met
      /\ seen.abandoned \subseteq seen'.abandoned /\ seen'.unstored = seen.unstored
      /\ seen'.troubled = seen.troubled \cup {t \in Thread : t[2] = n}
  BY <1>1, <1>2 DEF Seen
<1>6. \A c \in online : c \in online' \/ <<u, Home[c]>> \in seen'.troubled
  BY <1>2, <1>5, LinkFacts
<1>7. \A id \in Own(u) : \A c \in Conn : Times(id, c)' = Times(id, c)
  BY <1>2 DEF Times
<1> QED BY <1>2, <1>3, <1>4, <1>5, <1>6, <1>7 DEF Apart

LEMMA RestartApart ==
  ASSUME ClusterAssumption, ClusterInv, NEW n \in Node, Restart(n), NEW u \in Sender
  PROVE  Apart(u)
<1>1. /\ UNCHANGED <<script, served, step, todo, sum, reply, undelivered>>
      /\ UNCHANGED <<stage, result>> /\ UNCHANGED <<online, got, queued, inflight, seen>>
  BY DEF Restart, work, linkVars
<1>2. \A id \in Own(u) : \A c \in Conn : Times(id, c)' = Times(id, c)
  BY <1>1 DEF Times
<1> QED BY <1>1, <1>2 DEF Apart

LEMMA JoinApart ==
  ASSUME ClusterAssumption, ClusterInv, NEW d \in Conn, Join(d), NEW u \in Sender
  PROVE  Apart(u)
<1>1. TypeOK /\ seen \in Seen
  BY DEF ClusterInv, TypeOK
<1>2. /\ UNCHANGED <<script, served, step, todo, sum, reply, undelivered>>
      /\ UNCHANGED <<stage, result>> /\ UNCHANGED <<got, queued, inflight>>
      /\ online' = online \cup {d}
  BY DEF Join, work, linkVars
<1>3. /\ seen'.unheard = seen.unheard /\ seen'.executed = seen.executed
      /\ seen'.troubled = seen.troubled /\ seen'.abandoned = seen.abandoned
      /\ seen'.audience = seen.audience /\ seen'.unstored = seen.unstored
      /\ seen'.met[u] = seen.met[u] \cup IF Counting(u) THEN {d} ELSE {}
  BY <1>1 DEF Join, Seen
<1>4. \A id \in Own(u) : \A c \in Conn : Times(id, c)' = Times(id, c)
  BY <1>2 DEF Times
<1> QED BY <1>2, <1>3, <1>4 DEF Apart

-----------------------------------------------------------------------------
\* Steps of a sender at the same statement that carry nothing out

Steady(s) ==
  /\ UNCHANGED <<script, got, queued, online>>
  /\ served'[s] = served[s] /\ undelivered'[s] = undelivered[s]
  /\ Busy(s) /\ Busy(s)'
  /\ seen'.audience = seen.audience /\ seen'.met = seen.met
  /\ seen'.executed = seen.executed /\ seen'.abandoned = seen.abandoned
  /\ seen'.unstored = seen.unstored
  /\ \A id \in Id : seen'.unheard[id] = 0 => seen.unheard[id] = 0
  /\ seen.troubled \subseteq seen'.troubled

LEMMA SteadyFacts ==
  ASSUME ClusterAssumption, TypeOK, NEW s \in Sender, Steady(s)
  PROVE  /\ Own(s)' = Own(s) /\ Current(s)' = Current(s) /\ Statement(s)' = Statement(s)
         /\ \A id : Of(id)' = Of(id) /\ (Direct(id)' <=> Direct(id))
         /\ \A id, c : Addressed(id, c)' <=> Addressed(id, c)
         /\ Counting(s)' <=> Counting(s)
         /\ Understood(s)' <=> Understood(s)
         /\ \A id, c : Times(id, c)' = Times(id, c)
         /\ \A id \in Own(s) : /\ Started(id)' <=> Started(id)
                               /\ id \in Finished' <=> id \in Finished
                               /\ Executors(id)' = Executors(id)
<1>1. UNCHANGED <<script, got>> /\ served'[s] = served[s] /\ Busy(s) /\ Busy(s)'
  BY DEF Steady
<1>2. /\ Own(s)' = Own(s) /\ Current(s)' = Current(s) /\ Statement(s)' = Statement(s)
      /\ \A id : Of(id)' = Of(id) /\ (Direct(id)' <=> Direct(id))
      /\ (Counting(s)' <=> Counting(s)) /\ (Understood(s)' <=> Understood(s))
      /\ \A id, c : Times(id, c)' = Times(id, c) /\ (Addressed(id, c)' <=> Addressed(id, c))
  BY <1>1 DEF Own, Id, Current, Statement, Of, Direct, Counting, Busy, Understood, Times,
              Addressed, PassedOn
<1>3. ASSUME NEW id \in Own(s)
      PROVE  /\ Started(id)' <=> Started(id)
             /\ id \in Finished' <=> id \in Finished
             /\ Executors(id)' = Executors(id)
  <2>1. id[1] = s /\ id \in Id
    BY CurrentFacts
  <2>2. Started(id)' <=> Started(id)
    BY <1>1, <1>2, <2>1 DEF Started
  <2>3. id \in Finished' <=> id \in Finished
    <3>1. Id' = Id
      BY <1>1, IdKept
    <3> QED BY <1>1, <2>1, <3>1 DEF Finished, Steady
  <2>4. Executors(id)' = Executors(id)
    BY DEF Executors, Steady
  <2> QED BY <2>2, <2>3, <2>4
<1> QED BY <1>2, <1>3

LEMMA SteadyKeeps ==
  ASSUME ClusterAssumption, TypeOK, TypeOK', NEW s \in Sender, Progress(s), Steady(s)
  PROVE  InOrder(s)' /\ Staying(s)' /\ HasReached(s)' /\ HasChosen(s)' /\ HasStored(s)'
<1>1. /\ UNCHANGED <<got, queued, online>> /\ seen'.audience = seen.audience
      /\ seen.troubled \subseteq seen'.troubled /\ Busy(s)
  BY DEF Steady
<1>2. InOrder(s)'
  <2> SUFFICES ASSUME NEW c \in Conn, NEW i \in DOMAIN got[c], NEW j \in DOMAIN got[c], i < j,
                      got[c][i][1] = s, got[c][j][1] = s,
                      seen'.unheard[got[c][i]] = 0, seen'.unheard[got[c][j]] = 0
               PROVE  got[c][i][2] < got[c][j][2]
    BY <1>1 DEF InOrder
  <2>1. got[c][i] \in Id /\ got[c][j] \in Id
    BY SMTT(30) DEF TypeOK
  <2>2. seen.unheard[got[c][i]] = 0 /\ seen.unheard[got[c][j]] = 0
    BY <2>1 DEF Steady
  <2> QED BY <2>2 DEF Progress, InOrder
<1>3. Staying(s)'
  <2>1. Current(s)' = Current(s)
    BY SteadyFacts
  <2>2. \A c \in seen.audience[Current(s)] : c \in online \/ <<s, Home[c]>> \in seen.troubled
    BY <1>1 DEF Progress, Staying
  <2>3. \A c \in seen'.audience[Current(s)'] : c \in online' \/ <<s, Home[c]>> \in seen'.troubled
    BY <1>1, <2>1, <2>2
  <2> QED BY <2>3 DEF Staying
<1>4. HasReached(s)'
  <2> SUFFICES ASSUME NEW id \in Own(s), id \in Finished, Of(id).op = "pipe",
                      NEW c \in seen.audience[id] \ {s}, Addressed(id, c)
               PROVE  Times(id, c)' > 0 \/ <<s, Home[c]>> \in seen'.troubled
    BY <1>1, SteadyFacts DEF HasReached
  <2>1. Times(id, c) > 0 \/ <<s, Home[c]>> \in seen.troubled
    BY DEF Progress, HasReached
  <2>2. Times(id, c)' = Times(id, c)
    BY SteadyFacts
  <2> QED BY <1>1, <2>1, <2>2
<1>5. HasChosen(s)'
  <2> SUFFICES ASSUME NEW id \in Own(s), id \in Finished, Place[s] = Proxy, Of(id).op = "user",
                      seen'.unheard[id] = 0, \E n \in Node : <<s, n>> \notin seen'.troubled
               PROVE  \E n \in Node : Executors(id)' = {n}
    BY SteadyFacts, ZenonT(30) DEF HasChosen
  <2>1. id \in Id /\ Executors(id)' = Executors(id)
    BY SteadyFacts, CurrentFacts
  <2>2. seen.unheard[id] = 0
    BY <2>1 DEF Steady
  <2>3. \E n \in Node : <<s, n>> \notin seen.troubled
    BY <1>1
  <2> QED BY <2>1, <2>2, <2>3 DEF Progress, HasChosen
<1>6. HasStored(s)'
  <2> SUFFICES ASSUME NEW id \in Own(s), id \in Finished, Direct(id)
               PROVE  /\ Kept(id)' \/ id \in seen'.unstored
                      /\ id \in queued' => Times(id, Of(id).to)' = 0
    BY SteadyFacts DEF HasStored
  <2>1. /\ Kept(id) \/ id \in seen'.unstored
        /\ id \in queued => Times(id, Of(id).to) = 0
    BY DEF Progress, HasStored, Steady
  <2>2. PICK c : c = Of(id).to
    OBVIOUS
  <2>3. Times(id, c)' = Times(id, c) /\ Of(id)' = Of(id)
    BY SteadyFacts
  <2> QED BY <1>1, <2>1, <2>2, <2>3 DEF Kept
<1> QED BY <1>2, <1>3, <1>4, <1>5, <1>6

\* What is under way at the nodes stays as it was, too.
Quiet(s) ==
  /\ Steady(s)
  /\ UNCHANGED inflight /\ seen'.unheard = seen.unheard
  /\ \A c \in Conn : MayAnswer(s, c)' => MayAnswer(s, c) \/ Statement(s).op = "count"

LEMMA QuietKeeps ==
  ASSUME ClusterAssumption, TypeOK, TypeOK', NEW s \in Sender, Progress(s), Quiet(s)
  PROVE  Trace(s)' /\ Accounted(s)' /\ Storing(s)'
<1>1. /\ Steady(s) /\ UNCHANGED <<got, queued, inflight>> /\ seen'.unheard = seen.unheard
      /\ seen'.executed = seen.executed /\ served'[s] = served[s] /\ Busy(s)
      /\ undelivered'[s] = undelivered[s]
  BY DEF Quiet, Steady
<1>2. Trace(s)'
  <2>1. ASSUME NEW c \in Conn, NEW i \in DOMAIN got[c], got[c][i][1] = s
        PROVE  Started(got[c][i])'
    <3>1. PICK id \in Own(s) : id = got[c][i]
      BY <2>1 DEF TypeOK, Own
    <3>2. Started(id)
      BY <2>1, <3>1 DEF Progress, Trace
    <3>3. Started(id)'
      BY <1>1, <3>2, SteadyFacts
    <3>4. Started(got[c][i])
      BY <3>1, <3>2
    <3>5. got' = got
      BY <1>1
    <3> QED BY <3>1, <3>3, <3>5
  <2>2. ASSUME NEW id \in Own(s)
        PROVE  /\ \A f \in inflight' : f[2] = id => Started(id)' /\ seen'.unheard[id] > 0
               /\ \A n \in Node : <<id, n>> \in seen'.executed => Started(id)'
               /\ id \in queued' => id[2] <= served'[s]
    <3>1. Started(id)' <=> Started(id)
      BY <1>1, SteadyFacts
    <3> QED BY <1>1, <3>1 DEF Progress, Trace
  <2>3. Own(s)' = Own(s)
    BY <1>1, SteadyFacts
  <2> QED BY <1>1, <2>1, <2>2, <2>3 DEF Trace
<1>3. Accounted(s)'
  <2> SUFFICES ASSUME NEW id \in Own(s), NEW c \in Conn
               PROVE  /\ Copies(id, c)' <= 1 + seen'.unheard[id]
                      /\ Of(id)'.op = "count" \/ (id = Current(s)' /\ MayAnswer(s, c)') =>
                           Copies(id, c)' <= seen'.unheard[id]
    BY <1>1, SteadyFacts DEF Accounted
  <2>1. Copies(id, c)' = Copies(id, c)
    BY <1>1 DEF Copies, Late, Times
  <2>2. Of(id)' = Of(id) /\ Current(s)' = Current(s) /\ Statement(s) = Of(Current(s))
    BY <1>1, SteadyFacts DEF Statement
  <2>3. MayAnswer(s, c)' => MayAnswer(s, c) \/ Statement(s).op = "count"
    BY DEF Quiet
  <2>4. /\ Copies(id, c) <= 1 + seen.unheard[id]
        /\ Of(id).op = "count" \/ (id = Current(s) /\ MayAnswer(s, c)) =>
             Copies(id, c) <= seen.unheard[id]
    BY DEF Progress, Accounted
  <2> QED BY <1>1, <2>1, <2>2, <2>3, <2>4
<1>4. Storing(s)'
  <2>1. \A f \in inflight' : f[2] \in Own(s)' => ~Direct(f[2])'
    <3>1. ASSUME NEW f \in inflight, f[2] \in Own(s) PROVE ~Direct(f[2])'
      <4>1. PICK id : id = f[2]
        OBVIOUS
      <4>2. ~Direct(id)
        BY <3>1, <4>1 DEF Progress, Storing
      <4>3. ~Direct(id)'
        BY <1>1, <4>2, SteadyFacts
      <4> QED BY <4>1, <4>3
    <3>2. Own(s)' = Own(s)
      BY <1>1, SteadyFacts
    <3> QED BY <1>1, <3>1, <3>2
  <2>2. Busy(s)' /\ Direct(Current(s))' =>
          (undelivered'[s] <=> Times(Current(s), Statement(s).to)' = 0)
    <3>1. PICK id, c : id = Current(s) /\ c = Statement(s).to
      OBVIOUS
    <3>2. Direct(id) => (undelivered[s] <=> Times(id, c) = 0)
      BY <1>1, <3>1 DEF Progress, Storing
    <3>3. /\ Direct(id)' <=> Direct(id)
          /\ Times(id, c)' = Times(id, c)
          /\ Current(s)' = Current(s) /\ Statement(s)' = Statement(s)
      BY <1>1, SteadyFacts
    <3> QED BY <1>1, <3>1, <3>2, <3>3
  <2> QED BY <2>1, <2>2 DEF Storing
<1> QED BY <1>2, <1>3, <1>4

\* As long as a sender is at the same node, its sum is that of those before.
LEMMA AddingStays ==
  ASSUME ClusterAssumption, TypeOK, NEW s \in Sender, Progress(s), Steady(s),
         todo'[s] = todo[s], sum'[s] = sum[s], reply'[s] = reply[s], ~Heard(s)'
  PROVE  Adding(s)'
<1>1. /\ UNCHANGED <<script, online>> /\ Busy(s)
      /\ seen'.audience = seen.audience /\ seen'.met = seen.met
      /\ seen.troubled \subseteq seen'.troubled
  BY DEF Steady
<1>2. Current(s)' = Current(s) /\ (Counting(s)' <=> Counting(s))
  BY SteadyFacts
<1>3. CASE ~Counting(s)
  BY <1>2, <1>3 DEF Progress, Adding
<1>4. CASE Counting(s)
  <2>1. PICK id \in Own(s) : id = Current(s) /\ id \in Id
    BY <1>1, CurrentFacts DEF Progress, Round
  <2>2. Sure(s) \subseteq Conn /\ Sure(s)' \subseteq Sure(s)
    <3>1. seen.audience[id] \subseteq Conn
      BY <2>1, SeenFacts
    <3> QED BY <1>1, <1>2, <2>1, <3>1 DEF Sure
  <2>3. PICK A, B : A = On(Sure(s), s)' /\ B = On(Sure(s), s)
    OBVIOUS
  <2>4. A \subseteq B /\ B \subseteq Conn
    BY <2>2, <2>3 DEF On
  <2>5. Cardinality(A) <= Cardinality(B) /\ Cardinality(A) \in Nat /\ Cardinality(B) \in Nat
    BY <2>4, ConnSets
  <2>6. Cardinality(B) <= sum[s] /\ sum[s] <= Cardinality(On(seen.met[s], s)) /\ sum[s] \in Nat
        /\ online \subseteq seen.met[s]
    BY <1>4, <2>3 DEF Progress, Adding, TypeOK
  <2>7. Cardinality(A) <= sum'[s]
    BY <2>5, <2>6
  <2>8. On(seen.met[s], s)' = On(seen.met[s], s)
    BY <1>1 DEF On
  <2> QED BY <1>1, <1>2, <1>4, <2>3, <2>6, <2>7, <2>8 DEF Adding
<1> QED BY <1>3, <1>4

\* A step of a call that brings no answer.
LEMMA UnansweredKeeps ==
  ASSUME ClusterAssumption, TypeOK, TypeOK', NEW s \in Sender, Progress(s), Steady(s),
         todo[s] # <<>>, UNCHANGED <<step, todo, sum, reply>>,
         stage[Link(s)] # "done",
         stage'[Link(s)] = "done" =>
           result'[Link(s)] = "error" /\ (Link(s) \in seen'.troubled \/ ~Understood(s))
  PROVE  /\ Round(s)' /\ Blamed(s)' /\ Reaching(s)' /\ Choosing(s)' /\ Adding(s)'
         /\ \A c : MayAnswer(s, c)' <=> MayAnswer(s, c)
<1>1. /\ UNCHANGED <<script, online>> /\ served'[s] = served[s] /\ Busy(s) /\ Busy(s)'
      /\ seen'.audience = seen.audience /\ seen'.met = seen.met
      /\ seen.troubled \subseteq seen'.troubled
  BY DEF Steady
<1>2. /\ Link(s)' = Link(s) /\ ~Heard(s) /\ ~Heard(s)'
      /\ Link(s) \in Thread /\ Link(s) = <<s, Head(todo[s])>>
  BY AskedFacts DEF Link, Heard
<1>3. /\ Current(s)' = Current(s) /\ Statement(s)' = Statement(s)
      /\ (Counting(s)' <=> Counting(s)) /\ (Understood(s)' <=> Understood(s))
  BY SteadyFacts
<1>4. PICK id \in Own(s) : id = Current(s) /\ id \in Id
  BY <1>1, CurrentFacts DEF Progress, Round
<1>5. Round(s)'
  BY <1>1, <1>3 DEF Progress, Round
<1>6. Blamed(s)'
  BY <1>2, <1>3 DEF Blamed, Failed
<1>7. \A c : MayAnswer(s, c)' <=> MayAnswer(s, c)
  BY <1>2 DEF MayAnswer
<1>8. Reaching(s)'
  <2>0. \A c : Addressed(id, c)' <=> Addressed(id, c)
    BY <1>1 DEF Addressed, PassedOn, Of
  <2> SUFFICES ASSUME Statement(s).op = "pipe", NEW c \in seen.audience[id] \ {s},
                      Addressed(id, c)
               PROVE  \/ Times(id, c)' > 0
                      \/ <<s, Home[c]>> \in seen'.troubled
                      \/ /\ Home[c] \in Range(todo[s])
                         /\ ~(Home[c] = Head(todo[s]) /\ stage'[Link(s)] = "done")
    BY <1>1, <1>2, <1>3, <1>4, <2>0, SteadyFacts DEF Reaching
  <2>1. \/ Times(id, c) > 0
        \/ <<s, Home[c]>> \in seen.troubled
        \/ Home[c] \in Range(todo[s])
    BY <1>1, <1>4 DEF Progress, Reaching
  <2>2. Times(id, c)' = Times(id, c)
    BY SteadyFacts
  <2>3. Home[c] \in Range(todo[s]) => Understood(s)
    <3>1. Place[s] \notin Range(todo[s]) /\ id[1] = s
      BY <1>4 DEF Progress, Round, Own
    <3> QED BY <1>4, <3>1 DEF Addressed, PassedOn, Understood, Statement
  <2>4. Home[c] \in Range(todo[s]) /\ Home[c] = Head(todo[s]) /\ stage'[Link(s)] = "done" => <<s, Home[c]>> \in seen'.troubled
    BY <1>2, <2>3
  <2> QED BY <1>1, <2>1, <2>2, <2>4
<1>9. Choosing(s)'
  <2> SUFFICES ASSUME Place[s] = Proxy, Statement(s).op = "user"
               PROVE  Choosing(s)'
    BY <1>3 DEF Choosing
  <2>1. \/ seen.unheard[id] > 0
        \/ /\ Executors(id) = {}
           /\ step[s] = "others" =>
                \A n \in Node : n \in Range(todo[s]) \/ <<s, n>> \in seen.troubled
    BY <1>1, <1>2, <1>4 DEF Progress, Choosing
  <2>2. Executors(id)' = Executors(id)
    BY <1>4, SteadyFacts
  <2>3. seen.unheard[id] \in Nat /\ seen'.unheard[id] \in Nat
    <3>1. seen.unheard \in [Id -> Nat]
      BY SeenFacts
    <3>2. seen'.unheard \in [Id -> Nat]
      <4>1. Id' = Id /\ Seen' = Seen
        BY <1>1, IdKept
      <4> QED BY <4>1 DEF TypeOK, Seen
    <3> QED BY <1>4, <3>1, <3>2
  <2>4. seen.unheard[id] > 0 => seen'.unheard[id] > 0
    BY <1>4, <2>3 DEF Steady
  <2>5. \/ seen'.unheard[id] > 0
        \/ /\ Executors(id)' = {}
           /\ step'[s] = "others" =>
                \A n \in Node : n \in Range(todo'[s]) \/ <<s, n>> \in seen'.troubled
    BY <1>1, <2>1, <2>2, <2>4
  <2>6. id = Current(s)'
    BY <1>3, <1>4
  <2> QED BY <1>2, <2>5, <2>6 DEF Choosing
<1>10. Adding(s)'
  BY <1>2, AddingStays
<1> QED BY <1>5, <1>6, <1>7, <1>8, <1>9, <1>10

\* A sender asks a node, or finds no link to it.
LEMMA AskOwn ==
  ASSUME ClusterAssumption, ClusterInv, NEW s \in Sender,
         Ask(s) \/ \E ok \in BOOLEAN : Relink(s, ok)
  PROVE  Progress(s)'
<1>1. TypeOK /\ Calls /\ LinkTypeOK /\ todo[s] # <<>> /\ Progress(s) /\ seen \in Seen
  BY DEF ClusterInv, TypeOK, Ask, Relink
<1>2. TypeOK'
  BY AskTypes, RelinkTypes
<1>3. Link(s) \in Thread /\ Busy(s)
  BY <1>1, AskedFacts
<1>4. UNCHANGED <<script, served, step, todo, sum, reply, undelivered, online, got, queued,
                  inflight>>
  BY DEF Ask, Relink, work, nodes
<1>5. /\ seen'.audience = seen.audience /\ seen'.met = seen.met /\ seen'.unheard = seen.unheard
      /\ seen'.executed = seen.executed /\ seen'.abandoned = seen.abandoned
      /\ seen'.unstored = seen.unstored
      /\ seen.troubled \subseteq seen'.troubled
  BY <1>1 DEF Ask, Relink, Seen
<1>6. /\ stage[Link(s)] # "done"
      /\ stage'[Link(s)] = "done" => result'[Link(s)] = "error" /\ Link(s) \in seen'.troubled
  <2>1. ASSUME Ask(s)
        PROVE  stage[Link(s)] # "done" /\ stage'[Link(s)] # "done"
    <3>1. stage[Link(s)] = "idle" /\ Call(Link(s), "query")
      BY <2>1 DEF Ask
    <3>2. stage'[Link(s)] = "first"
      BY <1>1, <1>3, <3>1, CallEffect
    <3> QED BY <3>1, <3>2
  <2>2. ASSUME NEW ok \in BOOLEAN, Relink(s, ok)
        PROVE  /\ stage[Link(s)] # "done"
               /\ stage'[Link(s)] = "done" => result'[Link(s)] = "error" /\ Link(s) \in seen'.troubled
    <3>1. Reconnect(Link(s), ok)
      BY <2>2 DEF Relink
    <3>2. /\ stage[Link(s)] = "reconnect"
          /\ ok => stage'[Link(s)] = "third"
          /\ ~ok => stage'[Link(s)] = "done" /\ result'[Link(s)] = "error"
      BY <1>1, <1>3, <3>1, ReconnectEffect
    <3>3. ~ok => Link(s) \in seen'.troubled
      BY <1>1, <2>2 DEF Relink, Seen
    <3> QED BY <3>2, <3>3
  <2> QED BY <2>1, <2>2
<1>7. Steady(s)
  BY <1>3, <1>4, <1>5 DEF Steady, Busy
<1>8. /\ Round(s)' /\ Blamed(s)' /\ Reaching(s)' /\ Choosing(s)' /\ Adding(s)'
      /\ \A c : MayAnswer(s, c)' <=> MayAnswer(s, c)
  BY <1>1, <1>2, <1>4, <1>6, <1>7, UnansweredKeeps
<1>9. Quiet(s)
  BY <1>4, <1>5, <1>7, <1>8 DEF Quiet
<1> QED BY <1>1, <1>2, <1>7, <1>8, <1>9, SteadyKeeps, QuietKeeps DEF Progress

\* Who is not on the nodes left was not on those left before, or is on the one asked.
LEMMA GoingOn ==
  ASSUME ClusterAssumption, NEW S \in SUBSET Conn,
         NEW q \in Seq(Node), q # <<>>, IsInjective(q)
  PROVE  Cardinality({c \in S : Home[c] \notin Range(Tail(q))})
           = Cardinality({c \in S : Home[c] \notin Range(q)})
               + Cardinality({c \in S : Home[c] = Head(q)})
<1> DEFINE A == {c \in S : Home[c] \notin Range(Tail(q))}
           B == {c \in S : Home[c] \notin Range(q)}
           C == {c \in S : Home[c] = Head(q)}
<1>1. Range(Tail(q)) = Range(q) \ {Head(q)} /\ Head(q) \in Range(q)
  BY TailFacts
<1>2. A = B \cup C /\ B \cap C = {}
  BY <1>1
<1>3. B \in SUBSET Conn /\ C \in SUBSET Conn
  OBVIOUS
<1> HIDE DEF A, B, C
<1>4. IsFiniteSet(B) /\ IsFiniteSet(C) /\ Cardinality(B) \in Nat /\ Cardinality(C) \in Nat
  BY <1>3, ConnSets
<1>5. Cardinality(B \cup C) = Cardinality(B) + Cardinality(C) - Cardinality(B \cap C)
  BY <1>4, FS_Union
<1>6. Cardinality(B \cap C) = 0
  BY <1>2, FS_EmptySet
<1>7. Cardinality(A) = Cardinality(B) + Cardinality(C)
  BY <1>2, <1>4, <1>5, <1>6
<1> QED BY <1>7 DEF A, B, C

\* The links of a sender after it is done with a node.
LEMMA AskedIdle ==
  ASSUME ClusterAssumption, TypeOK, TypeOK', NEW s \in Sender, todo[s] # <<>>,
         OthersCalls(Link(s)), stage'[Link(s)] = "idle"
  PROVE  /\ ~Heard(s)' /\ ~Failed(s)'
         /\ todo'[s] # <<>> => stage'[Link(s)'] = "idle"
<1>1. \A n \in Node : stage'[<<s, n>>] = "idle"
  <2>1. ASSUME NEW n \in Node PROVE stage'[<<s, n>>] = "idle"
    <3>1. <<s, n>> \in Thread
      BY LinkFacts
    <3>2. <<s, n>> # Link(s) => stage[<<s, n>>] = "idle"
      BY AskedFacts
    <3> QED BY <3>1, <3>2 DEF OthersCalls
  <2> QED BY <2>1
<1>2. todo'[s] # <<>> => Head(todo'[s]) \in Node
  <2>1. todo'[s] \in Seq(Node)
    BY DEF TypeOK
  <2> QED BY <2>1, HeadFacts
<1>3. todo'[s] # <<>> => stage'[Link(s)'] = "idle"
  BY <1>1, <1>2 DEF Link
<1> QED BY <1>3 DEF Heard, Failed

LEMMA AskNextOwn ==
  ASSUME ClusterAssumption, ClusterInv, NEW s \in Sender, AskNext(s)
  PROVE  Progress(s)'
<1>1. /\ TypeOK /\ Calls /\ Progress(s) /\ seen \in Seen
      /\ todo[s] # <<>> /\ stage[Link(s)] = "done" /\ step[s] = "all"
  BY DEF ClusterInv, TypeOK, AskNext, Answered
<1>2. TypeOK' /\ OthersCalls(Link(s)) /\ stage'[Link(s)] = "idle"
  BY AskNextTypes
<1>3. /\ UNCHANGED <<script, served, reply, undelivered, online, got, queued, inflight, seen>>
      /\ step'[s] = "all" /\ todo'[s] = Tail(todo[s])
      /\ sum'[s] = sum[s] + IF result[Link(s)] = "ok" THEN reply[s] ELSE 0
  BY <1>1 DEF AskNext, Asked, nodes, TypeOK
<1>4. ~Heard(s)' /\ ~Failed(s)' /\ (todo'[s] # <<>> => stage'[Link(s)'] = "idle")
  BY <1>1, <1>2, AskedIdle
<1>5. Busy(s) /\ Busy(s)'
  BY <1>1, <1>3 DEF Busy
<1>6. Steady(s)
  BY <1>3, <1>5 DEF Steady
<1>7. /\ todo[s] \in Seq(Node) /\ IsInjective(todo[s]) /\ Place[s] \notin Range(todo[s])
      /\ Link(s) = <<s, Head(todo[s])>> /\ Link(s) \in Thread
  BY <1>1, AskedFacts DEF Progress, Round, Link
<1>8. /\ Range(todo'[s]) = Range(todo[s]) \ {Head(todo[s])} /\ IsInjective(todo'[s])
      /\ Head(todo[s]) \in Range(todo[s])
  BY <1>1, <1>3, <1>7, TailFacts, SMTT(30)
<1>9. /\ Current(s)' = Current(s) /\ Statement(s)' = Statement(s)
      /\ Counting(s)' <=> Counting(s)
  BY <1>1, <1>6, SteadyFacts
<1>10. ~(Place[s] = Proxy /\ Statement(s).op = "user")
  BY <1>1, <1>5 DEF Progress, Round
<1>11. Quiet(s)
  <2>1. \A c \in Conn : MayAnswer(s, c)' => MayAnswer(s, c)
    BY <1>3, <1>8 DEF MayAnswer
  <2> QED BY <1>3, <1>6, <2>1 DEF Quiet
<1>12. Round(s)'
  BY <1>1, <1>3, <1>5, <1>7, <1>8, <1>9, <1>10 DEF Progress, Round
<1>13. Blamed(s)'
  BY <1>4 DEF Blamed
<1>14. Reaching(s)'
  <2> SUFFICES ASSUME Statement(s).op = "pipe", NEW c \in seen.audience[Current(s)] \ {s},
                      Addressed(Current(s), c)
               PROVE  \/ Times(Current(s), c)' > 0
                      \/ <<s, Home[c]>> \in seen.troubled
                      \/ /\ Home[c] \in Range(todo'[s])
                         /\ ~(Home[c] = Head(todo'[s]) /\ stage'[Link(s)'] = "done")
    BY <1>1, <1>3, <1>6, <1>9, SteadyFacts, ZenonT(40) DEF Reaching
  <2>1. \/ Times(Current(s), c) > 0
        \/ <<s, Home[c]>> \in seen.troubled
        \/ Home[c] \in Range(todo[s]) /\ Home[c] # Head(todo[s])
    BY <1>1, <1>5 DEF Progress, Reaching
  <2>2. PICK id : id = Current(s)
    OBVIOUS
  <2>3. Times(id, c)' = Times(id, c)
    BY <1>1, <1>6, SteadyFacts
  <2>4. Range(todo'[s]) # {} => todo'[s] # <<>>
    BY HeadFacts
  <2>5. Times(Current(s), c) > 0 => Times(Current(s), c)' > 0
    BY <1>9, <2>2, <2>3
  <2> QED BY <1>4, <1>8, <2>1, <2>4, <2>5
<1>15. Choosing(s)'
  BY <1>9, <1>10 DEF Choosing
<1>16. Adding(s)'
  <2>1. sum[s] \in Nat /\ reply[s] \in Nat /\ reply'[s] = reply[s]
    BY <1>1, <1>3 DEF TypeOK
  <2>2. CASE ~Counting(s)
    <3>1. sum[s] = 0 /\ reply[s] = 0
      BY <1>1, <2>2 DEF Progress, Adding
    <3> QED BY <1>3, <1>9, <2>1, <2>2, <3>1 DEF Adding
  <2>3. CASE Counting(s)
    <3>1. PICK S \in SUBSET Conn, M \in SUBSET Conn : S = Sure(s) /\ M = seen.met[s]
      <4>1. PICK id \in Own(s) : id = Current(s) /\ id \in Id
        BY <1>1, <1>5, CurrentFacts DEF Progress, Round
      <4>2. seen.audience[id] \subseteq Conn /\ seen.met[s] \subseteq Conn
        BY <1>1, <4>1, SeenFacts
      <4> QED BY <4>1, <4>2 DEF Sure
    <3>2. Sure(s)' = S /\ seen'.met[s] = M
      BY <1>3, <1>9, <3>1 DEF Sure
    <3>3. PICK OS, OM, TS, TM :
            OS = On(S, s) /\ OM = On(M, s) /\ TS = There(S, s) /\ TM = There(M, s)
      OBVIOUS
    <3>4. /\ Cardinality(On(S, s)') = Cardinality(OS) + Cardinality(TS)
          /\ Cardinality(On(M, s)') = Cardinality(OM) + Cardinality(TM)
      <4>1. PICK q \in Seq(Node) : q = todo[s]
        BY <1>7
      <4>2. q # <<>> /\ IsInjective(q) /\ todo'[s] = Tail(q)
        BY <1>1, <1>3, <1>7, <4>1
      <4>3. ASSUME NEW X \in SUBSET Conn
            PROVE  Cardinality(On(X, s)') = Cardinality(On(X, s)) + Cardinality(There(X, s))
        <5>1. Cardinality({c \in X : Home[c] \notin Range(Tail(q))})
                = Cardinality({c \in X : Home[c] \notin Range(q)})
                    + Cardinality({c \in X : Home[c] = Head(q)})
          BY <4>2, GoingOn
        <5>2. /\ On(X, s)' = {c \in X : Home[c] \notin Range(Tail(q))}
              /\ On(X, s) = {c \in X : Home[c] \notin Range(q)}
              /\ There(X, s) = {c \in X : Home[c] = Head(q)}
          BY <4>1, <4>2 DEF On, There
        <5> QED BY <5>1, <5>2
      <4> QED BY <3>3, <4>3
    <3>5. /\ OS \subseteq Conn /\ OM \subseteq Conn /\ TS \subseteq Conn /\ TM \subseteq Conn
      BY <3>1, <3>3 DEF On, There
    <3>6. /\ Cardinality(OS) \in Nat /\ Cardinality(OM) \in Nat
          /\ Cardinality(TS) \in Nat /\ Cardinality(TM) \in Nat
      BY <3>5, ConnSets
    <3>7. /\ Cardinality(OS) <= sum[s] /\ sum[s] <= Cardinality(OM)
          /\ Heard(s) => Cardinality(TS) <= reply[s] /\ reply[s] <= Cardinality(TM)
          /\ online \subseteq M
      BY <1>1, <2>3, <3>1, <3>3 DEF Progress, Adding
    <3>8. CASE result[Link(s)] = "ok"
      <4>1. Heard(s) /\ sum'[s] = sum[s] + reply[s]
        BY <1>1, <1>3, <3>8 DEF Heard
      <4>2. Cardinality(On(S, s)') <= sum'[s] /\ sum'[s] <= Cardinality(On(M, s)')
        BY <2>1, <3>4, <3>6, <3>7, <4>1
      <4> QED BY <1>3, <1>4, <1>9, <2>3, <3>2, <3>7, <4>2 DEF Adding
    <3>9. CASE result[Link(s)] # "ok"
      <4>1. Failed(s)
        BY <1>1, <1>7, <3>9 DEF Failed, Calls
      <4>2. Link(s) \in seen.troubled
        <5>1. PICK id \in Id : id = Current(s) /\ id[1] = s
          BY <1>1, <1>5, CurrentFacts DEF Progress, Round
        <5>2. Understood(s)
          BY <1>1, <2>3, <5>1, IdFacts DEF Understood, Counting, Statement
        <5> QED BY <1>1, <4>1, <5>2 DEF Progress, Blamed
      <4>3. TS = {}
        BY <1>7, <3>1, <3>3, <4>2 DEF There, Sure
      <4>4. Cardinality(TS) = 0
        BY <4>3, FS_EmptySet
      <4>5. sum'[s] = sum[s]
        BY <1>3, <2>1, <3>9
      <4>6. Cardinality(On(S, s)') <= sum'[s] /\ sum'[s] <= Cardinality(On(M, s)')
        BY <2>1, <3>4, <3>6, <3>7, <4>4, <4>5
      <4> QED BY <1>3, <1>4, <1>9, <2>3, <3>2, <3>7, <4>6 DEF Adding
    <3> QED BY <3>8, <3>9
  <2> QED BY <2>2, <2>3
<1> QED BY <1>1, <1>2, <1>6, <1>11, <1>12, <1>13, <1>14, <1>15, <1>16,
           SteadyKeeps, QuietKeeps DEF Progress

LEMMA AskAgainOwn ==
  ASSUME ClusterAssumption, ClusterInv, NEW s \in Sender, AskAgain(s)
  PROVE  Progress(s)'
<1>1. /\ TypeOK /\ Progress(s) /\ seen \in Seen /\ todo[s] # <<>> /\ Statement(s).op = "count"
  BY DEF ClusterInv, TypeOK, AskAgain, Answered
<1>2. TypeOK' /\ OthersCalls(Link(s)) /\ stage'[Link(s)] = "idle"
  BY AskAgainTypes
<1>3. /\ UNCHANGED <<script, served, sum, reply, undelivered, online, got, queued, inflight>>
      /\ step'[s] = "all" /\ todo'[s] = todo[s]
  BY <1>1 DEF AskAgain, Asked, nodes, TypeOK
<1>4. /\ seen'.audience = seen.audience /\ seen'.met = seen.met /\ seen'.unheard = seen.unheard
      /\ seen'.executed = seen.executed /\ seen'.abandoned = seen.abandoned
      /\ seen'.unstored = seen.unstored
      /\ seen.troubled \subseteq seen'.troubled
  BY <1>1 DEF AskAgain, Seen
<1>5. ~Heard(s)' /\ ~Failed(s)'
  BY <1>1, <1>2, AskedIdle
<1>6. Busy(s) /\ Busy(s)'
  BY <1>1, <1>3, AskedFacts DEF Busy
<1>7. Steady(s)
  BY <1>3, <1>4, <1>6 DEF Steady
<1>8. Statement(s)' = Statement(s)
  BY <1>1, <1>7, SteadyFacts
<1>9. Quiet(s)
  BY <1>1, <1>3, <1>4, <1>7 DEF Quiet
<1>10. Round(s)' /\ Blamed(s)' /\ Reaching(s)' /\ Choosing(s)'
  BY <1>1, <1>3, <1>5, <1>6, <1>8 DEF Progress, Round, Blamed, Reaching, Choosing
<1>11. Adding(s)'
  BY <1>1, <1>3, <1>5, <1>7, AddingStays
<1> QED BY <1>1, <1>2, <1>7, <1>9, <1>10, <1>11, SteadyKeeps, QuietKeeps DEF Progress

LEMMA AskAnotherOwn ==
  ASSUME ClusterAssumption, ClusterInv, NEW s \in Sender, AskAnother(s)
  PROVE  Progress(s)'
<1>1. /\ TypeOK /\ Calls /\ Progress(s) /\ seen \in Seen
      /\ todo[s] # <<>> /\ stage[Link(s)] = "done" /\ step[s] \in {"one", "others"}
  BY DEF ClusterInv, TypeOK, AskAnother, Answered
<1>2. TypeOK' /\ OthersCalls(Link(s)) /\ stage'[Link(s)] = "idle"
  BY AskAnotherTypes
<1>3. UNCHANGED <<script, served, sum, reply, undelivered, online, got, queued, inflight, seen>>
  BY DEF AskAnother, Asked, nodes
<1>4. /\ todo[s] \in Seq(Node) /\ IsInjective(todo[s]) /\ Place[s] \notin Range(todo[s])
      /\ Link(s) = <<s, Head(todo[s])>> /\ Link(s) \in Thread /\ Busy(s)
  BY <1>1, AskedFacts DEF Progress, Round, Link
<1>5. /\ Range(Tail(todo[s])) = Range(todo[s]) \ {Head(todo[s])} /\ IsInjective(Tail(todo[s]))
      /\ Head(todo[s]) \in Range(todo[s]) /\ Head(todo[s]) \in Node
  BY <1>1, <1>4, TailFacts
<1>6. Place[s] = Proxy /\ Statement(s).op = "user" /\ Place[s] \notin Node
  BY <1>1, <1>4, Lists DEF Progress, Round
<1>7. /\ result[Link(s)] = "ok" => step'[s] = step[s] /\ todo'[s] = <<>>
      /\ result[Link(s)] # "ok" =>
           /\ step'[s] = "others"
           /\ todo'[s] = IF step[s] = "one" THEN proxyCluster ELSE Tail(todo[s])
  <2>1. PICK a \in [Sender -> {"idle", "all", "one", "others"}], b \in [Sender -> Seq(Node)] :
          a = step /\ b = todo
    BY <1>1 DEF TypeOK
  <2>2. CASE result[Link(s)] = "ok"
    <3>1. step' = [a EXCEPT ![s] = step[s]] /\ todo' = [b EXCEPT ![s] = <<>>]
      BY <2>1, <2>2 DEF AskAnother, Asked
    <3> QED BY <2>2, <3>1
  <2>3. CASE result[Link(s)] # "ok"
    <3>1. PICK list : list = IF step[s] = "one" THEN proxyCluster ELSE Tail(todo[s])
      OBVIOUS
    <3>2. step' = [a EXCEPT ![s] = "others"] /\ todo' = [b EXCEPT ![s] = list]
      BY <2>1, <2>3, <3>1 DEF AskAnother, Asked
    <3> QED BY <2>3, <3>1, <3>2
  <2> QED BY <2>2, <2>3
<1>8. ~Heard(s)' /\ ~Failed(s)'
  BY <1>1, <1>2, AskedIdle
<1>9. Busy(s)' /\ step'[s] # "all"
  BY <1>1, <1>7 DEF Busy
<1>10. Steady(s)
  BY <1>3, <1>4, <1>9 DEF Steady
<1>11. /\ Current(s)' = Current(s) /\ Statement(s)' = Statement(s)
       /\ Counting(s)' <=> Counting(s)
  BY <1>1, <1>10, SteadyFacts
<1>12. Quiet(s)
  <2>1. ASSUME NEW c \in Conn, MayAnswer(s, c)' PROVE MayAnswer(s, c)
    <3>1. CASE result[Link(s)] = "ok"
      <4>1. todo'[s] = <<>> /\ Range(<<>>) = {}
        BY <1>7, <3>1, HeadFacts
      <4> QED BY <2>1, <4>1 DEF MayAnswer
    <3>2. CASE result[Link(s)] # "ok" /\ step[s] = "one"
      BY <1>1, <3>2 DEF MayAnswer, Heard
    <3>3. CASE result[Link(s)] # "ok" /\ step[s] # "one"
      <4>1. step'[s] = "others" /\ todo'[s] = Tail(todo[s])
        BY <1>7, <3>3
      <4> QED BY <1>5, <2>1, <4>1 DEF MayAnswer
    <3> QED BY <3>1, <3>2, <3>3
  <2> QED BY <1>3, <1>10, <2>1 DEF Quiet
<1>13. Round(s)'
  <2>1. IsInjective(todo'[s]) /\ Place[s] \notin Range(todo'[s])
    <3>1. CASE result[Link(s)] = "ok"
      BY <1>7, <3>1, HeadFacts
    <3>2. CASE result[Link(s)] # "ok" /\ step[s] = "one"
      BY <1>6, <1>7, <3>2, Lists
    <3>3. CASE result[Link(s)] # "ok" /\ step[s] # "one"
      BY <1>4, <1>5, <1>7, <3>3
    <3> QED BY <3>1, <3>2, <3>3
  <2>2. served[s] < Len(script[s])
    BY <1>1, <1>4 DEF Progress, Round
  <2> QED BY <1>3, <1>6, <1>9, <1>11, <2>1, <2>2 DEF Round
<1>14. Blamed(s)' /\ Reaching(s)'
  BY <1>6, <1>8, <1>11 DEF Blamed, Reaching
<1>15. Adding(s)'
  <2>1. ~Counting(s)
    BY <1>6 DEF Counting
  <2> QED BY <1>1, <1>3, <1>11, <2>1 DEF Progress, Adding
<1>16. Choosing(s)'
  <2>1. PICK id \in Own(s) : id = Current(s)
    BY <1>1, <1>4, CurrentFacts DEF Progress, Round
  <2>2. Executors(id)' = Executors(id)
    BY <1>3 DEF Executors
  <2>3. \/ seen.unheard[id] > 0
        \/ Heard(s) /\ Executors(id) = {Head(todo[s])}
        \/ /\ ~Heard(s) /\ Executors(id) = {}
           /\ step[s] = "others" =>
                \A n \in Node : n \in Range(todo[s]) \/ <<s, n>> \in seen.troubled
    BY <1>1, <1>4, <1>6, <2>1 DEF Progress, Choosing
  <2>4. CASE seen.unheard[id] > 0
    BY <1>3, <1>11, <2>1, <2>4 DEF Choosing
  <2>5. CASE Heard(s) /\ Executors(id) = {Head(todo[s])}
    <3>1. todo'[s] = <<>>
      BY <1>7, <2>5 DEF Heard
    <3>2. \E n \in Node : Executors(id)' = {n}
      BY <1>5, <2>2, <2>5
    <3> QED BY <1>11, <2>1, <3>1, <3>2 DEF Choosing
  <2>6. CASE /\ ~Heard(s) /\ Executors(id) = {}
             /\ step[s] = "others" =>
                  \A n \in Node : n \in Range(todo[s]) \/ <<s, n>> \in seen.troubled
    <3>1. result[Link(s)] # "ok" /\ Failed(s)
      BY <1>1, <1>4, <2>6 DEF Heard, Failed, Calls
    <3>2. Link(s) \in seen.troubled
      BY <1>1, <1>6, <3>1 DEF Progress, Blamed, Understood
    <3>3. \A n \in Node : n \in Range(todo'[s]) \/ <<s, n>> \in seen.troubled
      <4>1. CASE step[s] = "one"
        BY <1>7, <3>1, <4>1, Lists
      <4>2. CASE step[s] = "others"
        BY <1>4, <1>5, <1>7, <2>6, <3>1, <3>2, <4>2
      <4> QED BY <1>1, <4>1, <4>2
    <3>4. todo'[s] = <<>> => Range(todo'[s]) = {}
      BY HeadFacts
    <3> QED BY <1>3, <1>8, <1>11, <2>1, <2>2, <2>6, <3>3, <3>4 DEF Choosing
  <2> QED BY <2>3, <2>4, <2>5, <2>6
<1> QED BY <1>1, <1>2, <1>10, <1>12, <1>13, <1>14, <1>15, <1>16,
           SteadyKeeps, QuietKeeps DEF Progress

-----------------------------------------------------------------------------
\* A sender begins a statement

\* The statement has left no trace yet.
LEMMA Fresh ==
  ASSUME ClusterAssumption, TypeOK, NEW s \in Sender, Progress(s), Ready(s)
  PROVE  /\ Current(s) \in Own(s) /\ Current(s) \in Id /\ ~Busy(s) /\ todo[s] = <<>>
         /\ served[s] \in Nat /\ Current(s)[2] = served[s] + 1 /\ Current(s)[1] = s
         /\ \A n \in Node : stage[<<s, n>>] = "idle"
         /\ sum[s] = 0 /\ reply[s] = 0
         /\ \A c \in Conn : Times(Current(s), c) = 0 /\ Late(Current(s), c) = {}
         /\ Executors(Current(s)) = {}
         /\ \A c \in Conn : \A i \in DOMAIN got[c] :
              got[c][i][1] = s => got[c][i][2] <= served[s] /\ got[c][i][2] \in Nat
         /\ \A id \in Own(s) : Started(id) => id[2] <= served[s]
<1>1. /\ Current(s) \in Own(s) /\ Current(s) \in Id /\ served[s] \in Nat
      /\ Current(s)[2] = served[s] + 1 /\ Current(s)[1] = s
  BY CurrentFacts DEF Ready
<1>2. ~Busy(s) /\ ~Counting(s) /\ todo[s] = <<>> /\ \A n \in Node : stage[<<s, n>>] = "idle"
  BY DEF Ready, Busy, Counting, TypeOK
<1>3. \A id \in Own(s) : Started(id) => id[2] <= served[s]
  BY <1>2, CurrentFacts DEF Started
<1>4. ~Started(Current(s))
  <2>1. PICK id \in Own(s) : id = Current(s)
    BY <1>1
  <2>2. ~(id[2] <= served[s])
    BY <1>1, <2>1
  <2>3. ~Started(id)
    BY <1>3, <2>2
  <2> QED BY <2>1, <2>3
<1>5. sum[s] = 0 /\ reply[s] = 0
  BY <1>2 DEF Progress, Adding
<1>6. ASSUME NEW c \in Conn, NEW i \in DOMAIN got[c], got[c][i][1] = s
      PROVE  got[c][i][2] <= served[s] /\ got[c][i][2] \in Nat
  <2>1. PICK id \in Own(s) : id = got[c][i]
    BY <1>6 DEF TypeOK, Own
  <2>2. Started(got[c][i])
    BY <1>6 DEF Progress, Trace
  <2>3. Started(id)
    BY <2>1, <2>2
  <2> QED BY <1>3, <2>1, <2>3, CurrentFacts
<1>7. ASSUME NEW c \in Conn
      PROVE  Times(Current(s), c) = 0 /\ Late(Current(s), c) = {}
  <2>1. \A i \in DOMAIN got[c] : got[c][i] # Current(s)
    BY <1>1, <1>6
  <2>2. PICK id \in Own(s) : id = Current(s)
    BY <1>1
  <2>3. Times(id, c) = 0
    <3>1. Times(id, c) \in Nat /\ (Times(id, c) > 0 <=> \E i \in DOMAIN got[c] : got[c][i] = id)
      BY TimesNat
    <3> QED BY <2>1, <2>2, <3>1
  <2>4. \A f \in inflight : f[2] # id
    BY <1>4, <2>2 DEF Progress, Trace
  <2>5. Late(id, c) = {}
    BY <2>4 DEF Late
  <2> QED BY <2>2, <2>3, <2>5
<1>8. Executors(Current(s)) = {}
  BY <1>1, <1>4 DEF Progress, Trace, Executors
<1> QED BY <1>1, <1>2, <1>3, <1>5, <1>6, <1>7, <1>8

\* A sender goes through a list of nodes, and some connections, which are on
\* none of them, are sent its message at once.
Begins(s, how, list, R) ==
  /\ Ready(s) /\ Go(s, how, list)
  /\ IsInjective(list) /\ Place[s] \notin Range(list)
  /\ how = "all" <=> ~(Place[s] = Proxy /\ Statement(s).op = "user")
  /\ how = "one" => list # <<>> /\ R = {}
  /\ Statement(s).op = "count" => Range(list) = Node /\ R = {}
  /\ \A c \in R : Home[c] \notin Range(list)
  /\ Statement(s).op = "pipe" => \A c \in online \ {s} :
       Addressed(Current(s), c) => c \in R \/ Home[c] \in Range(list)
  /\ Direct(Current(s)) => (undelivered'[s] <=> Statement(s).to \notin R)
  /\ \A c \in Conn : \A m :
       Times(m, c)' = Times(m, c) + IF m = Current(s) /\ c \in R THEN 1 ELSE 0
  /\ \A c \in Conn : \A i \in DOMAIN got'[c] :
       \/ i \in DOMAIN got[c] /\ got'[c][i] = got[c][i]
       \/ i = Len(got[c]) + 1 /\ got'[c][i] = Current(s)

LEMMA GoOwn ==
  ASSUME ClusterAssumption, TypeOK, TypeOK', NEW s \in Sender, Progress(s),
         NEW how \in {"all", "one"}, NEW list \in Seq(Node), NEW R \in SUBSET online,
         Begins(s, how, list, R)
  PROVE  Progress(s)'
<1>0. /\ Ready(s) /\ Go(s, how, list)
      /\ IsInjective(list) /\ Place[s] \notin Range(list)
      /\ how = "all" <=> ~(Place[s] = Proxy /\ Statement(s).op = "user")
      /\ how = "one" => list # <<>> /\ R = {}
      /\ Statement(s).op = "count" => Range(list) = Node /\ R = {}
      /\ \A c \in R : Home[c] \notin Range(list)
      /\ Statement(s).op = "pipe" => \A c \in online \ {s} :
           Addressed(Current(s), c) => c \in R \/ Home[c] \in Range(list)
      /\ Direct(Current(s)) => (undelivered'[s] <=> Statement(s).to \notin R)
      /\ \A c \in Conn : \A m :
           Times(m, c)' = Times(m, c) + IF m = Current(s) /\ c \in R THEN 1 ELSE 0
      /\ \A c \in Conn : \A i \in DOMAIN got'[c] :
           \/ i \in DOMAIN got[c] /\ got'[c][i] = got[c][i]
           \/ i = Len(got[c]) + 1 /\ got'[c][i] = Current(s)
  BY DEF Begins
<1> USE <1>0
<1>1. /\ UNCHANGED <<script, served, sum, reply, up, online, queued, inflight, faults>>
      /\ UNCHANGED linkVars /\ step'[s] = how /\ todo'[s] = list
  BY DEF Go, TypeOK
<1>2. PICK id \in Own(s) : id = Current(s) /\ id \in Id
  BY Fresh
<1>3. /\ ~Busy(s) /\ todo[s] = <<>> /\ \A n \in Node : stage[<<s, n>>] = "idle"
      /\ sum[s] = 0 /\ reply[s] = 0 /\ served[s] \in Nat
      /\ id[2] = served[s] + 1 /\ id[1] = s
      /\ \A c \in Conn : Times(id, c) = 0 /\ Late(id, c) = {}
      /\ Executors(id) = {}
  BY <1>2, Fresh
<1>4. /\ seen'.unheard = seen.unheard /\ seen'.executed = seen.executed
      /\ seen'.troubled = seen.troubled /\ seen'.abandoned = seen.abandoned
      /\ seen'.unstored = seen.unstored
      /\ seen'.met[s] = IF Statement(s).op = "count" THEN online ELSE {}
      /\ seen'.audience[id] = online
      /\ \A m \in Id : m # id => seen'.audience[m] = seen.audience[m]
  <2>1. seen \in Seen
    BY DEF TypeOK
  <2>2. seen' = [seen EXCEPT !.audience[id] = online,
                             !.met[s] = IF Statement(s).op = "count" THEN online ELSE {}]
    BY <1>2 DEF Go, Begun
  <2> QED BY <1>2, <2>1, <2>2 DEF Seen
<1>22. \A m, c : Addressed(m, c)' <=> Addressed(m, c)
  BY <1>1 DEF Addressed, PassedOn, Of
<1>5. /\ Id' = Id /\ Own(s)' = Own(s) /\ \A m : Of(m)' = Of(m) /\ (Direct(m)' <=> Direct(m))
      /\ Current(s)' = id /\ Statement(s)' = Statement(s) /\ Statement(s) = Of(id)
  BY <1>1, <1>2, IdKept DEF Current, Statement, Of
<1>6. Busy(s)' /\ (Counting(s)' <=> Statement(s).op = "count")
  BY <1>1, <1>5 DEF Busy, Counting
<1>7. /\ ~Heard(s)' /\ ~Failed(s)'
      /\ list # <<>> => stage'[Link(s)'] = "idle"
  <2>1. list # <<>> => Head(list) \in Node
    BY HeadFacts
  <2>2. stage' = stage /\ result' = result
    BY <1>1 DEF linkVars
  <2>3. list # <<>> => stage'[Link(s)'] = "idle"
    BY <1>1, <1>3, <2>1, <2>2 DEF Link
  <2> QED BY <1>1, <2>3 DEF Heard, Failed
<1>8. \A m \in Own(s) : m # id => \A c \in Conn : Times(m, c)' = Times(m, c)
  BY <1>2, TimesNat
<1>9. \A m \in Own(s) : /\ Started(m) => Started(m)'
                        /\ m \in Finished' <=> m \in Finished
                        /\ m \in Finished => m # id
                        /\ Executors(m)' = Executors(m)
                        /\ m[1] = s /\ m \in Id
  <2>1. ASSUME NEW m \in Own(s)
        PROVE  /\ Started(m) => Started(m)'
               /\ m \in Finished' <=> m \in Finished
               /\ m \in Finished => m # id
               /\ Executors(m)' = Executors(m)
               /\ m[1] = s /\ m \in Id
    <3>1. m[1] = s /\ m \in Id
      BY CurrentFacts
    <3>2. Started(m) => Started(m)'
      BY <1>1, <1>3, <3>1, Fresh DEF Started
    <3>3. m \in Finished' <=> m \in Finished
      BY <1>1, <1>4, <1>5, <3>1 DEF Finished
    <3>4. m \in Finished => m # id
      BY <1>3 DEF Finished
    <3>5. Executors(m)' = Executors(m)
      BY <1>4 DEF Executors
    <3> QED BY <3>1, <3>2, <3>3, <3>4, <3>5
  <2> QED BY <2>1
<1>10. Round(s)'
  BY <1>1, <1>5, <1>6 DEF Round, Ready
<1>11. Trace(s)'
  <2>1. ASSUME NEW c \in Conn, NEW i \in DOMAIN got'[c], got'[c][i][1] = s
        PROVE  Started(got[c][i])'
    <3>1. PICK m \in Id : m = got'[c][i]
      BY <1>5, SMTT(30) DEF TypeOK
    <3>2. m \in Own(s)
      BY <2>1, <3>1 DEF Own
    <3>3. m = id \/ Started(m)
      <4>1. CASE i \in DOMAIN got[c] /\ got'[c][i] = got[c][i]
        BY <2>1, <3>1, <4>1 DEF Progress, Trace
      <4> QED BY <1>2, <3>1, <4>1
    <3>4. Started(id)'
      BY <1>2, <1>3, <1>5, <1>6 DEF Started
    <3>5. Started(m)'
      BY <1>9, <3>2, <3>3, <3>4
    <3> QED BY <3>1, <3>5
  <2>2. ASSUME NEW m \in Own(s)
        PROVE  /\ \A f \in inflight' : f[2] = m => Started(m)' /\ seen'.unheard[m] > 0
               /\ \A n \in Node : <<m, n>> \in seen'.executed => Started(m)'
               /\ m \in queued' => m[2] <= served'[s]
    BY <1>1, <1>4, <1>9 DEF Progress, Trace
  <2> QED BY <1>5, <2>1, <2>2 DEF Trace
<1>12. Blamed(s)' /\ Staying(s)'
  BY <1>1, <1>4, <1>5, <1>7 DEF Blamed, Staying
<1>13. Accounted(s)'
  <2> SUFFICES ASSUME NEW m \in Own(s), NEW c \in Conn
               PROVE  /\ Copies(m, c)' <= 1 + seen'.unheard[m]
                      /\ Of(m).op = "count" \/ (m = id /\ MayAnswer(s, c)') =>
                           Copies(m, c)' <= seen'.unheard[m]
    BY <1>5 DEF Accounted
  <2>1. Late(m, c)' = Late(m, c)
    BY <1>1 DEF Late
  <2>2. seen'.unheard[m] = seen.unheard[m] /\ seen.unheard[m] \in Nat
    BY <1>4, <1>9, SeenFacts
  <2>3. CASE m # id
    <3>1. Copies(m, c)' = Copies(m, c)
      BY <1>8, <2>1, <2>3 DEF Copies
    <3>2. /\ Copies(m, c) <= 1 + seen.unheard[m]
          /\ Of(m).op = "count" => Copies(m, c) <= seen.unheard[m]
      BY DEF Progress, Accounted
    <3> QED BY <2>2, <2>3, <3>1, <3>2
  <2>4. CASE m = id
    <3>1. Cardinality(Late(m, c)') = 0 /\ Times(m, c) = 0
      BY <1>3, <2>1, <2>4, FS_EmptySet
    <3>2. Times(m, c)' = IF c \in R THEN 1 ELSE 0
      BY <1>2, <2>4, <3>1
    <3>3. Copies(m, c)' = IF c \in R THEN 1 ELSE 0
      BY <3>1, <3>2 DEF Copies
    <3>4. Of(m).op = "count" => c \notin R
      BY <1>5, <2>4
    <3>5. MayAnswer(s, c)' => c \notin R
      <4>1. CASE how = "all"
        BY <1>1, <4>1 DEF MayAnswer
      <4>2. CASE how = "one"
        BY <4>2
      <4> QED BY <4>1, <4>2
    <3> QED BY <2>2, <3>3, <3>4, <3>5
  <2> QED BY <2>3, <2>4
<1>14. InOrder(s)'
  <2> SUFFICES ASSUME NEW c \in Conn, NEW i \in DOMAIN got'[c], NEW j \in DOMAIN got'[c], i < j,
                      got'[c][i][1] = s, got'[c][j][1] = s,
                      seen'.unheard[got'[c][i]] = 0, seen'.unheard[got'[c][j]] = 0
               PROVE  got'[c][i][2] < got'[c][j][2]
    BY DEF InOrder
  <2>1. /\ i \in Nat /\ j \in Nat /\ Len(got[c]) \in Nat
        /\ \A k \in DOMAIN got[c] : k <= Len(got[c])
    <3>1. got'[c] \in Seq(Id) /\ got[c] \in Seq(Id)
      BY <1>5 DEF TypeOK
    <3> QED BY <3>1, SMTT(30)
  <2>2. i \in DOMAIN got[c] /\ got'[c][i] = got[c][i]
    <3>1. /\ (i \in DOMAIN got[c] /\ got'[c][i] = got[c][i]) \/ i = Len(got[c]) + 1
          /\ j \in DOMAIN got[c] \/ j = Len(got[c]) + 1
      OBVIOUS
    <3> QED BY <2>1, <3>1
  <2>3. CASE j \in DOMAIN got[c] /\ got'[c][j] = got[c][j]
    BY <1>4, <2>2, <2>3 DEF Progress, InOrder
  <2>4. CASE got'[c][j] = Current(s)
    <3>1. got[c][i][2] <= served[s] /\ got[c][i][2] \in Nat
      BY <2>2, Fresh
    <3> QED BY <1>2, <1>3, <2>2, <2>4, <3>1
  <2> QED BY <2>3, <2>4
<1>15. Reaching(s)'
  <2> SUFFICES ASSUME Statement(s).op = "pipe", NEW c \in online \ {s}, Addressed(id, c)
               PROVE  Times(id, c)' > 0 \/ (Home[c] \in Range(list) /\ stage'[Link(s)'] # "done")
    BY <1>1, <1>4, <1>5, <1>22 DEF Reaching
  <2>1. CASE c \in R
    <3>1. c \in Conn
      BY DEF TypeOK
    <3>2. Times(id, c)' = 1
      BY <1>2, <1>3, <2>1, <3>1
    <3> QED BY <3>2
  <2>2. CASE Home[c] \in Range(list)
    <3>1. list # <<>>
      BY <2>2, HeadFacts
    <3> QED BY <1>7, <2>2, <3>1
  <2> QED BY <1>2, <2>1, <2>2
<1>16. HasReached(s)'
  <2> SUFFICES ASSUME NEW m \in Own(s), m \in Finished, Of(m).op = "pipe",
                      NEW c \in seen'.audience[m] \ {s}, Addressed(m, c)
               PROVE  Times(m, c)' > 0 \/ <<s, Home[c]>> \in seen'.troubled
    BY <1>5, <1>9, <1>22 DEF HasReached
  <2>1. c \in seen.audience[m] /\ c \in Conn
    BY <1>4, <1>9, SeenFacts
  <2>2. Times(m, c)' = Times(m, c)
    BY <1>8, <1>9, <2>1
  <2> QED BY <1>4, <2>1, <2>2 DEF Progress, HasReached
<1>17. Choosing(s)'
  <2>1. ASSUME Place[s] = Proxy, Statement(s).op = "user" PROVE Choosing(s)'
    <3>1. how = "one" /\ list # <<>>
      BY <2>1
    <3>2. Executors(id)' = {}
      BY <1>3, <1>9
    <3> QED BY <1>1, <1>5, <1>7, <3>1, <3>2 DEF Choosing
  <2> QED BY <1>5, <2>1 DEF Choosing
<1>18. HasChosen(s)'
  <2>1. ASSUME NEW m \in Own(s), m \in Finished, Place[s] = Proxy, Of(m).op = "user",
               seen.unheard[m] = 0, NEW k \in Node, <<s, k>> \notin seen.troubled
        PROVE  \E n \in Node : Executors(m)' = {n}
    <3>1. Executors(m)' = Executors(m)
      BY <1>9
    <3>2. \E n \in Node : Executors(m) = {n}
      BY <2>1 DEF Progress, HasChosen
    <3> QED BY <3>1, <3>2
  <2> QED BY <1>4, <1>5, <1>9, <2>1 DEF HasChosen
<1>19. Adding(s)'
  <2>1. sum'[s] = 0 /\ reply'[s] = 0
    BY <1>1, <1>3
  <2>2. CASE Statement(s).op # "count"
    BY <1>6, <2>1, <2>2 DEF Adding
  <2>3. CASE Statement(s).op = "count"
    <3>1. Sure(s)' \subseteq Conn /\ seen'.met[s] = online /\ online \subseteq Conn
      BY <1>4, <1>5, <2>3 DEF Sure, TypeOK
    <3>2. \A c \in Conn : Home[c] \in Range(todo'[s])
      BY <1>1, <2>3 DEF ClusterAssumption
    <3>3. On(Sure(s), s)' = {} /\ On(seen.met[s], s)' = {}
      BY <3>1, <3>2 DEF On
    <3>4. Cardinality({}) = 0
      BY FS_EmptySet
    <3> QED BY <1>1, <1>7, <2>1, <3>1, <3>3, <3>4 DEF Adding
  <2> QED BY <2>2, <2>3
<1>20. Storing(s)'
  <2>1. \A f \in inflight' : f[2] \in Own(s)' => ~Direct(f[2])'
    <3>1. ASSUME NEW f \in inflight, f[2] \in Own(s) PROVE ~Direct(f[2])'
      <4>1. PICK m : m = f[2]
        OBVIOUS
      <4>2. ~Direct(m)
        BY <3>1, <4>1 DEF Progress, Storing
      <4>3. ~Direct(m)'
        BY <1>5, <4>2
      <4> QED BY <4>1, <4>3
    <3> QED BY <1>1, <1>5, <3>1
  <2>2. ASSUME Direct(id)
        PROVE  undelivered'[s] <=> Times(id, Of(id).to)' = 0
    <3>1. PICK c \in Conn : c = Of(id).to
      BY <1>2, <2>2, IdFacts DEF Direct, Request, Message
    <3>2. Times(id, c)' = IF c \in R THEN 1 ELSE 0
      BY <1>2, <1>3
    <3>3. undelivered'[s] <=> c \notin R
      BY <1>2, <1>5, <2>2, <3>1
    <3>4. Times(id, c)' = 0 <=> c \notin R
      BY <3>2
    <3>5. Of(id)' = Of(id)
      BY <1>5
    <3> QED BY <3>1, <3>3, <3>4, <3>5
  <2> QED BY <1>5, <2>1, <2>2 DEF Storing
<1>21. HasStored(s)'
  <2> SUFFICES ASSUME NEW m \in Own(s), m \in Finished, Direct(m)
               PROVE  /\ Kept(m)' \/ m \in seen'.unstored
                      /\ m \in queued' => Times(m, Of(m).to)' = 0
    BY <1>5, <1>9 DEF HasStored
  <2>1. /\ Kept(m) \/ m \in seen'.unstored
        /\ m \in queued => Times(m, Of(m).to) = 0
    BY <1>4 DEF Progress, HasStored
  <2>2. PICK c \in Conn : c = Of(m).to
    BY <1>9, IdFacts DEF Direct, Request, Message
  <2>3. Times(m, c)' = Times(m, c) /\ Of(m)' = Of(m)
    BY <1>5, <1>8, <1>9
  <2> QED BY <1>1, <2>1, <2>2, <2>3 DEF Kept
<1> QED BY <1>10, <1>11, <1>12, <1>13, <1>14, <1>15, <1>16, <1>17, <1>18, <1>19, <1>20, <1>21
        DEF Progress

LEMMA RouteOwn ==
  ASSUME ClusterAssumption, ClusterInv, NEW s \in Sender, Route(s)
  PROVE  Progress(s)'
<1>1. /\ TypeOK /\ Progress(s) /\ Ready(s) /\ Place[s] = Proxy /\ UNCHANGED <<script, got>>
  BY DEF ClusterInv, Route, Go
<1>2. TypeOK'
  BY RouteTypes
<1>3. PICK how \in {"all", "one"}, list \in Seq(Node) :
        /\ Go(s, how, list) /\ IsInjective(list) /\ Place[s] \notin Range(list)
        /\ how = "all" <=> ~(Place[s] = Proxy /\ Statement(s).op = "user")
        /\ how = "one" => list # <<>>
        /\ Statement(s).op # "user" => Range(list) = Node
  <2>1. CASE Statement(s).op = "user"
    <3>1. PICK n \in Node : Go(s, "one", <<n>>)
      BY <2>1 DEF Route
    <3>2. /\ <<n>> \in Seq(Node) /\ <<n>> # <<>> /\ IsInjective(<<n>>)
          /\ Range(<<n>>) = {n} /\ Place[s] \notin Node
      BY <1>1, Lists
    <3> QED BY <1>1, <2>1, <3>1, <3>2
  <2>2. CASE Statement(s).op # "user"
    <3>1. Go(s, "all", proxyCluster)
      BY <2>2 DEF Route
    <3> QED BY <1>1, <2>2, <3>1, Lists
  <2> QED BY <2>1, <2>2
<1>4. ASSUME NEW c \in Conn, NEW m
      PROVE  Times(m, c)' = Times(m, c) /\ Times(m, c) \in Nat
  <2>1. Times(m, c) \in Nat
    BY <1>1, TimesNat
  <2>2. got' = got
    BY <1>1
  <2> QED BY <2>1, <2>2 DEF Times
<1>5. ~Direct(Current(s))
  BY <1>1, CurrentFacts DEF Direct, Ready
<1>6. \A c \in Conn : Home[c] \in Node
  BY DEF ClusterAssumption
<1>7. Statement(s).op = "pipe" => \A c \in online \ {s} : Home[c] \in Range(list)
  BY <1>1, <1>3, <1>6 DEF TypeOK
<1>8. PICK R \in SUBSET online : R = {}
  OBVIOUS
<1>9. \A c \in Conn : \A m :
        Times(m, c)' = Times(m, c) + IF m = Current(s) /\ c \in R THEN 1 ELSE 0
  BY <1>4, <1>8
<1>10. /\ Statement(s).op = "count" => Range(list) = Node
       /\ Statement(s).op = "count" => R = {}
       /\ how = "one" => list # <<>> /\ R = {}
       /\ \A c \in R : Home[c] \notin Range(list)
       /\ Statement(s).op = "pipe" => \A c \in online \ {s} :
            Addressed(Current(s), c) => c \in R \/ Home[c] \in Range(list)
       /\ Direct(Current(s)) => (undelivered'[s] <=> Statement(s).to \notin R)
  BY <1>3, <1>5, <1>7, <1>8
<1>11. \A c \in Conn : \A i \in DOMAIN got'[c] :
           \/ i \in DOMAIN got[c] /\ got'[c][i] = got[c][i]
           \/ i = Len(got[c]) + 1 /\ got'[c][i] = Current(s)
  BY <1>1
<1>12. /\ Go(s, how, list) /\ IsInjective(list) /\ Place[s] \notin Range(list)
       /\ how = "all" <=> ~(Place[s] = Proxy /\ Statement(s).op = "user")
  BY <1>3
<1>13. Begins(s, how, list, R)
  BY <1>1, <1>9, <1>10, <1>11, <1>12 DEF Begins
<1> QED BY <1>1, <1>2, <1>13, GoOwn

LEMMA SendHereOwn ==
  ASSUME ClusterAssumption, ClusterInv, NEW s \in Sender, SendHere(s)
  PROVE  Progress(s)'
<1>1. /\ TypeOK /\ Progress(s) /\ Ready(s) /\ UNCHANGED script /\ Place[s] \in up
      /\ Deliver(Place[s], Current(s))
      /\ Go(s, "all", IF Forwarded(s) THEN wsCluster[Place[s]] ELSE <<>>)
  BY DEF ClusterInv, SendHere, Go
<1>2. TypeOK'
  BY SendHereTypes
<1>3. Place[s] \in Node /\ Place[s] # Proxy
  BY <1>1 DEF TypeOK, ClusterAssumption
<1>4. PICK list \in Seq(Node) :
        /\ Go(s, "all", list) /\ IsInjective(list)
        /\ Range(list) = IF Forwarded(s) THEN Node \ {Place[s]} ELSE {}
  <2>1. CASE Forwarded(s)
    BY <1>1, <1>3, <2>1, Lists
  <2>2. CASE ~Forwarded(s)
    <3>1. Go(s, "all", <<>>)
      BY <1>1, <2>2
    <3>2. <<>> \in Seq(Node) /\ Range(<<>>) = {} /\ IsInjective(<<>>)
      BY HeadFacts
    <3> QED BY <2>2, <3>1, <3>2
  <2> QED BY <2>1, <2>2
<1>5. Current(s) \in Id /\ Current(s)[1] = s /\ Statement(s).op # "count"
  <2>1. Current(s) \in Id /\ Current(s)[1] = s
    BY <1>1, CurrentFacts DEF Ready
  <2>2. PICK id \in Id : id = Current(s)
    BY <2>1
  <2>3. Of(id).op # "count"
    BY <1>1, <1>3, <2>1, <2>2, IdFacts
  <2> QED BY <2>1, <2>2, <2>3 DEF Statement
<1>6. PICK R \in SUBSET online : R = Receivers(Place[s], Current(s))
  BY DEF Receivers
<1>7. \A c \in Conn : \A m :
        Times(m, c)' = Times(m, c) + IF m = Current(s) /\ c \in R THEN 1 ELSE 0
  BY <1>1, <1>3, <1>5, <1>6, Delivered
<1>8. \A c \in Conn : \A i \in DOMAIN got'[c] :
           \/ i \in DOMAIN got[c] /\ got'[c][i] = got[c][i]
           \/ i = Len(got[c]) + 1 /\ got'[c][i] = Current(s)
  BY <1>1, <1>3, <1>5, Delivered
<1>9. \A c \in R : Home[c] \notin Range(list)
  BY <1>4, <1>6 DEF Receivers
<1>10. Statement(s).op = "pipe" => \A c \in online \ {s} :
         Addressed(Current(s), c) => c \in R \/ Home[c] \in Range(list)
  <2>1. \A c \in online : Home[c] \in Node
    BY <1>1 DEF TypeOK, ClusterAssumption
  <2>2. PassedOn(Current(s)) => Forwarded(s)
    BY <1>3, <1>5 DEF PassedOn, Forwarded
  <2>3. \A c : Addressed(Current(s), c) => PassedOn(Current(s)) \/ Home[c] = Place[s]
    BY <1>5 DEF Addressed
  <2> QED BY <1>4, <1>5, <1>6, <2>1, <2>2, <2>3 DEF Receivers, Statement
<1>11. Direct(Current(s)) => (undelivered'[s] <=> Statement(s).to \notin R)
  <2>1. undelivered'[s] <=> R = {}
    <3>1. PICK b \in BOOLEAN : b <=> Receivers(Place[s], Current(s)) = {}
      OBVIOUS
    <3>2. undelivered' = [undelivered EXCEPT ![s] = b]
      BY <3>1 DEF SendHere
    <3>3. undelivered'[s] = b
      BY <1>1, <3>2 DEF TypeOK
    <3> QED BY <1>6, <3>1, <3>3
  <2>2. Direct(Current(s)) => \A c \in R : c = Statement(s).to
    BY <1>6 DEF Receivers, Direct, Statement
  <2> QED BY <2>1, <2>2
<1>12. Place[s] \notin Range(list)
  BY <1>4
<1>13. PICK how \in {"all", "one"} : how = "all"
  OBVIOUS
<1>14. Begins(s, how, list, R)
  BY <1>1, <1>3, <1>4, <1>5, <1>7, <1>8, <1>9, <1>10, <1>11, <1>12, <1>13 DEF Begins
<1> QED BY <1>1, <1>2, <1>14, GoOwn

-----------------------------------------------------------------------------
\* A sender attempts its statement

\* No answer: the statement may still be carried out, which is why one is owed.
LEMMA NoAnswerOwn ==
  ASSUME ClusterAssumption, ClusterInv, NEW s \in Sender,
         NEW o \in {"refused", "lost", "unanswered"}, Attempted(s, o)
  PROVE  Progress(s)'
<1>1. TypeOK /\ Calls /\ Progress(s) /\ seen \in Seen
  BY DEF ClusterInv, TypeOK
<1>2. TypeOK'
  BY AttemptTypes
<1>3. /\ todo[s] # <<>> /\ Head(todo[s]) \in Node /\ Link(s) \in Thread /\ Busy(s)
      /\ Current(s) \in Own(s) /\ Current(s) \in Id /\ ~Heard(s) /\ ~Failed(s)
      /\ \/ stage'[Link(s)] = "reconnect"
         \/ stage'[Link(s)] = "done" /\ result'[Link(s)] = "error"
      /\ o = "refused" => ~Understood(s)
      /\ UNCHANGED <<script, served, step, todo, sum, undelivered, up, online, queued>>
  BY AttemptFacts
<1>4. /\ UNCHANGED <<got, reply>>
      /\ seen' = [seen EXCEPT
           !.troubled = @ \cup IF o = "refused" THEN {} ELSE {Link(s)},
           !.unheard[Current(s)] = @ + IF o = "unanswered" THEN 1 ELSE 0]
      /\ \/ UNCHANGED inflight
         \/ /\ o = "unanswered" /\ Understood(s) /\ faults' \in 1..MaxFaults
            /\ inflight' = inflight \cup {<<Head(todo[s]), Current(s), faults'>>}
  BY NoAnswerFacts, ZenonT(60)
<1>5. PICK id \in Own(s) : id = Current(s) /\ id \in Id
  BY <1>3
<1>6. PICK k \in {0, 1} : k = IF o = "unanswered" THEN 1 ELSE 0
  OBVIOUS
<1>7. PICK h \in [Id -> Nat] : h = seen.unheard
  BY <1>1, SeenFacts
<1>8. /\ seen'.audience = seen.audience /\ seen'.met = seen.met
      /\ seen'.executed = seen.executed /\ seen'.abandoned = seen.abandoned
      /\ seen'.unstored = seen.unstored
      /\ seen.troubled \subseteq seen'.troubled
      /\ o # "refused" => Link(s) \in seen'.troubled
      /\ seen'.unheard = [h EXCEPT ![id] = @ + k]
  BY <1>1, <1>4, <1>5, <1>6, <1>7 DEF Seen
<1>9. \A m \in Id : /\ h[m] \in Nat /\ seen'.unheard[m] = h[m] + IF m = id THEN k ELSE 0
                    /\ seen'.unheard[m] >= h[m] /\ seen'.unheard[m] \in Nat
  BY <1>6, <1>8
<1>10. Steady(s)
  BY <1>3, <1>4, <1>7, <1>8, <1>9 DEF Steady, Busy
<1>11. stage[Link(s)] # "done"
  BY <1>1, <1>3 DEF Calls, Heard, Failed
<1>12. /\ Round(s)' /\ Blamed(s)' /\ Reaching(s)' /\ Choosing(s)' /\ Adding(s)'
       /\ \A c : MayAnswer(s, c)' <=> MayAnswer(s, c)
  BY <1>1, <1>2, <1>3, <1>4, <1>8, <1>10, <1>11, UnansweredKeeps
<1>13. /\ Own(s)' = Own(s) /\ Current(s)' = id /\ Statement(s)' = Statement(s)
       /\ \A m : Of(m)' = Of(m) /\ (Direct(m)' <=> Direct(m))
       /\ \A m, c : Times(m, c)' = Times(m, c)
       /\ \A m \in Own(s) : Started(m)' <=> Started(m)
  BY <1>1, <1>5, <1>10, SteadyFacts
<1>14. \A m \in Own(s) : m \in Id /\ m[1] = s
  BY <1>1, CurrentFacts
<1>15. \A f \in inflight' : f \in inflight \/ (f[2] = id /\ k = 1 /\ Understood(s))
  BY <1>4, <1>5, <1>6
<1>16. Started(id)
  BY <1>3, <1>5, <1>14 DEF Started
<1>17. Trace(s)'
  <2>1. ASSUME NEW c \in Conn, NEW i \in DOMAIN got[c], got[c][i][1] = s
        PROVE  Started(got[c][i])'
    <3>1. PICK m \in Own(s) : m = got[c][i]
      BY <1>1, <2>1 DEF TypeOK, Own
    <3>2. Started(got[c][i])
      BY <1>1, <2>1 DEF Progress, Trace
    <3>3. Started(m)'
      BY <1>13, <3>1, <3>2
    <3>4. got' = got
      BY <1>4
    <3> QED BY <3>1, <3>3, <3>4
  <2>2. ASSUME NEW m \in Own(s)
        PROVE  /\ \A f \in inflight' : f[2] = m => Started(m)' /\ seen'.unheard[m] > 0
               /\ \A n \in Node : <<m, n>> \in seen'.executed => Started(m)'
               /\ m \in queued' => m[2] <= served'[s]
    <3>1. /\ \A f \in inflight : f[2] = m => Started(m) /\ h[m] > 0
          /\ \A n \in Node : <<m, n>> \in seen.executed => Started(m)
          /\ m \in queued => m[2] <= served[s]
      BY <1>1, <1>7 DEF Progress, Trace
    <3>2. m = id /\ k = 1 => seen'.unheard[m] > 0
      BY <1>9, <1>14
    <3>3. h[m] > 0 => seen'.unheard[m] > 0
      BY <1>9, <1>14
    <3> QED BY <1>3, <1>8, <1>13, <1>15, <1>16, <3>1, <3>2, <3>3
  <2> QED BY <1>4, <1>13, <2>1, <2>2 DEF Trace
<1>18. Accounted(s)'
  <2> SUFFICES ASSUME NEW m \in Own(s), NEW c \in Conn
               PROVE  /\ Copies(m, c)' <= 1 + seen'.unheard[m]
                      /\ Of(m).op = "count" \/ (m = id /\ MayAnswer(s, c)) =>
                           Copies(m, c)' <= seen'.unheard[m]
    BY <1>12, <1>13 DEF Accounted
  <2>1. PICK L, M, t : L = Late(m, c) /\ M = Late(m, c)' /\ t = Times(m, c)
    OBVIOUS
  <2>2. IsFiniteSet(L) /\ Cardinality(L) \in Nat /\ t \in Nat
    BY <1>1, <2>1, LateFinite, TimesNat
  <2>3. \/ M = L
        \/ m = id /\ k = 1 /\ M \subseteq L \cup {faults'}
    BY <1>4, <1>5, <1>6, <2>1 DEF Late
  <2>4. Cardinality(M) \in Nat /\ Cardinality(M) <= Cardinality(L) + IF m = id THEN k ELSE 0
    <3>1. CASE M = L
      BY <1>6, <2>2, <3>1
    <3>2. CASE m = id /\ k = 1 /\ M \subseteq L \cup {faults'}
      <4>1. /\ IsFiniteSet(L \cup {faults'})
            /\ Cardinality(L \cup {faults'}) \in {Cardinality(L), Cardinality(L) + 1}
        BY <2>2, FS_AddElement
      <4>2. Cardinality(M) <= Cardinality(L \cup {faults'}) /\ IsFiniteSet(M)
        BY <3>2, <4>1, FS_Subset
      <4>3. Cardinality(M) \in Nat
        BY <4>2, FS_CardinalityType
      <4> QED BY <2>2, <3>2, <4>1, <4>2, <4>3
    <3> QED BY <2>3, <3>1, <3>2
  <2>5. Copies(m, c)' = t + Cardinality(M)
    BY <1>13, <2>1 DEF Copies
  <2>6. /\ t + Cardinality(L) <= 1 + h[m]
        /\ Of(m).op = "count" \/ (m = id /\ MayAnswer(s, c)) => t + Cardinality(L) <= h[m]
    BY <1>1, <1>5, <1>7, <2>1 DEF Progress, Accounted, Copies
  <2>7. h[m] \in Nat /\ seen'.unheard[m] = h[m] + IF m = id THEN k ELSE 0
    BY <1>9, <1>14
  <2>8. Copies(m, c)' <= 1 + seen'.unheard[m]
    BY <1>6, <2>2, <2>4, <2>5, <2>6, <2>7
  <2>9. ASSUME Of(m).op = "count" \/ (m = id /\ MayAnswer(s, c))
        PROVE  Copies(m, c)' <= seen'.unheard[m]
    BY <1>6, <2>2, <2>4, <2>5, <2>6, <2>7, <2>9
  <2> QED BY <2>8, <2>9
<1>19. Storing(s)'
  <2>1. ASSUME NEW f \in inflight', f[2] \in Own(s) PROVE ~Direct(f[2])'
    <3>1. PICK m : m = f[2]
      OBVIOUS
    <3>2. ~Direct(m)
      <4>1. CASE f \in inflight
        BY <1>1, <2>1, <3>1, <4>1 DEF Progress, Storing
      <4>2. CASE f[2] = id /\ Understood(s)
        BY <1>5, <1>14, <3>1, <4>2 DEF Understood, Direct, Statement
      <4> QED BY <1>15, <4>1, <4>2
    <3>3. ~Direct(m)'
      BY <1>13, <3>2
    <3> QED BY <3>1, <3>3
  <2>2. ASSUME Direct(id)
        PROVE  undelivered'[s] <=> Times(id, Statement(s).to)' = 0
    <3>1. PICK c : c = Statement(s).to
      OBVIOUS
    <3>2. undelivered[s] <=> Times(id, c) = 0
      BY <1>1, <1>3, <1>5, <2>2, <3>1 DEF Progress, Storing
    <3> QED BY <1>3, <1>13, <3>1, <3>2
  <2> QED BY <1>13, <2>1, <2>2 DEF Storing
<1> QED BY <1>1, <1>2, <1>10, <1>12, <1>17, <1>18, <1>19, SteadyKeeps DEF Progress

\* A node carries out a statement of a sender, one that it has begun and whose
\* answer was lost, or the present one, which has reached nobody there.
LEMMA RunKeeps ==
  ASSUME ClusterAssumption, TypeOK, TypeOK', NEW s \in Sender, Progress(s),
         NEW n \in Node, NEW id \in Own(s), Run(n, id), Started(id), ~Direct(id),
         UNCHANGED <<script, served, step, undelivered, online, queued>>,
         inflight' \subseteq inflight,
         \/ seen.unheard[id] > 0
         \/ id = Current(s) /\ \A c \in Receivers(n, id) : Times(id, c) = 0
  PROVE  /\ Own(s)' = Own(s) /\ Current(s)' = Current(s) /\ Statement(s)' = Statement(s)
         /\ \A m : Of(m)' = Of(m)
         /\ \A m, c : Addressed(m, c)' <=> Addressed(m, c)
         /\ (Busy(s)' <=> Busy(s)) /\ (Counting(s)' <=> Counting(s))
         /\ \A c \in Conn : \A m : Times(m, c) \in Nat /\
              Times(m, c)' = Times(m, c) + IF m = id /\ c \in Receivers(n, id) THEN 1 ELSE 0
         /\ \A m : m # id => Executors(m)' = Executors(m)
         /\ Of(id).op = "user" => Executors(id)' = Executors(id) \cup {n}
         /\ UNCHANGED <<seen.audience, seen.met, seen.unheard, seen.troubled,
                        seen.abandoned, seen.unstored, seen.counts>>
         /\ Trace(s)' /\ InOrder(s)' /\ Staying(s)' /\ Storing(s)'
         /\ HasReached(s)' /\ HasChosen(s)' /\ HasStored(s)'
<1>1. /\ Own(s)' = Own(s) /\ Current(s)' = Current(s) /\ Statement(s)' = Statement(s)
      /\ \A m : Of(m)' = Of(m) /\ (Direct(m)' <=> Direct(m))
      /\ (Busy(s)' <=> Busy(s)) /\ (Counting(s)' <=> Counting(s))
      /\ \A m, c : Addressed(m, c)' <=> Addressed(m, c)
      /\ \A m : Started(m)' <=> Started(m)
      /\ Id' = Id
  BY DEF Own, Id, Current, Statement, Of, Direct, Busy, Counting, Started, Addressed, PassedOn
<1>2. id \in Id /\ id[1] = s /\ \A m \in Own(s) : m \in Id /\ m[1] = s /\ m[2] \in Nat
  BY CurrentFacts
<1>3. Deliver(n, id)
  BY <1>2, RunDelivers
<1>4. /\ got' \in [Conn -> Seq(Id)]
      /\ \A c \in Conn : \A m :
           Times(m, c)' = Times(m, c) + IF m = id /\ c \in Receivers(n, id) THEN 1 ELSE 0
      /\ \A c \in Conn : \A i \in DOMAIN got'[c] :
           \/ i \in DOMAIN got[c] /\ got'[c][i] = got[c][i]
           \/ i = Len(got[c]) + 1 /\ got'[c][i] = id /\ c \in Receivers(n, id)
  BY <1>2, <1>3, Delivered
<1>5. \A c \in Conn : \A m : Times(m, c) \in Nat
  BY TimesNat
<1>6. /\ UNCHANGED <<seen.audience, seen.met, seen.unheard, seen.troubled, seen.abandoned,
                     seen.unstored, seen.counts>>
      /\ seen'.executed = seen.executed \cup IF Of(id).op = "user" THEN {<<id, n>>} ELSE {}
  BY DEF TypeOK, Seen, Run
<1>7. \A m : m # id => Executors(m)' = Executors(m)
  BY <1>6 DEF Executors
<1>8. Of(id).op = "user" => Executors(id)' = Executors(id) \cup {n}
  BY <1>6 DEF Executors
<1>9. \A m \in Own(s) : m \in Finished' <=> m \in Finished
  BY <1>1, <1>6 DEF Finished
<1>10. seen.unheard[id] = 0 => id \notin Finished /\ \A c \in Receivers(n, id) : Times(id, c) = 0
  <2>1. seen.unheard[id] \in Nat
    BY <1>2, SeenFacts
  <2>2. id = Current(s) => ~(id[2] <= served[s])
    BY CurrentFacts
  <2> QED BY <1>2, <2>1, <2>2 DEF Finished
<1>11. Trace(s)'
  <2>1. ASSUME NEW c \in Conn, NEW i \in DOMAIN got'[c], got'[c][i][1] = s
        PROVE  Started(got'[c][i])
    <3>1. CASE i \in DOMAIN got[c] /\ got'[c][i] = got[c][i]
      BY <2>1, <3>1 DEF Progress, Trace
    <3>2. CASE got'[c][i] = id
      BY <3>2
    <3> QED BY <1>4, <3>1, <3>2
  <2>2. ASSUME NEW c \in Conn, NEW i \in DOMAIN got'[c], got'[c][i][1] = s
        PROVE  Started(got[c][i])'
    <3>1. PICK m : m = got'[c][i]
      OBVIOUS
    <3>2. Started(m)
      BY <2>1, <2>2, <3>1
    <3>3. Started(m)'
      BY <1>1, <3>2
    <3> QED BY <3>1, <3>3
  <2>3. ASSUME NEW m \in Own(s)
        PROVE  /\ \A f \in inflight' : f[2] = m => Started(m)' /\ seen'.unheard[m] > 0
               /\ \A k \in Node : <<m, k>> \in seen'.executed => Started(m)'
               /\ m \in queued' => m[2] <= served'[s]
    BY <1>1, <1>6 DEF Progress, Trace
  <2> QED BY <1>1, <2>2, <2>3 DEF Trace
<1>12. InOrder(s)'
  <2> SUFFICES ASSUME NEW c \in Conn, NEW i \in DOMAIN got'[c], NEW j \in DOMAIN got'[c],
                      i < j, got'[c][i][1] = s, got'[c][j][1] = s,
                      seen'.unheard[got'[c][i]] = 0, seen'.unheard[got'[c][j]] = 0
               PROVE  got'[c][i][2] < got'[c][j][2]
    BY DEF InOrder
  <2>1. DOMAIN got[c] = 1 .. Len(got[c]) /\ Len(got[c]) \in Nat
    BY DEF TypeOK
  <2>2. i \in Nat /\ j \in Nat
    BY <1>4
  <2>3. i \in DOMAIN got[c] /\ got'[c][i] = got[c][i]
    <3>1. PICK l \in Nat : l = Len(got[c]) /\ DOMAIN got[c] = 1 .. l
      BY <2>1
    <3>2. \A k \in DOMAIN got'[c] : \/ k \in DOMAIN got[c] /\ got'[c][k] = got[c][k]
                                    \/ k = l + 1
      BY <1>4, <3>1
    <3>3. j <= l + 1
      <4>1. j \in DOMAIN got[c] \/ j = l + 1
        BY <3>2
      <4>2. j \in 1 .. l \/ j = l + 1
        BY <3>1, <4>1
      <4> QED BY <2>2, <4>2
    <3>4. i # l + 1
      BY <2>2, <3>1, <3>3
    <3> QED BY <3>2, <3>4
  <2>4. CASE j \in DOMAIN got[c] /\ got'[c][j] = got[c][j]
    BY <1>6, <2>3, <2>4 DEF Progress, InOrder
  <2>5. CASE got'[c][j] = id /\ c \in Receivers(n, id)
    <3>1. seen.unheard[id] = 0
      BY <1>6, <2>5
    <3>2. Times(id, c) = 0 /\ id = Current(s)
      BY <1>2, <1>10, <2>5, <3>1, SeenFacts
    <3>3. got[c][i] # id
      <4>1. Times(id, c) > 0 <=> \E l \in DOMAIN got[c] : got[c][l] = id
        BY TimesNat
      <4> QED BY <2>3, <3>2, <4>1
    <3>4. PICK m \in Own(s) : m = got[c][i]
      BY <2>3, SMTT(30) DEF TypeOK, Own
    <3>5. Started(got[c][i])
      BY <2>3 DEF Progress, Trace
    <3>6. Started(m) /\ m # id /\ m[1] = s /\ m[2] \in Nat
      BY <1>2, <3>3, <3>4, <3>5
    <3>7. m[2] <= served[s]
      BY <3>2, <3>6 DEF Started
    <3>8. id[2] = served[s] + 1 /\ served[s] \in Nat
      BY <3>2, CurrentFacts
    <3>9. m[2] < id[2]
      BY <3>6, <3>7, <3>8
    <3> QED BY <2>3, <2>5, <3>4, <3>9
  <2> QED BY <1>4, <2>4, <2>5
<1>13. Staying(s)'
  BY <1>1, <1>6 DEF Progress, Staying
<1>14. Storing(s)'
  <2>1. \A f \in inflight' : f[2] \in Own(s) => ~Direct(f[2])
    BY DEF Progress, Storing
  <2>2. \A f \in inflight' : f[2] \in Own(s)' => ~Direct(f[2])'
    BY <1>1, <2>1
  <2>3. ASSUME Busy(s), Direct(Current(s))
        PROVE  undelivered'[s] <=> Times(Current(s), Statement(s).to)' = 0
    <3>1. PICK m, c : m = Current(s) /\ c = Statement(s).to
      OBVIOUS
    <3>2. m # id /\ c \in Conn
      <4>1. Statement(s) \in Request
        BY <2>3, CurrentFacts DEF Progress, Round
      <4> QED BY <2>3, <3>1, <4>1 DEF Direct, Statement, Request, Message
    <3>3. Times(m, c)' = Times(m, c)
      BY <1>4, <1>5, <3>2
    <3>4. undelivered[s] <=> Times(m, c) = 0
      BY <2>3, <3>1 DEF Progress, Storing
    <3> QED BY <1>1, <3>1, <3>3, <3>4
  <2> QED BY <1>1, <2>2, <2>3 DEF Storing
<1>15. HasReached(s)'
  <2> SUFFICES ASSUME NEW m \in Own(s), m \in Finished, Of(m).op = "pipe",
                      NEW c \in seen.audience[m] \ {s}, Addressed(m, c)
               PROVE  Times(m, c)' > 0 \/ <<s, Home[c]>> \in seen.troubled
    BY <1>1, <1>6, <1>9 DEF HasReached
  <2>1. Times(m, c) > 0 \/ <<s, Home[c]>> \in seen.troubled
    BY DEF Progress, HasReached
  <2>2. c \in Conn
    <3>1. seen.audience \in [Id -> SUBSET Conn] /\ m \in Id
      BY <1>2, SeenFacts
    <3> QED BY <3>1
  <2>3. PICK t \in Nat, k \in {0, 1} : t = Times(m, c) /\ Times(m, c)' = t + k
    <3>1. PICK k \in {0, 1} : k = IF m = id /\ c \in Receivers(n, id) THEN 1 ELSE 0
      OBVIOUS
    <3>2. Times(m, c)' = Times(m, c) + k
      BY <1>4, <2>2, <3>1
    <3>3. Times(m, c) \in Nat
      BY <1>5, <2>2
    <3> QED BY <3>2, <3>3
  <2> QED BY <2>1, <2>3
<1>16. HasChosen(s)'
  <2> SUFFICES ASSUME NEW m \in Own(s), m \in Finished, Place[s] = Proxy, Of(m).op = "user",
                      seen.unheard[m] = 0, \E k \in Node : <<s, k>> \notin seen.troubled
               PROVE  \E k \in Node : Executors(m)' = {k}
    BY <1>1, <1>6, <1>9 DEF HasChosen
  <2>1. m # id
    BY <1>10
  <2> QED BY <1>7, <2>1 DEF Progress, HasChosen
<1>17. HasStored(s)'
  <2> SUFFICES ASSUME NEW m \in Own(s), m \in Finished, Direct(m)
               PROVE  /\ Kept(m)' \/ m \in seen'.unstored
                      /\ m \in queued => Times(m, Of(m).to)' = 0
    BY <1>1, <1>9 DEF HasStored
  <2>1. PICK c : c = Of(m).to
    OBVIOUS
  <2>2. c \in Conn /\ m # id
    BY <1>2, <2>1, IdFacts DEF Direct, Request, Message
  <2>3. Times(m, c)' = Times(m, c)
    BY <1>4, <1>5, <2>2
  <2>4. /\ Times(m, c) > 0 \/ m \in queued \/ m \in seen'.unstored
        /\ m \in queued => Times(m, c) = 0
    BY <1>6, <2>1 DEF Progress, HasStored, Kept
  <2> QED BY <1>1, <2>1, <2>3, <2>4 DEF Kept
<1> QED BY <1>1, <1>4, <1>5, <1>6, <1>7, <1>8, <1>11, <1>12, <1>13, <1>14, <1>15, <1>16, <1>17

\* An answer: whoever is there has the message, and whoever is there is counted.
LEMMA AnswerOwn ==
  ASSUME ClusterAssumption, ClusterInv, NEW s \in Sender, Attempted(s, "ok")
  PROVE  Progress(s)'
<1>1. TypeOK /\ Calls /\ Progress(s)
  BY DEF ClusterInv
<1>2. PICK o : o = "ok"
  OBVIOUS
<1>3. Attempted(s, o)
  BY <1>2
<1>4. TypeOK'
  BY <1>2, <1>3, AttemptTypes
<1>5. PICK n \in Node, id \in Own(s) : n = Head(todo[s]) /\ id = Current(s) /\ id \in Id
  BY <1>3, AttemptFacts
<1>6. /\ todo[s] # <<>> /\ Link(s) = <<s, n>> /\ Busy(s) /\ ~Heard(s) /\ ~Failed(s)
      /\ stage'[Link(s)] = "done" /\ result'[Link(s)] = "ok"
      /\ UNCHANGED <<script, served, step, todo, sum, undelivered, up, online, queued>>
  BY <1>2, <1>3, <1>5, AttemptFacts
<1>7. /\ Run(n, id) /\ Understood(s) /\ UNCHANGED inflight
      /\ reply' = [reply EXCEPT ![s] = Users(n, id)]
  BY <1>5, AnswerFacts
<1>8. /\ id \in Id /\ id[1] = s /\ Statement(s) = Of(id) /\ ~Direct(id) /\ Started(id)
      /\ seen.unheard[id] \in Nat /\ todo[s] \in Seq(Node)
  <2>1. seen.unheard \in [Id -> Nat]
    BY <1>1, SeenFacts
  <2>2. ~Direct(id)
    BY <1>1, <1>5, <1>7, CurrentFacts DEF Understood, Direct, Statement
  <2> QED BY <1>1, <1>5, <1>6, <2>1, <2>2, CurrentFacts, ZenonT(30) DEF Statement, Started, TypeOK
<1>9. n \in Range(todo[s]) /\ \A c : Home[c] = n => MayAnswer(s, c)
  BY <1>5, <1>6, <1>8, HeadFacts DEF MayAnswer
<1>10. ASSUME NEW c \in Conn, Home[c] = n
       PROVE  Copies(id, c) <= seen.unheard[id]
  BY <1>1, <1>5, <1>9, <1>10 DEF Progress, Accounted
<1>11. \A c \in Receivers(n, id) :
         c \in Conn /\ c \in online /\ Home[c] = n /\ Of(id).op # "count"
  BY <1>1 DEF Receivers, TypeOK
<1>12. seen.unheard[id] = 0 => \A c \in Receivers(n, id) : Times(id, c) = 0
  <2>1. ASSUME seen.unheard[id] = 0, NEW c \in Receivers(n, id) PROVE Times(id, c) = 0
    <3>1. PICK t \in Nat, l \in Nat : t = Times(id, c) /\ l = Cardinality(Late(id, c))
      BY <1>1, <1>11, TimesNat, LateFinite
    <3>2. t + l <= 0
      BY <1>10, <1>11, <2>1, <3>1 DEF Copies
    <3> QED BY <3>1, <3>2
  <2> QED BY <2>1
<1>13. \/ seen.unheard[id] > 0
       \/ id = Current(s) /\ \A c \in Receivers(n, id) : Times(id, c) = 0
  BY <1>5, <1>8, <1>12
<1>14. /\ Own(s)' = Own(s) /\ Current(s)' = id /\ Statement(s)' = Of(id)
       /\ \A m : Of(m)' = Of(m)
       /\ \A m, c : Addressed(m, c)' <=> Addressed(m, c)
       /\ Busy(s)' /\ (Counting(s)' <=> Counting(s))
       /\ \A c \in Conn : \A m : Times(m, c) \in Nat /\
            Times(m, c)' = Times(m, c) + IF m = id /\ c \in Receivers(n, id) THEN 1 ELSE 0
       /\ Of(id).op = "user" => Executors(id)' = Executors(id) \cup {n}
       /\ UNCHANGED <<seen.audience, seen.met, seen.unheard, seen.troubled>>
       /\ Trace(s)' /\ InOrder(s)' /\ Staying(s)' /\ Storing(s)'
       /\ HasReached(s)' /\ HasChosen(s)' /\ HasStored(s)'
  BY <1>1, <1>4, <1>5, <1>6, <1>7, <1>8, <1>13, RunKeeps
<1>15. /\ Link(s)' = Link(s) /\ Heard(s)' /\ ~Failed(s)' /\ Head(todo'[s]) = n
       /\ Understood(s)' <=> Understood(s)
  BY <1>5, <1>6 DEF Link, Heard, Failed, Understood, Statement, Of, Current
<1>16. Round(s)'
  BY <1>1, <1>6, <1>8, <1>14 DEF Progress, Round
<1>17. Blamed(s)'
  BY <1>15 DEF Blamed
<1>18. Accounted(s)'
  <2> SUFFICES ASSUME NEW m \in Own(s), NEW c \in Conn
               PROVE  /\ Copies(m, c)' <= 1 + seen.unheard[m]
                      /\ Of(m).op = "count" \/ (m = id /\ MayAnswer(s, c)') =>
                           Copies(m, c)' <= seen.unheard[m]
    BY <1>14 DEF Accounted
  <2>1. MayAnswer(s, c)' => MayAnswer(s, c) /\ Home[c] # n
    BY <1>5, <1>6, <1>15 DEF MayAnswer
  <2>2. PICK k \in {0, 1} : k = IF m = id /\ c \in Receivers(n, id) THEN 1 ELSE 0
    OBVIOUS
  <2>3. PICK t \in Nat, l \in Nat, h \in Nat :
          t = Times(m, c) /\ l = Cardinality(Late(m, c)) /\ h = seen.unheard[m]
    <3>1. seen.unheard \in [Id -> Nat] /\ m \in Id
      BY <1>1, SeenFacts, CurrentFacts
    <3> QED BY <1>1, <3>1, TimesNat, LateFinite
  <2>4. Times(m, c)' = t + k
    BY <1>14, <2>2, <2>3
  <2>5. Late(m, c)' = Late(m, c)
    BY <1>7 DEF Late
  <2>6. Copies(m, c)' = t + k + l
    BY <2>3, <2>4, <2>5 DEF Copies
  <2>7. /\ t + l <= 1 + h
        /\ Of(m).op = "count" \/ (m = id /\ MayAnswer(s, c)) => t + l <= h
    BY <1>1, <1>5, <2>3 DEF Progress, Accounted, Copies
  <2>8. k = 1 => m = id /\ Home[c] = n /\ MayAnswer(s, c) /\ Of(m).op # "count"
    BY <1>9, <1>11, <2>2
  <2>9. t + k + l <= 1 + h
    BY <2>2, <2>7, <2>8
  <2>10. Of(m).op = "count" \/ (m = id /\ MayAnswer(s, c)') => t + k + l <= h
    BY <2>1, <2>2, <2>7, <2>8
  <2> QED BY <2>3, <2>6, <2>9, <2>10
<1>19. Reaching(s)'
  <2> SUFFICES ASSUME Of(id).op = "pipe", NEW c \in seen.audience[id] \ {s}, Addressed(id, c)
               PROVE  \/ Times(id, c)' > 0
                      \/ <<s, Home[c]>> \in seen.troubled
                      \/ Home[c] \in Range(todo[s]) /\ Home[c] # n
    BY <1>6, <1>14, <1>15 DEF Reaching
  <2>1. c \in Conn
    <3>1. seen.audience \in [Id -> SUBSET Conn]
      BY <1>1, SeenFacts
    <3> QED BY <1>8, <3>1
  <2>2. \/ Times(id, c) > 0
        \/ <<s, Home[c]>> \in seen.troubled
        \/ Home[c] \in Range(todo[s])
    BY <1>1, <1>5, <1>6, <1>8 DEF Progress, Reaching
  <2>3. c \in online \/ <<s, Home[c]>> \in seen.troubled
    BY <1>1, <1>5, <1>6 DEF Progress, Staying
  <2>4. c \in online /\ Home[c] = n => c \in Receivers(n, id)
    BY <1>8 DEF Receivers
  <2>5. PICK t \in Nat, k \in {0, 1} :
          /\ t = Times(id, c) /\ Times(id, c)' = t + k
          /\ k = IF c \in Receivers(n, id) THEN 1 ELSE 0
    BY <1>14, <2>1
  <2> QED BY <2>2, <2>3, <2>4, <2>5
<1>20. Choosing(s)'
  <2> SUFFICES ASSUME Place[s] = Proxy, Of(id).op = "user"
               PROVE  \/ seen.unheard[id] > 0
                      \/ Executors(id)' = {n}
    BY <1>14, <1>15 DEF Choosing
  <2>1. seen.unheard[id] > 0 \/ Executors(id) = {}
    BY <1>1, <1>5, <1>6, <1>8 DEF Progress, Choosing
  <2> QED BY <1>14, <2>1
<1>21. Adding(s)'
  <2>1. PICK r \in Nat : r = Users(n, id) /\ reply'[s] = r
    <3>1. reply'[s] = Users(n, id)
      BY <1>1, <1>7 DEF TypeOK
    <3>2. reply'[s] \in Nat
      BY <1>4 DEF TypeOK
    <3> QED BY <3>1, <3>2
  <2>2. CASE ~Counting(s)
    <3>1. r = 0
      BY <1>6, <1>8, <2>1, <2>2 DEF Users, Counting, Busy
    <3> QED BY <1>1, <1>6, <1>14, <2>1, <2>2, <3>1 DEF Progress, Adding
  <2>3. CASE Counting(s)
    <3>1. PICK A, B, C : /\ A = There(Sure(s), s) /\ C = There(seen.met[s], s)
                         /\ B = {c \in online : Home[c] = n}
      OBVIOUS
    <3>2. r = Cardinality(B)
      BY <1>8, <2>1, <2>3, <3>1 DEF Users, Counting
    <3>3. A \subseteq B
      BY <1>1, <1>5, <1>6, <3>1 DEF Progress, Staying, There, Sure
    <3>4. online \subseteq seen.met[s]
      BY <1>1, <2>3 DEF Progress, Adding
    <3>5. B \subseteq C /\ C \subseteq Conn
      <4>1. seen.met \in [Sender -> SUBSET Conn]
        BY <1>1, SeenFacts
      <4> QED BY <1>5, <3>1, <3>4, <4>1 DEF There
    <3>6. Cardinality(A) <= r /\ r <= Cardinality(C)
      BY <3>2, <3>3, <3>5, ConnSets
    <3>7. /\ Sure(s)' = Sure(s) /\ On(Sure(s), s)' = On(Sure(s), s)
          /\ On(seen.met[s], s)' = On(seen.met[s], s)
          /\ There(Sure(s), s)' = A /\ There(seen.met[s], s)' = C
      BY <1>5, <1>6, <1>14, <3>1 DEF Sure, On, There
    <3>8. /\ Cardinality(On(Sure(s), s)) <= sum[s]
          /\ sum[s] <= Cardinality(On(seen.met[s], s))
      BY <1>1, <2>3 DEF Progress, Adding
    <3> QED BY <1>6, <1>14, <2>1, <2>3, <3>4, <3>6, <3>7, <3>8 DEF Adding
  <2> QED BY <2>2, <2>3
<1> QED BY <1>14, <1>16, <1>17, <1>18, <1>19, <1>20, <1>21 DEF Progress

-----------------------------------------------------------------------------
\* A sender is done with a statement, or at an end with all of them

\* A sender that rests has no node to ask, and nothing is asked of it.
Resting(s) ==
  /\ UNCHANGED <<script, got>>
  /\ todo'[s] = <<>> /\ ~Busy(s)' /\ sum'[s] = 0 /\ reply'[s] = 0
  /\ inflight' \subseteq inflight
  /\ seen'.unheard = seen.unheard /\ seen'.executed = seen.executed
  /\ \A id \in Own(s) : /\ Started(id) => id[2] <= served'[s]
                        /\ id \in queued' => id[2] <= served'[s]

LEMMA RestingKeeps ==
  ASSUME ClusterAssumption, TypeOK, NEW s \in Sender, Progress(s), Resting(s)
  PROVE  /\ Own(s)' = Own(s) /\ \A id : Of(id)' = Of(id) /\ (Direct(id)' <=> Direct(id))
         /\ \A id, c : Times(id, c)' = Times(id, c)
         /\ \A id, c : Addressed(id, c)' <=> Addressed(id, c)
         /\ \A id : Executors(id)' = Executors(id)
         /\ Round(s)' /\ Trace(s)' /\ Blamed(s)' /\ Accounted(s)' /\ InOrder(s)'
         /\ Staying(s)' /\ Reaching(s)' /\ Choosing(s)' /\ Adding(s)' /\ Storing(s)'
<1>1. /\ UNCHANGED <<script, got>>
      /\ todo'[s] = <<>> /\ ~Busy(s)' /\ sum'[s] = 0 /\ reply'[s] = 0
      /\ inflight' \subseteq inflight
      /\ seen'.unheard = seen.unheard /\ seen'.executed = seen.executed
      /\ \A id \in Own(s) : /\ Started(id) => id[2] <= served'[s]
                            /\ id \in queued' => id[2] <= served'[s]
  BY DEF Resting
<1>2. /\ Own(s)' = Own(s) /\ \A id : Of(id)' = Of(id) /\ (Direct(id)' <=> Direct(id))
      /\ \A id, c : Times(id, c)' = Times(id, c)
      /\ \A id, c : Addressed(id, c)' <=> Addressed(id, c)
      /\ \A id : Executors(id)' = Executors(id)
  BY <1>1 DEF Own, Id, Of, Direct, Times, Executors, Addressed, PassedOn
<1>3. Range(<<>>) = {} /\ IsInjective(<<>>)
  BY HeadFacts
<1>4. Round(s)' /\ Blamed(s)' /\ Staying(s)' /\ Reaching(s)' /\ Choosing(s)'
  BY <1>1, <1>3 DEF Round, Blamed, Failed, Staying, Reaching, Choosing
<1>5. Adding(s)'
  BY <1>1 DEF Adding, Counting, Busy
<1>6. Storing(s)'
  <2>1. \A f \in inflight' : f[2] \in Own(s) => ~Direct(f[2])
    BY <1>1 DEF Progress, Storing
  <2> QED BY <1>1, <1>2, <2>1 DEF Storing
<1>7. InOrder(s)'
  <2>1. InOrder(s)
    BY DEF Progress
  <2>2. PICK g, h : g = got /\ g = got' /\ h = seen.unheard /\ h = seen'.unheard
    BY <1>1
  <2> SUFFICES ASSUME NEW c \in Conn, NEW i \in DOMAIN g[c], NEW j \in DOMAIN g[c],
                      i < j, g[c][i][1] = s, g[c][j][1] = s,
                      h[g[c][i]] = 0, h[g[c][j]] = 0
               PROVE  g[c][i][2] < g[c][j][2]
    BY <2>2 DEF InOrder
  <2> QED BY <2>1, <2>2 DEF InOrder
<1>8. \A id \in Own(s) : id[1] = s /\ (Started(id) => Started(id)')
  BY <1>1, CurrentFacts DEF Started
<1>9. Trace(s)'
  <2>1. ASSUME NEW c \in Conn, NEW i \in DOMAIN got[c], got[c][i][1] = s
        PROVE  Started(got[c][i])'
    <3>1. PICK id \in Own(s) : id = got[c][i]
      BY <2>1 DEF TypeOK, Own
    <3>2. Started(got[c][i])
      BY <2>1 DEF Progress, Trace
    <3>3. Started(id)'
      BY <1>8, <3>1, <3>2
    <3> QED BY <1>1, <3>1, <3>3
  <2>2. ASSUME NEW id \in Own(s)
        PROVE  /\ \A f \in inflight' : f[2] = id => Started(id)' /\ seen'.unheard[id] > 0
               /\ \A n \in Node : <<id, n>> \in seen'.executed => Started(id)'
               /\ id \in queued' => id[2] <= served'[s]
    BY <1>1, <1>8 DEF Progress, Trace
  <2> QED BY <1>1, <1>2, <2>1, <2>2 DEF Trace
<1>10. Accounted(s)'
  <2> SUFFICES ASSUME NEW id \in Own(s), NEW c \in Conn
               PROVE  /\ Copies(id, c)' <= 1 + seen.unheard[id]
                      /\ Of(id).op = "count" => Copies(id, c)' <= seen.unheard[id]
    <3>1. \A d \in Conn : ~MayAnswer(s, d)'
      BY <1>1, <1>3 DEF MayAnswer
    <3> QED BY <1>1, <1>2, <3>1 DEF Accounted
  <2>1. PICK L, M : L = Late(id, c) /\ M = Late(id, c)'
    OBVIOUS
  <2>2. IsFiniteSet(L) /\ M \subseteq L
    <3>1. IsFiniteSet(L)
      BY <2>1, LateFinite
    <3>2. M \subseteq L
      BY <1>1, <2>1 DEF Late
    <3> QED BY <3>1, <3>2
  <2>3. Cardinality(L) \in Nat /\ Cardinality(M) \in Nat /\ Cardinality(M) <= Cardinality(L)
    BY <2>2, FS_Subset, FS_CardinalityType
  <2>4. PICK t \in Nat, h \in Nat : t = Times(id, c) /\ h = seen.unheard[id]
    <3>1. seen.unheard \in [Id -> Nat] /\ id \in Id
      BY SeenFacts, CurrentFacts
    <3> QED BY <3>1, TimesNat
  <2>5. Copies(id, c)' = t + Cardinality(M)
    BY <1>2, <2>1, <2>4 DEF Copies
  <2>6. /\ t + Cardinality(L) <= 1 + h
        /\ Of(id).op = "count" => t + Cardinality(L) <= h
    BY <2>1, <2>4 DEF Progress, Accounted, Copies
  <2> QED BY <2>3, <2>4, <2>5, <2>6
<1> QED BY <1>2, <1>4, <1>5, <1>6, <1>7, <1>9, <1>10

\* What the statement has come to is what is promised of it.
LEMMA FinishOwn ==
  ASSUME ClusterAssumption, ClusterInv, NEW s \in Sender,
         NEW stored \in BOOLEAN, Finish(s, stored)
  PROVE  Progress(s)'
<1>0. Finishing(s)
  BY Zenon DEF Finishing
<1>1. TypeOK /\ Progress(s)
  BY DEF ClusterInv
<1>2. PICK id \in Own(s) : id = Current(s) /\ id \in Id
  BY <1>0, FinishCounts
<1>3. /\ Busy(s) /\ todo[s] = <<>> /\ Range(<<>>) = {}
      /\ UNCHANGED <<script, todo, up, online, got, inflight>>
  BY <1>0, FinishCounts, HeadFacts
<1>4. /\ served[s] \in Nat /\ served'[s] = served[s] + 1 /\ step'[s] = "idle"
      /\ sum'[s] = 0 /\ reply'[s] = 0
      /\ stored \/ (Of(id).op = "user" /\ undelivered[s])
      /\ queued' = queued \cup
           IF Of(id).op = "user" /\ undelivered[s] /\ stored THEN {id} ELSE {}
  BY <1>1, <1>2 DEF Finish, ToStore, TypeOK, Statement
<1>5. /\ seen'.audience = seen.audience /\ seen'.unheard = seen.unheard
      /\ seen'.troubled = seen.troubled /\ seen'.executed = seen.executed
      /\ seen'.abandoned = seen.abandoned
      /\ seen'.unstored = seen.unstored \cup IF stored THEN {} ELSE {id}
  <2>1. PICK new \in SUBSET [users : Nat, least : Nat, most : Nat],
             lost \in SUBSET {Current(s)} :
          seen' = [seen EXCEPT !.met[s] = {}, !.unstored = @ \cup lost,
                     !.counts = @ \cup new]
    BY <1>0, FinishCounts
  <2>2. seen'.unstored = seen.unstored \cup IF stored THEN {} ELSE {id}
    BY <1>1, <1>2 DEF Finish, TypeOK, Seen
  <2> QED BY <1>1, <1>2, <2>1, <2>2 DEF TypeOK, Seen
<1>6. \A m \in Own(s) : m \in Id /\ m[1] = s /\ m[2] \in Nat
  BY <1>1, CurrentFacts
<1>7. id[2] = served[s] + 1 /\ id = <<s, served[s] + 1>>
  BY <1>2 DEF Current
<1>8. \A m \in Own(s) : m \in Finished' => m \in Finished \/ m = id
  <2>1. ASSUME NEW m \in Own(s), m \in Finished' PROVE m \in Finished \/ m = id
    <3>1. m \notin seen.abandoned /\ m[2] <= served[s] + 1
      BY <1>4, <1>5, <1>6, <2>1 DEF Finished
    <3>2. m = <<m[1], m[2]>>
      BY <1>1, <1>6, IdFacts
    <3>3. m[2] <= served[s] \/ m[2] = served[s] + 1
      BY <1>4, <1>6, <3>1
    <3> QED BY <1>6, <1>7, <3>1, <3>2, <3>3 DEF Finished
  <2> QED BY <2>1
<1>9. id \notin queued /\ id \notin Finished
  <2>1. id \in queued => id[2] <= served[s]
    BY <1>1 DEF Progress, Trace
  <2>2. ~(id[2] <= served[s])
    BY <1>4, <1>7
  <2>3. id[1] = s
    BY <1>6
  <2> QED BY <2>1, <2>2, <2>3 DEF Finished
<1>10. Resting(s)
  <2>1. ASSUME NEW m \in Own(s)
        PROVE  /\ Started(m) => m[2] <= served'[s]
               /\ m \in queued' => m[2] <= served'[s]
    <3>1. Started(m) => m[2] <= served[s] \/ m[2] = served[s] + 1
      BY <1>2, <1>6, <1>7 DEF Started
    <3>2. m \in queued' => m[2] <= served[s] \/ m[2] = served[s] + 1
      BY <1>1, <1>4, <1>7 DEF Progress, Trace
    <3> QED BY <1>4, <1>6, <3>1, <3>2
  <2> QED BY <1>3, <1>4, <1>5, <2>1 DEF Resting, Busy
<1>11. /\ Own(s)' = Own(s) /\ \A m : Of(m)' = Of(m) /\ (Direct(m)' <=> Direct(m))
       /\ \A m, c : Times(m, c)' = Times(m, c)
       /\ \A m, c : Addressed(m, c)' <=> Addressed(m, c)
       /\ \A m : Executors(m)' = Executors(m)
       /\ Round(s)' /\ Trace(s)' /\ Blamed(s)' /\ Accounted(s)' /\ InOrder(s)'
       /\ Staying(s)' /\ Reaching(s)' /\ Choosing(s)' /\ Adding(s)' /\ Storing(s)'
  BY <1>1, <1>10, RestingKeeps
<1>12. HasReached(s)'
  <2> SUFFICES ASSUME NEW m \in Own(s), m \in Finished \/ m = id, Of(m).op = "pipe",
                      NEW c \in seen.audience[m] \ {s}, Addressed(m, c)
               PROVE  Times(m, c) > 0 \/ <<s, Home[c]>> \in seen.troubled
    BY <1>5, <1>8, <1>11 DEF HasReached
  <2>1. CASE m \in Finished
    BY <1>1, <2>1 DEF Progress, HasReached
  <2>2. CASE m = id
    BY <1>1, <1>2, <1>3, <2>2 DEF Progress, Reaching, Statement
  <2> QED BY <2>1, <2>2
<1>13. HasChosen(s)'
  <2> SUFFICES ASSUME NEW m \in Own(s), m \in Finished \/ m = id, Place[s] = Proxy,
                      Of(m).op = "user", seen.unheard[m] = 0,
                      \E n \in Node : <<s, n>> \notin seen.troubled
               PROVE  \E n \in Node : Executors(m) = {n}
    BY <1>5, <1>8, <1>11 DEF HasChosen
  <2>1. CASE m \in Finished
    BY <1>1, <2>1 DEF Progress, HasChosen
  <2>2. CASE m = id
    <3>1. ~Heard(s)
      BY <1>3 DEF Heard
    <3> QED BY <1>1, <1>2, <1>3, <2>2, <3>1 DEF Progress, Choosing, Statement
  <2> QED BY <2>1, <2>2
<1>14. HasStored(s)'
  <2> SUFFICES ASSUME NEW m \in Own(s), m \in Finished \/ m = id, Direct(m)
               PROVE  /\ Kept(m)' \/ m \in seen'.unstored
                      /\ m \in queued' => Times(m, Of(m).to) = 0
    <3>1. \A m : Times(m, Of(m).to)' = Times(m, Of(m).to)
      BY <1>11
    <3> QED BY <1>8, <1>11, <3>1 DEF HasStored
  <2>1. PICK c : c = Of(m).to
    OBVIOUS
  <2>2. Times(m, Of(m).to)' = Times(m, c)
    BY <1>11, <2>1
  <2>3. CASE m \in Finished
    <3>1. m # id
      BY <1>9, <2>3
    <3>2. /\ Times(m, c) > 0 \/ m \in queued \/ m \in seen.unstored
          /\ m \in queued => Times(m, c) = 0
      BY <1>1, <2>1, <2>3 DEF Progress, HasStored, Kept
    <3> QED BY <1>4, <1>5, <2>1, <2>2, <3>1, <3>2 DEF Kept
  <2>4. CASE m = id
    <3>1. undelivered[s] <=> Times(m, c) = 0
      BY <1>1, <1>2, <1>3, <2>1, <2>4 DEF Progress, Storing, Statement
    <3>2. /\ m \in queued' <=> undelivered[s] /\ stored
          /\ ~stored => m \in seen'.unstored
      BY <1>4, <1>5, <1>9, <2>4 DEF Direct
    <3>3. Times(m, c) \in Nat
      <4>1. c \in Conn
        BY <1>1, <1>6, <2>1, IdFacts DEF Direct, Request, Message
      <4> QED BY <1>1, <4>1, TimesNat
    <3> QED BY <2>1, <2>2, <3>1, <3>2, <3>3 DEF Kept
  <2> QED BY <2>3, <2>4
<1> QED BY <1>11, <1>12, <1>13, <1>14 DEF Progress

\* The process of a sender's node ends: it has no statement left to send.
LEMMA CrashOwn ==
  ASSUME ClusterAssumption, ClusterInv, NEW n \in Node, Crash(n), NEW s \in Sender,
         Place[s] = n
  PROVE  Progress(s)'
<1>1. TypeOK /\ Progress(s) /\ Place[s] # Proxy
  BY DEF ClusterInv, ClusterAssumption
<1>2. /\ UNCHANGED <<script, sum, reply, got, queued>>
      /\ inflight' \subseteq inflight
      /\ seen' = [seen EXCEPT
           !.troubled = @ \cup {t \in Thread : t[2] = n},
           !.abandoned = @ \cup {id \in Id : Place[id[1]] = n /\ id[2] > served[id[1]]}]
  BY <1>1, CrashFacts
<1>3. /\ seen'.audience = seen.audience /\ seen'.unheard = seen.unheard
      /\ seen'.executed = seen.executed /\ seen.troubled \subseteq seen'.troubled
      /\ seen'.unstored = seen.unstored
      /\ seen'.abandoned =
           seen.abandoned \cup {id \in Id : Place[id[1]] = n /\ id[2] > served[id[1]]}
  BY <1>1, <1>2 DEF TypeOK, Seen
<1>4. served'[s] = Len(script[s]) /\ ~Busy(s)' /\ todo'[s] = <<>>
  BY <1>1, CrashSender DEF Busy
<1>5. \A id \in Own(s) : id \in Id /\ id[1] = s /\ id[2] \in Nat /\ id[2] <= Len(script[s])
  BY <1>1, CurrentFacts, IdFacts
<1>6. sum'[s] = 0 /\ reply'[s] = 0
  <2>1. ~Counting(s)
    <3>1. Counting(s) => Current(s) \in Own(s)
      BY <1>1, CurrentFacts DEF Counting, Busy, Progress, Round
    <3>2. ASSUME NEW id \in Own(s), id = Current(s) PROVE Statement(s).op # "count"
      BY <1>1, <1>5, <3>2, IdFacts DEF Statement
    <3> QED BY <3>1, <3>2 DEF Counting
  <2>2. sum[s] = 0 /\ reply[s] = 0
    BY <1>1, <2>1 DEF Progress, Adding
  <2> QED BY <1>2, <2>2
<1>7. Resting(s)
  BY <1>2, <1>3, <1>4, <1>5, <1>6 DEF Resting
<1>8. /\ Own(s)' = Own(s) /\ \A m : Of(m)' = Of(m) /\ (Direct(m)' <=> Direct(m))
      /\ \A m, c : Times(m, c)' = Times(m, c)
      /\ \A m, c : Addressed(m, c)' <=> Addressed(m, c)
      /\ Round(s)' /\ Trace(s)' /\ Blamed(s)' /\ Accounted(s)' /\ InOrder(s)'
      /\ Staying(s)' /\ Reaching(s)' /\ Choosing(s)' /\ Adding(s)' /\ Storing(s)'
  BY <1>1, <1>7, RestingKeeps
<1>9. \A id \in Own(s) : id \in Finished' => id \in Finished
  <2>1. ASSUME NEW id \in Own(s), id \in Finished' PROVE id \in Finished
    <3>1. id \notin seen.abandoned /\ ~(id[2] > served[s])
      BY <1>1, <1>3, <1>5, <2>1 DEF Finished
    <3>2. served[s] \in Nat
      BY <1>1 DEF TypeOK
    <3> QED BY <1>5, <3>1, <3>2 DEF Finished
  <2> QED BY <2>1
<1>10. HasReached(s)'
  BY <1>1, <1>3, <1>8, <1>9 DEF Progress, HasReached
<1>11. HasChosen(s)'
  BY <1>1 DEF HasChosen
<1>12. HasStored(s)'
  <2> SUFFICES ASSUME NEW m \in Own(s), m \in Finished, Direct(m)
               PROVE  /\ Kept(m)' \/ m \in seen'.unstored
                      /\ m \in queued => Times(m, Of(m).to) = 0
    <3>1. \A d : Times(d, Of(d).to)' = Times(d, Of(d).to)
      BY <1>8
    <3> QED BY <1>2, <1>8, <1>9, <3>1 DEF HasStored
  <2>1. /\ Kept(m) \/ m \in seen'.unstored
        /\ m \in queued => Times(m, Of(m).to) = 0
    BY <1>1, <1>3 DEF Progress, HasStored
  <2>2. Times(m, Of(m).to)' = Times(m, Of(m).to)
    BY <1>8
  <2> QED BY <1>2, <2>1, <2>2 DEF Kept
<1> QED BY <1>8, <1>10, <1>11, <1>12 DEF Progress

\* A statement carried out at last is a copy that was owed already.
LEMMA LateOwn ==
  ASSUME ClusterAssumption, ClusterInv, NEW n \in Node, NEW id \in Id, NEW k \in 1..MaxFaults,
         <<n, id, k>> \in inflight, inflight' = inflight \ {<<n, id, k>>}, Run(n, id),
         UNCHANGED <<work, up, online, queued, faults, linkVars>>,
         NEW s \in Sender, id[1] = s
  PROVE  Progress(s)'
<1>1. TypeOK /\ Progress(s)
  BY DEF ClusterInv
<1>2. TypeOK'
  BY LateTypes
<1>3. UNCHANGED <<script, served, step, todo, sum, reply, undelivered, online, queued,
                  stage, result>>
  BY DEF work, linkVars
<1>4. id \in Own(s)
  BY DEF Own
<1>5. PICK f \in inflight : f[1] = n /\ f[2] = id /\ f[3] = k
  OBVIOUS
<1>6. Started(id) /\ seen.unheard[id] > 0 /\ ~Direct(id)
  <2>1. Started(id) /\ seen.unheard[id] > 0
    BY <1>1, <1>4, <1>5 DEF Progress, Trace
  <2>2. ~Direct(f[2])
    BY <1>1, <1>4, <1>5 DEF Progress, Storing
  <2> QED BY <1>5, <2>1, <2>2
<1>7. /\ Own(s)' = Own(s) /\ Current(s)' = Current(s) /\ Statement(s)' = Statement(s)
      /\ \A m : Of(m)' = Of(m)
      /\ \A m, c : Addressed(m, c)' <=> Addressed(m, c)
      /\ (Busy(s)' <=> Busy(s)) /\ (Counting(s)' <=> Counting(s))
      /\ \A c \in Conn : \A m : Times(m, c) \in Nat /\
           Times(m, c)' = Times(m, c) + IF m = id /\ c \in Receivers(n, id) THEN 1 ELSE 0
      /\ \A m : m # id => Executors(m)' = Executors(m)
      /\ UNCHANGED <<seen.audience, seen.met, seen.unheard, seen.troubled>>
      /\ Trace(s)' /\ InOrder(s)' /\ Staying(s)' /\ Storing(s)'
      /\ HasReached(s)' /\ HasChosen(s)' /\ HasStored(s)'
  BY <1>1, <1>2, <1>3, <1>4, <1>6, RunKeeps
<1>8. /\ todo[s] # <<>> => Link(s)' = Link(s)
      /\ (Heard(s)' <=> Heard(s)) /\ (Failed(s)' <=> Failed(s))
      /\ (Understood(s)' <=> Understood(s))
      /\ \A c : MayAnswer(s, c)' <=> MayAnswer(s, c)
  BY <1>3, <1>7 DEF Link, Heard, Failed, Understood, MayAnswer
<1>9. Round(s)'
  BY <1>1, <1>3, <1>7 DEF Progress, Round
<1>10. Blamed(s)'
  BY <1>1, <1>3, <1>7, <1>8 DEF Progress, Blamed, Failed
<1>11. Reaching(s)'
  <2>0. \A c : Addressed(Current(s), c)' <=> Addressed(Current(s), c)
    BY <1>3 DEF Addressed, PassedOn, Of, Current
  <2> SUFFICES ASSUME Busy(s), Statement(s).op = "pipe",
                      NEW c \in seen.audience[Current(s)] \ {s}, Addressed(Current(s), c)
               PROVE  \/ Times(Current(s), c)' > 0
                      \/ <<s, Home[c]>> \in seen.troubled
                      \/ /\ Home[c] \in Range(todo[s])
                         /\ ~(Home[c] = Head(todo[s]) /\ stage[Link(s)] = "done")
    BY <1>3, <1>7, <2>0 DEF Reaching, Link
  <2>1. PICK m \in Own(s) : m = Current(s) /\ m \in Id
    BY <1>1, CurrentFacts DEF Progress, Round
  <2>2. c \in Conn
    <3>1. seen.audience \in [Id -> SUBSET Conn]
      BY <1>1, SeenFacts
    <3> QED BY <2>1, <3>1
  <2>3. Times(m, c) > 0 => Times(m, c)' > 0
    <3>1. PICK j \in {0, 1} : j = IF m = id /\ c \in Receivers(n, id) THEN 1 ELSE 0
      OBVIOUS
    <3>2. PICK t \in Nat : t = Times(m, c)
      BY <1>7, <2>2
    <3>3. Times(m, c)' = t + j
      BY <1>7, <2>2, <3>1, <3>2
    <3> QED BY <3>2, <3>3
  <2>4. Times(Current(s), c)' = Times(m, c)'
    BY <1>7, <2>1
  <2> QED BY <1>1, <2>1, <2>3, <2>4 DEF Progress, Reaching
<1>12. Choosing(s)'
  <2> SUFFICES ASSUME Busy(s), Place[s] = Proxy, Statement(s).op = "user"
               PROVE  Choosing(s)'
    BY <1>7 DEF Choosing
  <2>1. PICK m \in Own(s) : m = Current(s) /\ m = Current(s)'
    BY <1>1, <1>7, CurrentFacts DEF Progress, Round
  <2>2. CASE m = id
    BY <1>6, <1>7, <2>1, <2>2 DEF Choosing
  <2>3. CASE m # id
    <3>1. Executors(m)' = Executors(m)
      BY <1>7, <2>3
    <3> QED BY <1>1, <1>3, <1>7, <1>8, <2>1, <3>1 DEF Progress, Choosing
  <2> QED BY <2>2, <2>3
<1>13. Adding(s)'
  <2>1. /\ Sure(s)' = Sure(s) /\ On(Sure(s), s)' = On(Sure(s), s)
        /\ On(seen.met[s], s)' = On(seen.met[s], s)
        /\ There(Sure(s), s)' = There(Sure(s), s)
        /\ There(seen.met[s], s)' = There(seen.met[s], s)
    BY <1>3, <1>7 DEF Sure, On, There
  <2> QED BY <1>1, <1>3, <1>7, <1>8, <2>1 DEF Progress, Adding
<1>14. Accounted(s)'
  <2> SUFFICES ASSUME NEW m \in Own(s), NEW c \in Conn
               PROVE  Copies(m, c)' \in Nat /\ Copies(m, c)' <= Copies(m, c)
                      /\ Copies(m, c) \in Nat
    <3>1. seen.unheard \in [Id -> Nat] /\ \A d \in Own(s) : d \in Id
      BY <1>1, SeenFacts, CurrentFacts
    <3>2. Accounted(s)
      BY <1>1 DEF Progress
    <3> QED BY <1>7, <1>8, <3>1, <3>2 DEF Accounted
  <2>1. PICK L, M : L = Late(m, c) /\ M = Late(m, c)'
    OBVIOUS
  <2>2. PICK t \in Nat : t = Times(m, c)
    BY <1>7
  <2>3. IsFiniteSet(L) /\ Cardinality(L) \in Nat
    BY <2>1, LateFinite
  <2>4. CASE m = id /\ c \in Receivers(n, id)
    <3>1. Home[c] = n
      BY <2>4 DEF Receivers
    <3>2. k \in L /\ M = L \ {k}
      BY <2>1, <2>4, <3>1 DEF Late
    <3>3. Cardinality(M) = Cardinality(L) - 1 /\ Cardinality(M) \in Nat
      <4>1. Cardinality(L \ {k}) = Cardinality(L) - 1 /\ IsFiniteSet(L \ {k})
        BY <2>3, <3>2, FS_RemoveElement
      <4>2. Cardinality(L \ {k}) \in Nat
        BY <4>1, FS_CardinalityType
      <4> QED BY <3>2, <4>1, <4>2
    <3>4. Times(m, c)' = t + 1
      BY <1>7, <2>2, <2>4
    <3> QED BY <2>1, <2>2, <2>3, <3>3, <3>4 DEF Copies
  <2>5. CASE ~(m = id /\ c \in Receivers(n, id))
    <3>1. M \subseteq L
      BY <2>1 DEF Late
    <3>2. Cardinality(M) \in Nat /\ Cardinality(M) <= Cardinality(L)
      BY <2>3, <3>1, FS_Subset, FS_CardinalityType
    <3>3. Times(m, c)' = t
      BY <1>7, <2>2, <2>5
    <3> QED BY <2>1, <2>2, <2>3, <3>2, <3>3 DEF Copies
  <2> QED BY <2>4, <2>5
<1> QED BY <1>7, <1>9, <1>10, <1>11, <1>12, <1>13, <1>14 DEF Progress

-----------------------------------------------------------------------------
\* Each step keeps what holds of every sender

\* What is done to the sender that takes it, and what to the others.
LEMMA OneSender ==
  ASSUME ClusterAssumption, ClusterInv, TypeOK', Calls', CountIsTrue',
         \A u \in Sender : Progress(u)' \/ Apart(u)
  PROVE  ClusterInv'
<1>1. TypeOK /\ \A u \in Sender : Progress(u)
  BY DEF ClusterInv
<1>2. ASSUME NEW u \in Sender, Apart(u) PROVE Progress(u)'
  BY <1>1, <1>2, ApartKeeps
<1> QED BY <1>2 DEF ClusterInv

\* Only the end of a select adds to what was counted.
LEMMA CountsKept ==
  ASSUME ClusterInv, seen'.counts = seen.counts
  PROVE  CountIsTrue'
BY DEF ClusterInv, CountIsTrue

LEMMA SenderKeeps ==
  ASSUME ClusterAssumption, ClusterInv, NEW s \in Sender, SenderStep(s)
  PROVE  ClusterInv'
<1>1. TypeOK /\ seen \in Seen
  BY DEF ClusterInv, TypeOK
<1>2. CASE Route(s) \/ SendHere(s)
  <2>1. TypeOK' /\ Calls'
    BY <1>2, RouteTypes, SendHereTypes
  <2>2. Begun(s)
    BY <1>2 DEF Route, SendHere, Go
  <2>3. seen'.counts = seen.counts
    BY <1>1, <2>2 DEF Begun, Seen
  <2>4. \A u \in Sender : u # s => Apart(u)
    BY <1>2, RouteApart, SendHereApart
  <2>5. Progress(s)'
    BY <1>2, RouteOwn, SendHereOwn
  <2> QED BY <2>1, <2>3, <2>4, <2>5, CountsKept, OneSender
<1>3. CASE Ask(s) \/ \E ok \in BOOLEAN : Relink(s, ok)
  <2>1. TypeOK' /\ Calls'
    BY <1>3, AskTypes, RelinkTypes
  <2>2. seen'.counts = seen.counts
    BY <1>1, <1>3 DEF Ask, Relink, Seen
  <2>3. \A u \in Sender : u # s => Apart(u)
    BY <1>3, AskApart
  <2>4. Progress(s)'
    BY <1>3, AskOwn
  <2> QED BY <2>1, <2>2, <2>3, <2>4, CountsKept, OneSender
<1>4. ASSUME NEW o, Attempted(s, o) PROVE ClusterInv'
  <2>1. TypeOK' /\ Calls'
    BY <1>4, AttemptTypes
  <2>2. \A u \in Sender : u # s => Apart(u)
    BY <1>4, AttemptApart
  <2>3. o = "ok" \/ o \in {"refused", "lost", "unanswered"}
    BY <1>4, AttemptFacts
  <2>4. CASE o = "ok"
    <3>1. Attempted(s, "ok")
      BY <1>4, <2>4
    <3>2. Progress(s)'
      BY <3>1, AnswerOwn
    <3>3. PICK e : seen' = [seen EXCEPT !.executed = @ \cup e]
      BY <3>1, AnswerFacts
    <3>4. seen'.counts = seen.counts
      BY <1>1, <3>3 DEF Seen
    <3> QED BY <2>1, <2>2, <3>2, <3>4, CountsKept, OneSender
  <2>5. CASE o \in {"refused", "lost", "unanswered"}
    <3>1. Progress(s)'
      BY <1>4, <2>5, NoAnswerOwn
    <3>2. seen' = [seen EXCEPT
                     !.troubled = @ \cup IF o = "refused" THEN {} ELSE {Link(s)},
                     !.unheard[Current(s)] = @ + IF o = "unanswered" THEN 1 ELSE 0]
      BY <1>4, <2>5, NoAnswerFacts, ZenonT(30)
    <3>3. seen'.counts = seen.counts
      BY <1>1, <3>2 DEF Seen
    <3> QED BY <2>1, <2>2, <3>1, <3>3, CountsKept, OneSender
  <2> QED BY <2>3, <2>4, <2>5
<1>5. CASE AskNext(s) \/ AskAgain(s) \/ AskAnother(s)
  <2>1. TypeOK' /\ Calls'
    BY <1>5, AskNextTypes, AskAgainTypes, AskAnotherTypes
  <2>2. seen'.counts = seen.counts
    BY <1>1, <1>5 DEF AskNext, AskAgain, AskAnother, Seen
  <2>3. \A u \in Sender : u # s => Apart(u)
    BY <1>5, AskedApart
  <2>4. Progress(s)'
    BY <1>5, AskNextOwn, AskAgainOwn, AskAnotherOwn
  <2> QED BY <2>1, <2>2, <2>3, <2>4, CountsKept, OneSender
<1>6. ASSUME NEW stored \in BOOLEAN, Finish(s, stored) PROVE ClusterInv'
  <2>1. TypeOK' /\ Calls' /\ CountIsTrue'
    BY <1>6, FinishTypes
  <2>2. \A u \in Sender : u # s => Apart(u)
    BY <1>6, FinishApart
  <2>3. Progress(s)'
    BY <1>6, FinishOwn
  <2> QED BY <2>1, <2>2, <2>3, OneSender
<1> QED BY <1>2, <1>3, <1>4, <1>5, <1>6 DEF SenderStep

LEMMA LateKeeps ==
  ASSUME ClusterAssumption, ClusterInv, NEW n \in Node, RunLate(n)
  PROVE  ClusterInv'
<1>1. PICK id \in Id, k \in 1..MaxFaults :
        /\ <<n, id, k>> \in inflight /\ inflight' = inflight \ {<<n, id, k>>}
        /\ Run(n, id) /\ UNCHANGED <<work, up, online, queued, faults, linkVars>>
  BY DEF RunLate
<1>2. TypeOK' /\ Calls' /\ CountIsTrue'
  BY <1>1, LateTypes
<1>3. \A u \in Sender : u # id[1] => Apart(u)
  BY <1>1, LateApart
<1>4. \A u \in Sender : u = id[1] => Progress(u)'
  BY <1>1, LateOwn
<1> QED BY <1>2, <1>3, <1>4, OneSender

LEMMA CrashKeeps ==
  ASSUME ClusterAssumption, ClusterInv, NEW n \in Node, Crash(n)
  PROVE  ClusterInv'
<1>1. TypeOK' /\ Calls' /\ CountIsTrue'
  BY CrashTypes
<1>2. \A u \in Sender : Place[u] # n => Apart(u)
  BY CrashApart
<1>3. \A u \in Sender : Place[u] = n => Progress(u)'
  BY CrashOwn
<1> QED BY <1>1, <1>2, <1>3, OneSender

LEMMA RestartKeeps ==
  ASSUME ClusterAssumption, ClusterInv, NEW n \in Node, Restart(n)
  PROVE  ClusterInv'
<1>1. TypeOK' /\ Calls' /\ CountIsTrue'
  BY RestartTypes
<1>2. \A u \in Sender : Apart(u)
  BY RestartApart
<1> QED BY <1>1, <1>2, OneSender

LEMMA JoinKeeps ==
  ASSUME ClusterAssumption, ClusterInv, NEW c \in Conn, Join(c)
  PROVE  ClusterInv'
<1>1. TypeOK' /\ Calls' /\ CountIsTrue'
  BY JoinTypes
<1>2. \A u \in Sender : Apart(u)
  BY JoinApart
<1> QED BY <1>1, <1>2, OneSender

LEMMA NothingKeeps ==
  ASSUME ClusterAssumption, ClusterInv, UNCHANGED vars
  PROVE  ClusterInv'
<1>1. /\ UNCHANGED <<script, served, step, todo, sum, reply, undelivered, up, online, got,
                     queued, inflight, faults, seen>>
      /\ UNCHANGED linkVars /\ UNCHANGED <<stage, kind, usable, applied, unheard, result>>
  BY DEF vars, work, nodes, linkVars
<1>2. TypeOK /\ Calls /\ CountIsTrue
  BY DEF ClusterInv
<1>3. Id' = Id /\ Seen' = Seen
  BY <1>1, IdKept
<1>4. LinkTypeOK'
  BY <1>1, <1>2 DEF TypeOK, LinkTypeOK
<1>5. TypeOK'
  BY <1>1, <1>2, <1>3, <1>4 DEF TypeOK
<1>6. Calls' /\ CountIsTrue'
  BY <1>1, <1>2 DEF Calls, CountIsTrue
<1>7. ASSUME NEW u \in Sender PROVE Apart(u)
  BY <1>1 DEF Apart, Times
<1> QED BY <1>5, <1>6, <1>7, OneSender

\* Whatever happens, all of it holds.
LEMMA ClusterStep ==
  ASSUME ClusterAssumption, ClusterInv, [Next]_vars
  PROVE  ClusterInv'
BY SenderKeeps, LateKeeps, CrashKeeps, RestartKeeps, JoinKeeps, NothingKeeps DEF Next

LEMMA ClusterHolds ==
  ASSUME ClusterAssumption
  PROVE  Spec => []ClusterInv
<1>1. Init => ClusterInv
  BY InitCluster
<1>2. ClusterInv /\ [Next]_vars => ClusterInv'
  BY ClusterStep
<1> QED BY <1>1, <1>2, PTL DEF Spec

-----------------------------------------------------------------------------
\* What is promised

\* The variables of the nodes, senders and links have their types: a sender
\* that asks a node is at a statement, asks the first of its list and never its
\* own node, and only nodes that run have connections and statements to carry out.
THEOREM ClusterTypes == Spec => []TypeOK
<1>1. ClusterInv => TypeOK
  BY DEF ClusterInv
<1> QED BY <1>1, ClusterAssumption, ClusterHolds, PTL

\* Whoever was online when a channel message was sent has it once it is finished,
\* if he is on the sender's node, or the message is passed on to the others (by the
\* proxy, or by a node for the JS API if the statement is not cut) and the sender
\* had no trouble with his, whatever becomes of the rest (proxy_insert with
\* PROXY_TO_ALL, web_pipe_msg_v2).
THEOREM AllAreReached == Spec => []Reached
<1>1. ASSUME ClusterInv PROVE Reached
  <2> SUFFICES ASSUME NEW id \in Finished, Of(id).op = "pipe",
                      NEW c \in seen.audience[id] \ {id[1]}, Addressed(id, c)
               PROVE  Times(id, c) > 0 \/ <<id[1], Home[c]>> \in seen.troubled
    BY DEF Reached
  <2>1. id[1] \in Sender /\ id \in Own(id[1]) /\ HasReached(id[1])
    BY <1>1, ClusterAssumption, IdFacts DEF ClusterInv, Progress, Finished
  <2> QED BY <2>1 DEF HasReached
<1> QED BY <1>1, ClusterAssumption, ClusterHolds, PTL

\* A client is shown a message once more only for each answer that was lost, and
\* those of a sender whose answers were not lost in the order they were sent in
\* (dbLink::query, the loops over the nodes).
THEOREM ShownAsSent == Spec => []AsSent
<1>1. ASSUME ClusterInv PROVE AgainOnlyIfUnheard
  <2> SUFFICES ASSUME NEW id \in Id, NEW c \in Conn
               PROVE  Times(id, c) <= 1 + seen.unheard[id]
    BY DEF AgainOnlyIfUnheard
  <2>1. id[1] \in Sender /\ id \in Own(id[1]) /\ Accounted(id[1])
    BY <1>1, ClusterAssumption, IdFacts DEF ClusterInv, Progress
  <2>2. PICK t \in Nat, l \in Nat, h \in Nat :
          t = Times(id, c) /\ l = Cardinality(Late(id, c)) /\ h = seen.unheard[id]
    <3>1. seen.unheard \in [Id -> Nat]
      BY <1>1, ClusterAssumption, SeenFacts DEF ClusterInv
    <3> QED BY <1>1, <3>1, ClusterAssumption, TimesNat, LateFinite DEF ClusterInv
  <2>3. t + l <= 1 + h
    BY <2>1, <2>2 DEF Accounted, Copies
  <2> QED BY <2>2, <2>3
<1>2. ASSUME ClusterInv PROVE SentInOrder
  <2> SUFFICES ASSUME NEW c \in Conn, NEW i \in DOMAIN got[c], NEW j \in DOMAIN got[c],
                      i < j, got[c][i][1] = got[c][j][1],
                      seen.unheard[got[c][i]] = 0, seen.unheard[got[c][j]] = 0
               PROVE  got[c][i][2] < got[c][j][2]
    BY DEF SentInOrder
  <2>1. PICK s \in Sender : s = got[c][i][1]
    <3>1. got[c][i] \in Id
      BY <1>2 DEF ClusterInv, TypeOK
    <3> QED BY <1>2, <3>1, ClusterAssumption, IdFacts DEF ClusterInv
  <2>2. InOrder(s)
    BY <1>2 DEF ClusterInv, Progress
  <2> QED BY <2>1, <2>2 DEF InOrder
<1>3. ClusterInv => AsSent
  BY <1>1, <1>2 DEF AsSent
<1> QED BY <1>3, ClusterAssumption, ClusterHolds, PTL

\* One node alone carries out what the proxy passes on for one user, unless an
\* answer was lost or every node was in trouble (proxy_insert with PROXY_TO_RANDOM).
THEOREM OneNodeAlone == Spec => []OneNode
<1>1. ASSUME ClusterInv PROVE OneNode
  <2> SUFFICES ASSUME NEW id \in Finished, Place[id[1]] = Proxy, Of(id).op = "user",
                      seen.unheard[id] = 0, \E n \in Node : <<id[1], n>> \notin seen.troubled
               PROVE  \E n \in Node : {m \in Node : <<id, m>> \in seen.executed} = {n}
    BY DEF OneNode
  <2>1. id[1] \in Sender /\ id \in Own(id[1]) /\ HasChosen(id[1])
    BY <1>1, ClusterAssumption, IdFacts DEF ClusterInv, Progress, Finished
  <2>2. \E n \in Node : Executors(id) = {n}
    BY <2>1 DEF HasChosen
  <2> QED BY <2>2 DEF Executors
<1> QED BY <1>1, ClusterAssumption, ClusterHolds, PTL

\* The number of users reported for a channel is that of everybody on the nodes
\* there was no trouble with, and nobody twice (sql_select_from_pipes).
THEOREM UsersAreCounted == Spec => []CountIsTrue
<1>1. ClusterInv => CountIsTrue
  BY DEF ClusterInv
<1> QED BY <1>1, ClusterAssumption, ClusterHolds, PTL

\* What is sent to a user on a node of the cluster is delivered, or stored, or its
\* insert has failed; it is never both delivered and stored (cluster_send_to_user).
THEOREM DirectAreKept == Spec => []DirectKept
<1>1. ASSUME ClusterInv PROVE DirectKept
  <2> SUFFICES ASSUME NEW id \in Finished, Of(id).op = "user", Place[id[1]] # Proxy
               PROVE  /\ Kept(id) \/ id \in seen.unstored
                      /\ id \in queued => Times(id, Of(id).to) = 0
    BY DEF DirectKept
  <2>1. id[1] \in Sender /\ id \in Own(id[1]) /\ HasStored(id[1])
    BY <1>1, ClusterAssumption, IdFacts DEF ClusterInv, Progress, Finished
  <2> QED BY <2>1 DEF HasStored, Direct
<1> QED BY <1>1, ClusterAssumption, ClusterHolds, PTL
=============================================================================
