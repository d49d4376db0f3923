---------------------------- MODULE PipesProofs ----------------------------
(***************************************************************************)
(* Proofs about Pipes, in layers: each invariant rests on the ones before. *)
(*   BaseInv  types, the shape of the lists, what each thread is at;       *)
(*   ConnInv  sockets, and the channels that connections remember;         *)
(*   ListInv  whom the lists name;                                         *)
(*   WalkInv  a sender does not come to the same connection again;         *)
(*   DueInv   a sender comes to everybody who is subscribed.               *)
(* The first holds on every instance, the next three when each connection  *)
(* is closed by its own thread and no request names a channel twice, the   *)
(* last when in addition no descriptor is used again.                      *)
(***************************************************************************)
EXTENDS Pipes, FiniteSetTheorems, SequenceTheorems, WellFoundedInduction,
        TLAPS

\* Following the pointers n ends: from every set of items some pointer leads out
\* of the set. The proofs about chains take the items for which a claim is wrong
\* as the set, and so need no induction.
Ends(n) == \A S \in SUBSET Item : S # {} => \E i \in S : n[i] \notin S

\* The pointers from item to item.
Links == [Item -> Item \cup {Nil}]

\* The pointers lead out of S only to the end.
ClosedUnder(S, n) == \A i \in S : n[i] \in S \cup {Nil}

\* The recursive function of Chain has a value, and the value is as defined.
LEMMA ChainEquation ==
  ASSUME NEW n \in Links, NEW i \in Item \cup {Nil}
  PROVE  Chain(i, n) = IF i = Nil THEN {} ELSE {i} \cup Chain(n[i], n)
<1> DEFINE Step1(f) == [j \in Item \cup {Nil} |-> IF j = Nil THEN {} ELSE {j} \cup f[n[j]]]
           g == CHOOSE f : f = Step1(f)
           Reach(j) == {k \in Item : \A S \in SUBSET Item : j \in S /\ ClosedUnder(S, n) => k \in S}
           w == [j \in Item \cup {Nil} |-> IF j = Nil THEN {} ELSE Reach(j)]
<1>1. w = Step1(w)
  <2>1. ASSUME NEW j \in Item PROVE Reach(j) = {j} \cup w[n[j]]
    <3>1. n[j] \in Item \cup {Nil}
      BY DEF Links
    <3>2. ASSUME NEW k \in Reach(j), k # j PROVE k \in w[n[j]]
      <4>1. CASE n[j] = Nil
        <5>1. ClosedUnder({j}, n)
          BY <4>1 DEF ClosedUnder
        <5> QED BY <5>1, <3>2
      <4>2. CASE n[j] \in Item
        <5>1. ASSUME NEW S \in SUBSET Item, n[j] \in S, ClosedUnder(S, n) PROVE k \in S
          <6>1. ClosedUnder(S \cup {j}, n)
            BY <5>1 DEF ClosedUnder
          <6> QED BY <6>1, <3>2
        <5>2. n[j] # Nil
          BY <4>2 DEF Item, Nil
        <5> QED BY <5>1, <5>2, <4>2
      <4> QED BY <3>1, <4>1, <4>2
    <3>3. ASSUME NEW k \in w[n[j]] PROVE k \in Reach(j)
      <4>1. n[j] # Nil /\ n[j] \in Item
        BY <3>3, <3>1
      <4>2. k \in Reach(n[j])
        BY <3>3, <4>1
      <4>3. ASSUME NEW S \in SUBSET Item, j \in S, ClosedUnder(S, n) PROVE k \in S
        <5>1. n[j] \in S
          BY <4>3, <4>1 DEF ClosedUnder
        <5> QED BY <5>1, <4>2, <4>3
      <4> QED BY <4>2, <4>3
    <3> QED BY <3>2, <3>3
  <2>2. ASSUME NEW j \in Item \cup {Nil}
        PROVE  w[j] = IF j = Nil THEN {} ELSE {j} \cup w[n[j]]
    <3>1. CASE j = Nil
      BY <3>1
    <3>2. CASE j # Nil
      BY <3>2, <2>1
    <3> QED BY <3>1, <3>2
  <2> HIDE DEF Reach
  <2> QED BY <2>2
<1> HIDE DEF w
<1>2. g = Step1(g)
  BY <1>1
<1>3. Chain(i, n) = g[i]
  BY DEF Chain
<1>4. i # Nil => Chain(n[i], n) = g[n[i]]
  BY DEF Chain
<1> HIDE DEF g
<1> QED BY <1>2, <1>3, <1>4

\* The end of a list is not an item.
LEMMA NilIsNoItem == Nil \notin Item
BY DEF Nil, Item

\* A closed set has the chains of its items.
LEMMA ChainLeast ==
  ASSUME NEW n \in Links, Ends(n), NEW S \in SUBSET Item, ClosedUnder(S, n),
         NEW i \in S \cup {Nil}
  PROVE  Chain(i, n) \subseteq S
<1> DEFINE Bad == {j \in S : ~(Chain(j, n) \subseteq S)}
<1>1. SUFFICES ASSUME Bad # {} PROVE FALSE
  BY ChainEquation
<1>2. PICK j \in Bad : n[j] \notin Bad
  BY <1>1 DEF Ends
<1>3. n[j] \in S \cup {Nil}
  BY DEF ClosedUnder
<1>4. Chain(n[j], n) \subseteq S
  BY <1>2, <1>3, ChainEquation
<1> QED BY <1>2, <1>4, ChainEquation

\* A chain consists of items.
LEMMA ChainOfItems ==
  ASSUME NEW n \in Links, Ends(n), NEW i \in Item \cup {Nil}
  PROVE  Chain(i, n) \subseteq Item
<1>1. ClosedUnder(Item, n)
  BY DEF ClosedUnder, Links
<1> QED BY <1>1, ChainLeast

\* A chain goes on to the end.
LEMMA ChainClosed ==
  ASSUME NEW n \in Links, Ends(n), NEW i \in Item \cup {Nil}
  PROVE  ClosedUnder(Chain(i, n), n)
<1> DEFINE Bad == {j \in Item : ~ClosedUnder(Chain(j, n), n)}
<1>1. ClosedUnder(Chain(Nil, n), n)
  BY ChainEquation DEF ClosedUnder
<1>2. SUFFICES ASSUME Bad # {} PROVE FALSE
  BY <1>1
<1>3. PICK j \in Bad : n[j] \notin Bad
  BY <1>2 DEF Ends
<1>4. n[j] \in Item \cup {Nil}
  BY DEF Links
<1>5. ClosedUnder(Chain(n[j], n), n)
  BY <1>1, <1>3, <1>4
<1>6. Chain(j, n) = {j} \cup Chain(n[j], n)
  BY ChainEquation, NilIsNoItem
<1>7. n[j] \in Chain(n[j], n) \cup {Nil}
  BY <1>4, ChainEquation
<1>8. ClosedUnder(Chain(j, n), n)
  BY <1>5, <1>6, <1>7 DEF ClosedUnder
<1> QED BY <1>3, <1>8

\* What follows an item of a chain is in the chain.
LEMMA ChainOnward ==
  ASSUME NEW n \in Links, Ends(n), NEW i \in Item \cup {Nil}, NEW k \in Chain(i, n)
  PROVE  Chain(k, n) \subseteq Chain(i, n)
BY ChainClosed, ChainOfItems, ChainLeast

\* An item does not follow itself.
LEMMA ChainNeverReturns ==
  ASSUME NEW n \in Links, Ends(n), NEW i \in Item
  PROVE  i \notin Chain(n[i], n)
<1> DEFINE Bad == {j \in Item : j \in Chain(n[j], n)}
<1>1. SUFFICES ASSUME Bad # {} PROVE FALSE
  OBVIOUS
<1>2. PICK j \in Bad : n[j] \notin Bad
  BY <1>1 DEF Ends
<1>3. n[j] \in Item
  BY ChainEquation DEF Links
<1>4. Chain(n[j], n) = {n[j]} \cup Chain(n[n[j]], n)
  BY <1>3, ChainEquation, NilIsNoItem
<1>5. ClosedUnder(Chain(n[n[j]], n), n)
  BY <1>3, ChainClosed DEF Links
<1> QED BY <1>2, <1>3, <1>4, <1>5, NilIsNoItem DEF ClosedUnder

\* A chain depends only on the pointers of its items.
LEMMA ChainAgree ==
  ASSUME NEW n \in Links, Ends(n), NEW m \in Links, Ends(m), NEW i \in Item \cup {Nil},
         \A k \in Chain(i, n) : m[k] = n[k]
  PROVE  Chain(i, m) = Chain(i, n)
<1>1. CASE i = Nil
  BY <1>1, ChainEquation
<1>2. CASE i \in Item
  <2>1. i \in Chain(i, n) /\ i \in Chain(i, m)
    BY <1>2, ChainEquation, NilIsNoItem
  <2>2. ClosedUnder(Chain(i, n), n) /\ ClosedUnder(Chain(i, m), m)
    BY ChainClosed
  <2>3. Chain(i, m) \subseteq Chain(i, n)
    BY <2>1, <2>2, ChainLeast, ChainOfItems DEF ClosedUnder
  <2>4. ClosedUnder(Chain(i, m) \cap Chain(i, n), n)
    BY <2>2, <2>3 DEF ClosedUnder
  <2>5. Chain(i, n) \subseteq Chain(i, m) \cap Chain(i, n)
    BY <2>1, <2>4, ChainLeast, ChainOfItems
  <2> QED BY <2>3, <2>5
<1> QED BY <1>1, <1>2

\* The first items of the lists, and the items that threads hold.
Firsts == [Pipe -> Item \cup {Nil}]
Holds == [Thread -> Item \cup {Nil}]

\* What is live is on a list or ahead of a thread.
LEMMA LiveMembers ==
  ASSUME NEW n, NEW f, NEW held, NEW k
  PROVE  k \in Live(f, n, held) <=> \/ \E p \in Pipe : k \in Chain(f[p], n)
                                    \/ \E t \in Thread : k \in Chain(held[t], n)
<1> DEFINE A == UNION {Chain(f[p], n) : p \in Pipe}
           B == UNION {Chain(held[t], n) : t \in Thread}
<1>1. k \in A <=> \E p \in Pipe : k \in Chain(f[p], n)
  OBVIOUS
<1>2. k \in B <=> \E t \in Thread : k \in Chain(held[t], n)
  OBVIOUS
<1>3. Live(f, n, held) = A \cup B
  BY DEF Live
<1> HIDE DEF A, B
<1> QED BY <1>1, <1>2, <1>3

\* The live items are closed, and contain what lists and threads point to.
LEMMA LiveFacts ==
  ASSUME NEW n \in Links, Ends(n), NEW f \in Firsts, NEW held \in Holds
  PROVE  /\ Live(f, n, held) \subseteq Item
         /\ ClosedUnder(Live(f, n, held), n)
         /\ \A p \in Pipe : f[p] \in Live(f, n, held) \cup {Nil}
         /\ \A t \in Thread : held[t] \in Live(f, n, held) \cup {Nil}
         /\ \A k \in Live(f, n, held) \cup {Nil} : Chain(k, n) \subseteq Live(f, n, held)
<1>1. ASSUME NEW i \in Item \cup {Nil}, Chain(i, n) \subseteq Live(f, n, held)
      PROVE  /\ i \in Live(f, n, held) \cup {Nil}
             /\ \A k \in Chain(i, n) : n[k] \in Live(f, n, held) \cup {Nil}
  BY <1>1, ChainEquation, ChainClosed DEF ClosedUnder
<1>2. \A p \in Pipe : f[p] \in Item \cup {Nil} /\ Chain(f[p], n) \subseteq Live(f, n, held)
  BY LiveMembers DEF Firsts
<1>3. \A t \in Thread : held[t] \in Item \cup {Nil} /\ Chain(held[t], n) \subseteq Live(f, n, held)
  BY LiveMembers DEF Holds
<1>4. Live(f, n, held) \subseteq Item
  BY <1>2, <1>3, ChainOfItems, LiveMembers
<1>5. ClosedUnder(Live(f, n, held), n)
  BY <1>1, <1>2, <1>3, LiveMembers DEF ClosedUnder
<1> QED BY <1>1, <1>2, <1>3, <1>4, <1>5, ChainLeast

\* Pointers sets the lists to what is given, and clears what is not live.
LEMMA PointersFacts ==
  ASSUME NEW n \in Links, Ends(n), NEW f \in Firsts, NEW held \in Holds,
         NEW d \in [Item -> Fd \cup {Closed}],
         Pointers(f, n, d, held)
  PROVE  /\ first' = f /\ it' = held
         /\ next' \in Links /\ Ends(next')
         /\ data' \in [Item -> Fd \cup {Closed}]
         /\ \A a \in Live(f, n, held) \cup {Nil} : Chain(a, next') = Chain(a, n)
         /\ \A i \in Live(f, n, held) : next'[i] = n[i] /\ data'[i] = d[i]
         /\ \A i \in Item \ Live(f, n, held) : next'[i] = Nil /\ data'[i] = Closed
         /\ Live(first', next', it') = Live(f, n, held)
<1> DEFINE live == Live(f, n, held)
<1>1. /\ first' = f /\ it' = held
      /\ next' = [i \in Item |-> IF i \in live THEN n[i] ELSE Nil]
      /\ data' = [i \in Item |-> IF i \in live THEN d[i] ELSE Closed]
  BY DEF Pointers
<1>2. next' \in Links /\ data' \in [Item -> Fd \cup {Closed}]
  BY <1>1 DEF Links
<1>3. Ends(next')
  BY <1>1, NilIsNoItem DEF Ends
<1>4. live \subseteq Item /\ \A k \in live \cup {Nil} : Chain(k, n) \subseteq live
  BY LiveFacts
<1>5. \A i \in live : next'[i] = n[i] /\ data'[i] = d[i]
  BY <1>1, <1>4
<1>6. \A i \in Item \ live : next'[i] = Nil /\ data'[i] = Closed
  BY <1>1
<1>7. ASSUME NEW a \in live \cup {Nil} PROVE Chain(a, next') = Chain(a, n)
  <2>1. \A k \in Chain(a, n) : next'[k] = n[k]
    BY <1>4, <1>5
  <2>2. a \in Item \cup {Nil}
    BY <1>4
  <2> HIDE DEF live
  <2> QED BY <1>2, <1>3, <2>1, <2>2, ChainAgree
<1>8. Live(first', next', it') = live
  <2>1. \A p \in Pipe : Chain(f[p], next') = Chain(f[p], n)
    BY <1>7, LiveFacts
  <2>2. \A t \in Thread : Chain(held[t], next') = Chain(held[t], n)
    BY <1>7, LiveFacts
  <2>3. \A k : k \in Live(f, next', held) <=> k \in live
    BY <2>1, <2>2, LiveMembers
  <2> QED BY <1>1, <2>3
<1> QED BY <1>1, <1>2, <1>3, <1>5, <1>6, <1>7, <1>8

\* The lists end, and what is not live has been cleared.
Graph ==
  /\ Ends(next)
  /\ \A i \in Item \ Live(first, next, it) : next[i] = Nil /\ data[i] = Closed

\* The types of the lists.
ListTypes ==
  /\ first \in Firsts
  /\ next \in Links
  /\ data \in [Item -> Fd \cup {Closed}]
  /\ it \in Holds

\* Found is an item of the list with the descriptor, if there is one.
LEMMA FoundFacts ==
  ASSUME ListTypes, Graph, NEW p \in Pipe, NEW id
  PROVE  \/ Found(p, id) = Nil /\ \A k \in Entries(p) : data[k] # id
         \/ Found(p, id) \in Entries(p) /\ data[Found(p, id)] = id
<1> DEFINE Step1(f) == [j \in Item \cup {Nil} |-> IF j = Nil \/ data[j] = id THEN j ELSE f[next[j]]]
           g == CHOOSE f : f = Step1(f)
           n == [j \in Item |-> IF data[j] = id THEN Nil ELSE next[j]]
           Hits(j) == {k \in Chain(j, n) : data[k] = id}
           w == [j \in Item \cup {Nil} |-> IF j = Nil \/ Hits(j) = {} THEN Nil
                                            ELSE CHOOSE k \in Hits(j) : TRUE]
<1>1. next \in Links /\ n \in Links
  BY DEF ListTypes, Links
<1>2. \A j \in Item : Chain(j, n) = {j} \cup Chain(n[j], n)
  BY <1>1, ChainEquation, NilIsNoItem
<1>3. Chain(Nil, n) = {}
  BY <1>1, ChainEquation
<1>4. w = Step1(w)
  <2>1. ASSUME NEW j \in Item, data[j] = id PROVE w[j] = j
    <3>1. n[j] = Nil
      BY <2>1
    <3>2. Chain(j, n) = {j}
      BY <3>1, <1>2, <1>3
    <3>3. Hits(j) = {j}
      BY <3>2, <2>1
    <3> QED BY <3>3, NilIsNoItem
  <2>2. ASSUME NEW j \in Item, data[j] # id PROVE w[j] = w[next[j]]
    <3>1. n[j] = next[j] /\ next[j] \in Item \cup {Nil}
      BY <2>2, <1>1 DEF Links
    <3>2. Hits(j) = Hits(next[j])
      BY <3>1, <2>2, <1>2
    <3>3. next[j] = Nil => Hits(next[j]) = {}
      BY <1>3
    <3> HIDE DEF Hits
    <3> QED BY <3>1, <3>2, <3>3, NilIsNoItem
  <2> HIDE DEF n, Hits
  <2>3. \A j \in Item \cup {Nil} :
          w[j] = IF j = Nil \/ data[j] = id THEN j ELSE w[next[j]]
    <3>1. w[Nil] = Nil
      OBVIOUS
    <3> HIDE DEF w
    <3> QED BY <2>1, <2>2, <3>1
  <2>4. w = [j \in Item \cup {Nil} |-> w[j]]
    OBVIOUS
  <2> HIDE DEF w
  <2> QED BY <2>3, <2>4
<1> HIDE DEF w
<1>5. g = Step1(g)
  BY <1>4
<1>6. Found(p, id) = g[first[p]]
  BY DEF Found
<1> HIDE DEF g
<1> DEFINE Right(j) == \/ g[j] = Nil /\ \A k \in Chain(j, next) : data[k] # id
                       \/ g[j] \in Chain(j, next) /\ data[g[j]] = id
           Bad == {j \in Item : ~Right(j)}
<1>7. Right(Nil)
  BY <1>1, <1>5, ChainEquation
<1>8. Bad = {}
  <2>1. SUFFICES ASSUME Bad # {} PROVE FALSE
    OBVIOUS
  <2>2. PICK j \in Bad : next[j] \notin Bad
    BY <2>1 DEF Graph, Ends
  <2>3. Right(next[j])
    BY <2>2, <1>1, <1>7 DEF Links
  <2>4. Chain(j, next) = {j} \cup Chain(next[j], next)
    BY <1>1, ChainEquation, NilIsNoItem
  <2>5. g[j] = IF data[j] = id THEN j ELSE g[next[j]]
    BY <1>5, NilIsNoItem
  <2> QED BY <2>2, <2>3, <2>4, <2>5
<1>9. Right(first[p])
  BY <1>7, <1>8 DEF ListTypes, Firsts
<1> QED BY <1>6, <1>9 DEF Entries

\* Nothing comes to a list, nor behind an item.
Shrunk ==
  /\ ListTypes'
  /\ Graph'
  /\ \A q \in Pipe : Entries(q)' \subseteq Entries(q)
  /\ \A i \in Item : Chain(next[i], next)' \subseteq Chain(next[i], next)
  /\ \A i \in Live(first, next, it)' : data'[i] = data[i]

\* A step that leaves the lists alone.
LEMMA UnchangedShrinks ==
  ASSUME ListTypes, Graph, UNCHANGED <<lists, it>>
  PROVE  Shrunk
<1>1. UNCHANGED <<first, next, data, it>>
  BY DEF lists
<1> QED BY <1>1 DEF Shrunk, ListTypes, Graph, Entries

\* What remove takes away: at most an item with the descriptor. What has another
\* descriptor stays on its list, and stays ahead of those it was ahead of.
LEMMA RemoveFacts ==
  ASSUME ListTypes, Graph, NEW p \in Pipe, NEW id, remove(p, id)
  PROVE  /\ Shrunk
         /\ it' = it
         /\ \A q \in Pipe : \A k \in Entries(q) : data[k] # id => k \in Entries(q)'
         /\ \A t \in Thread : it[t] # Nil =>
              \A k \in Chain(next[it[t]], next) :
                data[k] # id => k \in Chain(next[it[t]], next)'
         /\ \A k \in Entries(p)' : data[k] = id => \E j \in Entries(p) : j # k /\ data[j] = id
<1> DEFINE i == Found(p, id)
<1>1. CASE i = Nil
  <2>1. UNCHANGED <<lists, it>>
    BY <1>1 DEF remove
  <2>2. UNCHANGED <<first, next, data, it>>
    BY <2>1 DEF lists
  <2>3. \A k \in Entries(p) : data[k] # id
    BY <1>1, FoundFacts, NilIsNoItem, ChainOfItems DEF Entries, Graph, ListTypes, Firsts
  <2> QED BY <2>1, <2>2, <2>3, UnchangedShrinks DEF Entries
<1>2. CASE i # Nil
  <2> DEFINE m == [j \in Item |-> IF next[j] = i /\ j \in Entries(p) THEN next[i] ELSE next[j]]
             f == [first EXCEPT ![p] = IF @ = i THEN next[i] ELSE @]
  <2>1. Pointers(f, m, data, it)
    BY <1>2 DEF remove
  <2>2. next \in Links /\ Ends(next) /\ first \in Firsts /\ it \in Holds
        /\ data \in [Item -> Fd \cup {Closed}]
    BY DEF Graph, ListTypes
  <2>3. i \in Entries(p) /\ data[i] = id /\ i \in Item
    BY <1>2, <2>2, FoundFacts, ChainOfItems DEF Entries, Firsts
  <2> HIDE DEF i
  <2>4. m \in Links /\ f \in Firsts
    BY <2>2, <2>3 DEF Links, Firsts
  <2>5. \A j \in Item : \/ m[j] = next[j] /\ ~(next[j] = i /\ j \in Entries(p))
                        \/ m[j] = next[i] /\ next[j] = i /\ j \in Entries(p)
    <3>1. ASSUME NEW j \in Item, next[j] = i, j \in Entries(p) PROVE m[j] = next[i]
      BY <3>1
    <3>2. ASSUME NEW j \in Item, ~(next[j] = i /\ j \in Entries(p)) PROVE m[j] = next[j]
      BY <3>2
    <3> HIDE DEF m
    <3> QED BY <3>1, <3>2
  <2>6. \A q \in Pipe : \/ f[q] = first[q]
                        \/ q = p /\ first[p] = i /\ f[p] = next[i]
    BY <2>2 DEF Firsts
  <2>7. first[p] = i => f[p] = next[i]
    BY <2>2 DEF Firsts
  <2> HIDE DEF m, f
  <2>8. Ends(m)
    <3>1. SUFFICES ASSUME NEW S \in SUBSET Item, S # {}, \A j \in S : m[j] \in S
                   PROVE  FALSE
      BY DEF Ends
    <3>2. CASE \E j \in S : m[j] # next[j]
      <4>1. next[i] \in S /\ \A j \in S : next[j] \in S \cup {i}
        BY <2>5, <3>1, <3>2
      <4>2. \A j \in S \cup {i} : next[j] \in S \cup {i}
        BY <4>1
      <4> QED BY <4>2, <2>2, <2>3 DEF Ends
    <3>3. CASE \A j \in S : m[j] = next[j]
      BY <2>2, <3>1, <3>3 DEF Ends
    <3> QED BY <3>2, <3>3
  <2>9. ASSUME NEW a \in Item \cup {Nil} PROVE Chain(a, m) \subseteq Chain(a, next)
    <3>1. ClosedUnder(Chain(a, next), next) /\ Chain(a, next) \subseteq Item
      BY <2>2, ChainClosed, ChainOfItems
    <3>2. ClosedUnder(Chain(a, next), m)
      BY <2>3, <2>5, <3>1, NilIsNoItem DEF ClosedUnder
    <3>3. a \in Chain(a, next) \cup {Nil}
      BY <2>2, ChainEquation
    <3> QED BY <2>4, <2>8, <3>1, <3>2, <3>3, ChainLeast
  <2>10. Chain(i, next) \ {i} \subseteq Chain(next[i], next)
    BY <2>2, <2>3, ChainEquation, NilIsNoItem
  <2>11. ASSUME NEW a \in Item \cup {Nil} PROVE Chain(a, next) \ {i} \subseteq Chain(a, m)
    <3> DEFINE Bad == {j \in Item : ~(Chain(j, next) \ {i} \subseteq Chain(j, m))}
    <3>1. SUFFICES ASSUME Bad # {} PROVE FALSE
      BY <2>2, ChainEquation
    <3>2. PICK j \in Bad : next[j] \notin Bad
      BY <3>1, <2>2 DEF Ends
    <3>3. /\ Chain(j, next) = {j} \cup Chain(next[j], next)
          /\ Chain(j, m) = {j} \cup Chain(m[j], m)
      BY <2>2, <2>4, ChainEquation, NilIsNoItem
    <3>4. Chain(next[j], next) \ {i} \subseteq Chain(next[j], m)
      BY <2>2, <3>2, ChainEquation DEF Links
    <3>5. Chain(i, m) \ {i} \subseteq Chain(m[i], m)
      BY <2>3, <2>4, ChainEquation, NilIsNoItem
    <3>6. m[i] = next[i]
      BY <2>2, <2>3, <2>5, ChainNeverReturns, ChainEquation, NilIsNoItem
    <3> QED BY <2>5, <3>2, <3>3, <3>4, <3>5, <3>6
  <2>12. ASSUME NEW q \in Pipe PROVE Chain(f[q], m) \subseteq Entries(q)
    <3>1. Chain(first[q], m) \subseteq Entries(q)
      BY <2>2, <2>9 DEF Entries, Firsts
    <3>2. Chain(next[i], m) \subseteq Chain(i, next)
      BY <2>2, <2>3, <2>9, ChainEquation, NilIsNoItem DEF Links
    <3> QED BY <2>6, <3>1, <3>2 DEF Entries
  <2>13. ASSUME NEW q \in Pipe PROVE Entries(q) \ {i} \subseteq Chain(f[q], m)
    <3>1. Chain(first[q], next) \ {i} \subseteq Chain(first[q], m)
      BY <2>2, <2>11 DEF Firsts
    <3>2. Chain(next[i], next) \ {i} \subseteq Chain(next[i], m)
      BY <2>2, <2>3, <2>11 DEF Links
    <3> QED BY <2>6, <2>10, <3>1, <3>2 DEF Entries
  <2>14. i \notin Chain(f[p], m)
    <3> DEFINE T == Entries(p) \ {i}
    <3>1. ClosedUnder(Entries(p), next) /\ Entries(p) \subseteq Item
          /\ first[p] \in Entries(p) \cup {Nil}
      BY <2>2, ChainClosed, ChainOfItems, ChainEquation DEF Entries, Firsts
    <3>2. next[i] # i
      BY <2>2, <2>3, ChainNeverReturns, ChainEquation, NilIsNoItem
    <3>3. ClosedUnder(T, m)
      BY <2>3, <2>5, <3>1, <3>2 DEF ClosedUnder
    <3>4. f[p] \in T \cup {Nil}
      BY <2>3, <2>6, <2>7, <3>1, <3>2 DEF ClosedUnder
    <3>5. Chain(f[p], m) \subseteq T
      BY <2>4, <2>8, <3>1, <3>3, <3>4, ChainLeast
    <3> QED BY <3>5
  <2>15. /\ first' = f /\ it' = it /\ next' \in Links /\ Ends(next')
         /\ data' \in [Item -> Fd \cup {Closed}]
         /\ \A a \in Live(f, m, it) \cup {Nil} : Chain(a, next') = Chain(a, m)
         /\ \A j \in Live(f, m, it) : next'[j] = m[j] /\ data'[j] = data[j]
         /\ \A j \in Item \ Live(f, m, it) : next'[j] = Nil /\ data'[j] = Closed
         /\ Live(first', next', it') = Live(f, m, it)
    BY <2>1, <2>2, <2>4, <2>8, PointersFacts
  <2>16. /\ ClosedUnder(Live(f, m, it), m) /\ Live(f, m, it) \subseteq Item
         /\ \A q \in Pipe : f[q] \in Live(f, m, it) \cup {Nil}
         /\ \A t \in Thread : it[t] \in Live(f, m, it) \cup {Nil}
    BY <2>2, <2>4, <2>8, LiveFacts
  <2>17. \A q \in Pipe : Entries(q)' = Chain(f[q], m)
    BY <2>15, <2>16 DEF Entries
  <2>18. \A j \in Live(f, m, it) : Chain(next'[j], next') = Chain(m[j], m)
    BY <2>15, <2>16 DEF ClosedUnder
  <2>19. ASSUME NEW j \in Item PROVE Chain(next'[j], next') \subseteq Chain(next[j], next)
    <3>1. CASE j \in Live(f, m, it)
      <4>1. Chain(m[j], m) \subseteq Chain(m[j], next)
        BY <2>4, <2>9 DEF Links
      <4>2. Chain(next[i], next) \subseteq Chain(i, next)
        BY <2>2, <2>3, ChainEquation, NilIsNoItem
      <4> QED BY <2>5, <2>18, <3>1, <4>1, <4>2
    <3>2. CASE j \notin Live(f, m, it)
      BY <2>15, <3>2, ChainEquation
    <3> QED BY <3>1, <3>2
  <2>20. ASSUME NEW t \in Thread, it[t] # Nil
         PROVE  Chain(next[it[t]], next) \ {i} \subseteq Chain(next'[it[t]], next')
    <3>1. it[t] \in Live(f, m, it) /\ it[t] \in Item
      BY <2>16, <2>20
    <3>2. Chain(next[it[t]], next) \ {i} \subseteq Chain(next[it[t]], m)
      BY <2>2, <2>11, <3>1 DEF Links
    <3>3. Chain(next[i], next) \ {i} \subseteq Chain(next[i], m)
      BY <2>2, <2>3, <2>11 DEF Links
    <3> QED BY <2>5, <2>10, <2>18, <3>1, <3>2, <3>3
  <2>21. Shrunk
    BY <2>2, <2>4, <2>12, <2>15, <2>17, <2>19 DEF Shrunk, ListTypes, Graph
  <2> QED BY <2>3, <2>12, <2>13, <2>14, <2>15, <2>17, <2>20, <2>21
<1> QED BY <1>1, <1>2

\* Items, slots and descriptors are numbers.
LEMMA ItemsAreNumbers == Item \subseteq Nat /\ Slot \subseteq Nat /\ Fd \subseteq Nat
<1>1. MaxItem \in Nat /\ MaxSub \in Nat
  BY PipesAssumption
<1>2. Cardinality(Fd) \in Nat
  BY PipesAssumption, FS_CardinalityType
<1> QED BY <1>1, <1>2, PipesAssumption DEF Item, Slot

\* A set of numbers has a least one.
LEMMA MinItem ==
  ASSUME NEW S \in SUBSET Nat, S # {}
  PROVE  Min(S) \in S /\ \A k \in S : Min(S) <= k
<1>1. PICK m \in S : \A k \in S : ~ (<<k, m>> \in OpToRel(<, Nat))
  BY WFMin, NatLessThanWellFounded
<1>2. ASSUME NEW k \in S PROVE m <= k
  <2>1. ~(k < m)
    BY <1>1 DEF OpToRel
  <2> QED BY <2>1
<1> QED BY <1>2 DEF Min

\* append puts a new item in front of the list, and changes no other list.
LEMMA AppendFacts ==
  ASSUME ListTypes, Graph, Live(first, next, it) # Item,
         NEW p \in Pipe, NEW id \in Fd \cup {Closed}, append(p, id)
  PROVE  \E new \in Item :
           /\ new \notin Live(first, next, it)
           /\ ListTypes' /\ Graph'
           /\ it' = it
           /\ first' = [first EXCEPT ![p] = new]
           /\ next'[new] = first[p] /\ data'[new] = id
           /\ \A k \in Live(first, next, it) : next'[k] = next[k] /\ data'[k] = data[k]
           /\ \A k \in Item : k \notin Live(first, next, it) /\ k # new =>
                next'[k] = Nil /\ data'[k] = Closed
           /\ \A a \in Live(first, next, it) \cup {Nil} : Chain(a, next') = Chain(a, next)
           /\ Entries(p)' = {new} \cup Entries(p)
           /\ \A q \in Pipe : q # p => Entries(q)' = Entries(q)
<1> DEFINE live == Live(first, next, it)
           new == Min(Item \ live)
           f == [first EXCEPT ![p] = new]
           n == [next EXCEPT ![new] = first[p]]
           d == [data EXCEPT ![new] = id]
<1>1. /\ first \in Firsts /\ next \in Links /\ it \in Holds
      /\ data \in [Item -> Fd \cup {Closed}]
      /\ Ends(next) /\ \A k \in Item \ live : next[k] = Nil /\ data[k] = Closed
  BY DEF ListTypes, Graph
<1>2. /\ live \subseteq Item /\ ClosedUnder(live, next)
      /\ \A q \in Pipe : first[q] \in live \cup {Nil}
      /\ \A t \in Thread : it[t] \in live \cup {Nil}
      /\ \A k \in live \cup {Nil} : Chain(k, next) \subseteq live
  BY <1>1, LiveFacts
<1>3. Pointers(f, n, d, it)
  BY DEF append
<1>4. new \in Item \ live
  <2>1. Item \subseteq Nat
    BY ItemsAreNumbers
  <2>2. Item \ live # {}
    BY <1>2
  <2> QED BY <2>1, <2>2, MinItem
<1>5. \A k : k \in live <=> \/ \E q \in Pipe : k \in Chain(first[q], next)
                           \/ \E t \in Thread : k \in Chain(it[t], next)
  BY LiveMembers
<1> HIDE DEF new, live
<1>6. /\ f \in Firsts /\ n \in Links /\ d \in [Item -> Fd \cup {Closed}]
      /\ n[new] = first[p] /\ d[new] = id /\ f[p] = new
      /\ \A k \in live : n[k] = next[k] /\ d[k] = data[k]
      /\ \A k \in Item : k # new => n[k] = next[k]
      /\ \A q \in Pipe : q # p => f[q] = first[q]
  BY <1>1, <1>2, <1>4 DEF Firsts, Links
<1> HIDE DEF f, n, d
<1>7. Ends(n)
  <2>1. SUFFICES ASSUME NEW S \in SUBSET Item, S # {}, \A k \in S : n[k] \in S
                 PROVE  FALSE
    BY DEF Ends
  <2>2. CASE S \ {new} = {}
    BY <1>2, <1>4, <1>6, <2>1, <2>2, NilIsNoItem
  <2>3. CASE S \ {new} # {}
    <3>1. PICK k \in S \ {new} : next[k] \notin S \ {new}
      BY <1>1, <2>3 DEF Ends
    <3>2. next[k] = new
      BY <1>6, <2>1, <3>1
    <3> QED BY <1>1, <1>2, <1>4, <3>1, <3>2, NilIsNoItem DEF ClosedUnder
  <2> QED BY <2>2, <2>3
<1>8. ASSUME NEW a \in live \cup {Nil} PROVE Chain(a, n) = Chain(a, next)
  <2>1. \A k \in Chain(a, next) : n[k] = next[k]
    BY <1>2, <1>6
  <2> QED BY <1>1, <1>2, <1>6, <1>7, <2>1, ChainAgree
<1>9. Chain(new, n) = {new} \cup Entries(p)
  <2>1. Chain(new, n) = {new} \cup Chain(first[p], n)
    BY <1>4, <1>6, ChainEquation, NilIsNoItem
  <2> QED BY <1>2, <1>8, <2>1 DEF Entries
<1>10. Live(f, n, it) = live \cup {new}
  <2>1. ASSUME NEW q \in Pipe, NEW k
        PROVE  k \in Chain(f[q], n) <=> k \in Chain(first[q], next) \/ (q = p /\ k = new)
    BY <1>2, <1>6, <1>8, <1>9 DEF Entries
  <2>2. \A t \in Thread : Chain(it[t], n) = Chain(it[t], next)
    BY <1>2, <1>8
  <2>3. \A k : k \in Live(f, n, it) <=> k \in live \/ k = new
    BY <1>5, <2>1, <2>2, LiveMembers
  <2> QED BY <2>3
<1>11. /\ first' = f /\ it' = it /\ next' \in Links /\ Ends(next')
       /\ data' \in [Item -> Fd \cup {Closed}]
       /\ \A a \in Live(f, n, it) \cup {Nil} : Chain(a, next') = Chain(a, n)
       /\ \A k \in Live(f, n, it) : next'[k] = n[k] /\ data'[k] = d[k]
       /\ \A k \in Item \ Live(f, n, it) : next'[k] = Nil /\ data'[k] = Closed
       /\ Live(first', next', it') = Live(f, n, it)
  BY <1>1, <1>3, <1>6, <1>7, PointersFacts
<1>12. ListTypes' /\ Graph'
  BY <1>1, <1>6, <1>11 DEF ListTypes, Graph
<1>13. Entries(p)' = {new} \cup Entries(p)
  BY <1>6, <1>9, <1>10, <1>11 DEF Entries
<1>14. \A q \in Pipe : q # p => Entries(q)' = Entries(q)
  BY <1>2, <1>6, <1>8, <1>10, <1>11 DEF Entries
<1>15. \A a \in live \cup {Nil} : Chain(a, next') = Chain(a, next)
  BY <1>8, <1>10, <1>11
<1>16. /\ next'[new] = first[p] /\ data'[new] = id
       /\ \A k \in live : next'[k] = next[k] /\ data'[k] = data[k]
       /\ \A k \in Item : k \notin live /\ k # new => next'[k] = Nil /\ data'[k] = Closed
  BY <1>6, <1>10, <1>11
<1>17. first' = [first EXCEPT ![p] = new]
  BY <1>11 DEF f
<1> QED BY <1>4, <1>11, <1>12, <1>13, <1>14, <1>15, <1>16, <1>17 DEF live

\* A thread that steps on to the next item changes no list.
LEMMA AdvanceFacts ==
  ASSUME ListTypes, Graph, NEW t \in Thread, it[t] \in Item,
         Pointers(first, next, data, [it EXCEPT ![t] = next[it[t]]])
  PROVE  /\ Shrunk
         /\ it' = [it EXCEPT ![t] = next[it[t]]]
         /\ \A q \in Pipe : Entries(q)' = Entries(q)
         /\ \A a \in Live(first, next, it)' \cup {Nil} : Chain(a, next') = Chain(a, next)
         /\ \A k \in Live(first, next, it)' : next'[k] = next[k]
<1> DEFINE held == [it EXCEPT ![t] = next[it[t]]]
<1>1. /\ first \in Firsts /\ next \in Links /\ Ends(next) /\ held \in Holds
      /\ data \in [Item -> Fd \cup {Closed}]
  BY DEF ListTypes, Graph, Holds, Links
<1>2. Pointers(first, next, data, held)
  OBVIOUS
<1> HIDE DEF held
<1>3. /\ first' = first /\ it' = held
      /\ next' \in Links /\ Ends(next')
      /\ data' \in [Item -> Fd \cup {Closed}]
      /\ \A a \in Live(first, next, held) \cup {Nil} : Chain(a, next') = Chain(a, next)
      /\ \A i \in Live(first, next, held) : next'[i] = next[i] /\ data'[i] = data[i]
      /\ \A i \in Item \ Live(first, next, held) : next'[i] = Nil /\ data'[i] = Closed
      /\ Live(first', next', it') = Live(first, next, held)
  BY <1>1, <1>2, PointersFacts
<1>4. /\ ClosedUnder(Live(first, next, held), next) /\ Live(first, next, held) \subseteq Item
      /\ \A p \in Pipe : first[p] \in Live(first, next, held) \cup {Nil}
  BY <1>1, LiveFacts
<1>5. \A q \in Pipe : Entries(q)' = Entries(q)
  BY <1>3, <1>4 DEF Entries
<1>6. ASSUME NEW i \in Item PROVE Chain(next'[i], next') \subseteq Chain(next[i], next)
  BY <1>3, <1>4, ChainEquation DEF ClosedUnder
<1>7. Shrunk
  BY <1>1, <1>3, <1>5, <1>6 DEF Shrunk, ListTypes, Graph
<1> QED BY <1>3, <1>5, <1>7 DEF held

\* Nor does one that begins at the first item of a list.
LEMMA HoldFacts ==
  ASSUME ListTypes, Graph, NEW t \in Thread, it[t] = Nil, NEW p \in Pipe,
         UNCHANGED lists, it' = [it EXCEPT ![t] = first[p]]
  PROVE  Shrunk /\ \A q \in Pipe : Entries(q)' = Entries(q)
<1>1. UNCHANGED <<first, next, data>>
  BY DEF lists
<1>2. /\ first \in Firsts /\ next \in Links /\ Ends(next) /\ it \in Holds
      /\ data \in [Item -> Fd \cup {Closed}]
  BY DEF ListTypes, Graph
<1>3. it' \in Holds
  BY <1>2 DEF Holds, Firsts
<1>4. \A u \in Thread : u # t => it'[u] = it[u]
  BY <1>2 DEF Holds
<1>5. it'[t] = first[p]
  BY <1>2 DEF Holds
<1>6. Chain(it[t], next) = {}
  BY <1>2, ChainEquation
<1>7. Live(first, next, it') = Live(first, next, it)
  <2>1. ASSUME NEW k, k \in Live(first, next, it') PROVE k \in Live(first, next, it)
    <3>1. CASE \E q \in Pipe : k \in Chain(first[q], next)
      BY <3>1, LiveMembers
    <3>2. CASE \E u \in Thread : k \in Chain(it'[u], next)
      BY <1>4, <1>5, <3>2, LiveMembers
    <3> QED BY <2>1, <3>1, <3>2, LiveMembers
  <2>2. ASSUME NEW k, k \in Live(first, next, it) PROVE k \in Live(first, next, it')
    <3>1. CASE \E q \in Pipe : k \in Chain(first[q], next)
      BY <3>1, LiveMembers
    <3>2. CASE \E u \in Thread : k \in Chain(it[u], next)
      BY <1>4, <1>6, <3>2, LiveMembers
    <3> QED BY <2>2, <3>1, <3>2, LiveMembers
  <2> QED BY <2>1, <2>2
<1> QED BY <1>1, <1>2, <1>3, <1>7 DEF Shrunk, ListTypes, Graph, Entries

-----------------------------------------------------------------------------
\* What a thread is at, and the types

\* Places in send_event_to_pipe, and those in which an item is held.
Sending == {"begin", "get", "message", "erase", "next", "sent"}
Walking == {"get", "message", "erase", "next"}

\* What a thread is about, or goes on with when its event is sent.
Stage(t) == IF pc[t] \in Sending THEN back[t] ELSE pc[t]

\* Where a thread may be, by the kind of the thread, and what it has then.
Role(t) ==
  /\ pc[t] \in Sending => pipe[t] \in Pipe
  /\ pc[t] \in Walking <=> it[t] # Nil
  /\ pc[t] = "message" => r[t] \in Conn
  /\ t \in Conn =>
       /\ client[t] = t
       /\ Stage(t) \in {"new", "idle", "unsub", "quit", "name", "insert",
                        "leave", "offline", "reset", "close", "gone"}
       /\ pc[t] \in Sending => back[t] # "idle"
       /\ Stage(t) \in {"unsub", "name", "insert"} => asked[t] # <<>>
       /\ Stage(t) = "insert" => at[t] \in DOMAIN Request(t)
  /\ t \in Kicker =>
       /\ Stage(t) \in {"idle", "leave", "offline", "reset", "quit", "close"}
       /\ pc[t] \in Sending => back[t] = "quit"
       /\ Stage(t) # "idle" => client[t] \in Conn
  /\ t \in Sender => Stage(t) = "idle" /\ back[t] = "idle"

\* The roles of all threads.
Roles == \A t \in Thread : Role(t)

\* The inductive invariant that holds on every instance.
BaseInv == TypeOK /\ Graph /\ Roles

\* The types of the lists are part of the invariant.
LEMMA TypesOfLists ==
  ASSUME TypeOK
  PROVE  ListTypes
BY DEF TypeOK, ListTypes, Firsts, Links, Holds

\* A thread is of one kind.
LEMMA ThreadKinds ==
  /\ \A t \in Conn : t \in Thread /\ t \notin Sender /\ t \notin Kicker
  /\ \A t \in Sender : t \in Thread /\ t \notin Conn /\ t \notin Kicker
  /\ \A t \in Kicker : t \in Thread /\ t \notin Conn /\ t \notin Sender
  /\ \A t \in Thread : t \in Conn \/ t \in Sender \/ t \in Kicker
BY PipesAssumption DEF Thread

\* A request is a short sequence of channels.
LEMMA NamesFacts ==
  ASSUME NEW names \in Requests
  PROVE  /\ names \in Seq(Pipe)
         /\ Len(names) \in 0..MaxSub
         /\ DOMAIN names = 1..Len(names)
         /\ \A i \in DOMAIN names : names[i] \in Pipe /\ i \in Slot
<1>1. MaxSub \in Nat
  BY PipesAssumption
<1>2. PICK n \in 0..MaxSub : names \in [1..n -> Pipe]
  BY PipesAssumption
<1>3. n \in Nat /\ names \in Seq(Pipe) /\ Len(names) = n
  BY <1>1, <1>2
<1> QED BY <1>1, <1>2, <1>3 DEF Slot

\* The requests of a connection, and the last of them.
LEMMA AskedFacts ==
  ASSUME TypeOK, NEW c \in Conn
  PROVE  /\ asked[c] \in Seq(Requests)
         /\ Len(asked[c]) \in 0..MaxAsks
         /\ asked[c] # <<>> => Request(c) \in Requests /\ Request(c) \in Range(asked[c])
<1>1. MaxAsks \in Nat
  BY PipesAssumption
<1>2. PICK n \in 0..MaxAsks : asked[c] \in [1..n -> Requests]
  <2>1. asked \in [Conn -> UNION {[1..n -> Requests] : n \in 0..MaxAsks}]
    BY DEF TypeOK
  <2> QED BY <2>1
<1>3. n \in Nat /\ asked[c] \in Seq(Requests) /\ Len(asked[c]) = n
  BY <1>1, <1>2
<1>4. ASSUME asked[c] # <<>>
      PROVE  Request(c) \in Requests /\ Request(c) \in Range(asked[c])
  <2>1. n # 0
    BY <1>2, <1>3, <1>4
  <2>2. n \in 1..n
    BY <2>1, <1>3
  <2> QED BY <1>2, <1>3, <1>4, <2>2 DEF Request, Range
<1> QED BY <1>1, <1>3, <1>4

\* The bound on all commands bounds those of each connection.
LEMMA AsksFit ==
  ASSUME TypeOK, MayAsk, NEW c \in Conn, NEW names \in Requests
  PROVE  /\ [asked EXCEPT ![c] = Append(@, names)]
             \in [Conn -> UNION {[1..n -> Requests] : n \in 0..MaxAsks}]
         /\ Append(asked[c], names) # <<>>
<1> DEFINE All == UNION {{d} \X DOMAIN asked[d] : d \in Conn}
           own == {c} \X DOMAIN asked[c]
<1>1. MaxAsks \in Nat
  BY PipesAssumption
<1>2. \A d \in Conn : /\ asked[d] \in Seq(Requests) /\ Len(asked[d]) \in 0..MaxAsks
                      /\ DOMAIN asked[d] = 1..Len(asked[d])
  BY AskedFacts
<1>3. IsFiniteSet(All)
  <2>1. All \in SUBSET (Conn \X (1..MaxAsks))
    BY <1>1, <1>2
  <2>2. IsFiniteSet(Conn) /\ IsFiniteSet(1..MaxAsks)
    BY <1>1, FS_Interval, PipesAssumption
  <2>3. IsFiniteSet(Conn \X (1..MaxAsks))
    BY <2>2, FS_Product
  <2> QED BY <2>1, <2>3, FS_Subset
<1>4. own \subseteq All
  OBVIOUS
<1>5. Cardinality(own) = Len(asked[c])
  <2>1. IsFiniteSet({c}) /\ Cardinality({c}) = 1
    BY FS_Singleton
  <2>2. IsFiniteSet(1..Len(asked[c])) /\ Cardinality(1..Len(asked[c])) = Len(asked[c])
    BY <1>1, <1>2, FS_Interval
  <2>3. Cardinality({c} \X (1..Len(asked[c]))) = 1 * Len(asked[c])
    <3>1. /\ Cardinality({c} \X (1..Len(asked[c])))
               = Cardinality({c}) * Cardinality(1..Len(asked[c]))
      BY <2>1, <2>2, FS_Product
    <3> QED BY <3>1, <2>1, <2>2
  <2>4. own = {c} \X (1..Len(asked[c]))
    BY <1>2
  <2>5. Len(asked[c]) \in Int
    BY <1>1, <1>2
  <2> HIDE DEF own
  <2> QED BY <2>3, <2>4, <2>5
<1>6. Cardinality(own) <= Cardinality(All)
  BY <1>3, <1>4, FS_Subset
<1>7. Cardinality(All) < MaxAsks
  BY DEF MayAsk
<1>8. Cardinality(All) \in Nat
  BY <1>3, FS_CardinalityType
<1> HIDE DEF All, own
<1>9. Len(asked[c]) + 1 \in 0..MaxAsks
  <2>1. Len(asked[c]) \in Nat /\ Len(asked[c]) < MaxAsks
    BY <1>1, <1>2, <1>5, <1>6, <1>7, <1>8
  <2> QED BY <1>1, <2>1
<1>10. Append(asked[c], names) \in [1..Len(asked[c]) + 1 -> Requests]
  <2>1. asked[c] \in Seq(Requests)
    BY <1>2
  <2>2. /\ Append(asked[c], names) \in Seq(Requests)
        /\ Len(Append(asked[c], names)) = Len(asked[c]) + 1
    BY <2>1, AppendProperties
  <2>3. Append(asked[c], names) \in [1..Len(Append(asked[c], names)) -> Requests]
    BY <2>2, LenProperties
  <2> QED BY <2>2, <2>3
<1>11. Append(asked[c], names) # <<>>
  BY <1>2, <1>9
<1>12. asked \in [Conn -> UNION {[1..n -> Requests] : n \in 0..MaxAsks}]
  BY DEF TypeOK
<1>13. Append(asked[c], names) \in UNION {[1..n -> Requests] : n \in 0..MaxAsks}
  BY <1>9, <1>10
<1> QED BY <1>11, <1>12, <1>13

\* The position in a request.
LEMMA AtFacts ==
  1 \in 1..MaxSub + 1 /\ \A i \in Slot : i + 1 \in 1..MaxSub + 1
<1>1. MaxSub \in Nat
  BY PipesAssumption
<1> QED BY <1>1 DEF Slot

\* The role of a thread whose variables stay.
LEMMA RoleStays ==
  ASSUME NEW u \in Thread, Role(u),
         pc'[u] = pc[u], back'[u] = back[u], at'[u] = at[u], client'[u] = client[u],
         pipe'[u] = pipe[u], it'[u] = it[u], r'[u] = r[u],
         u \in Conn => asked'[u] = asked[u]
  PROVE  Role(u)'
BY DEF Role, Stage, Request

\* Only t goes on.
Except(t) ==
  \A u \in Thread : u # t =>
    /\ pc'[u] = pc[u] /\ back'[u] = back[u] /\ at'[u] = at[u] /\ client'[u] = client[u]
    /\ pipe'[u] = pipe[u] /\ it'[u] = it[u] /\ r'[u] = r[u]
    /\ u \in Conn => asked'[u] = asked[u]

\* A step in which only t goes on is right when t gets a role.
LEMMA RolesStep ==
  ASSUME BaseInv, NEW t \in Thread, Except(t), Role(t)'
  PROVE  Roles'
<1>1. ASSUME NEW u \in Thread, u # t PROVE Role(u)'
  BY <1>1, RoleStays DEF BaseInv, Roles, Except
<1> QED BY <1>1 DEF Roles

\* BaseInv is inductive: one lemma per action.
LEMMA OpenBase ==
  ASSUME BaseInv, NEW c \in Conn, Open(c)
  PROVE  BaseInv'
<1> USE DEF BaseInv
<1>1. Shrunk
  BY TypesOfLists, UnchangedShrinks DEF Open, send
<1>2. Min(Unused) \in Fd
  BY MinItem, ItemsAreNumbers DEF Open, Unused
<1>3. TypeOK'
  BY <1>2, ThreadKinds DEF TypeOK, Open, Go, lists, send
<1>4. Except(c)
  BY ThreadKinds DEF TypeOK, Open, Go, send, Except
<1>5. Role(c)'
  <2>1. pc'[c] = "idle" /\ pc[c] = "new" /\ UNCHANGED <<back, at, client, pipe, it, r, asked>>
    BY ThreadKinds DEF TypeOK, Open, Go, send
  <2> QED BY <2>1, ThreadKinds DEF Role, Roles, Stage, Sending, Walking
<1> QED BY <1>1, <1>3, <1>4, <1>5, RolesStep, ThreadKinds DEF Shrunk

\* A request to subscribe arrives.
LEMMA subscriptionBase ==
  ASSUME BaseInv, NEW c \in Conn, NEW names \in Requests, subscription(c, names)
  PROVE  BaseInv'
<1> USE DEF BaseInv
<1>1. Shrunk
  BY TypesOfLists, UnchangedShrinks DEF subscription
<1>2. /\ asked' \in [Conn -> UNION {[1..n -> Requests] : n \in 0..MaxAsks}]
      /\ asked'[c] # <<>>
  BY AsksFit DEF subscription, TypeOK
<1>3. due' \in [Thread -> SUBSET Conn]
  BY DEF subscription, Leaves, TypeOK
<1>4. TypeOK'
  <2>1. at' \in [Thread -> 1..MaxSub + 1]
    BY AtFacts DEF TypeOK, subscription
  <2> QED BY <1>2, <1>3, <2>1, ThreadKinds DEF TypeOK, subscription, Go, lists
<1>5. Except(c)
  BY ThreadKinds DEF TypeOK, subscription, Go, Except
<1>6. Role(c)'
  <2>1. /\ pc'[c] = "unsub" /\ pc[c] = "idle"
        /\ UNCHANGED <<back, client, pipe, it, r>>
    BY ThreadKinds DEF TypeOK, subscription, Go
  <2> QED BY <1>2, <2>1, ThreadKinds DEF Role, Roles, Stage, Sending, Walking
<1> QED BY <1>1, <1>4, <1>5, <1>6, RolesStep, ThreadKinds DEF Shrunk

\* The next channel of the request, or the end of it.
LEMMA ws_subscriptionBase ==
  ASSUME BaseInv, NEW c \in Conn, ws_subscription(c)
  PROVE  BaseInv'
<1> USE DEF BaseInv
<1>1. Shrunk
  BY TypesOfLists, UnchangedShrinks DEF ws_subscription
<1>2. /\ pc[c] = "name" /\ c \in Thread /\ asked[c] # <<>> /\ at[c] \in 1..MaxSub + 1
      /\ client[c] = c /\ it[c] = Nil
  BY ThreadKinds DEF ws_subscription, Role, Roles, Stage, Sending, Walking, TypeOK
<1>3. /\ Len(Request(c)) \in 0..MaxSub /\ DOMAIN Request(c) = 1..Len(Request(c))
      /\ \A i \in DOMAIN Request(c) : Request(c)[i] \in Pipe /\ i \in Slot
  BY <1>2, AskedFacts, NamesFacts
<1>4. CASE at[c] > Len(Request(c))
  <2>1. /\ pc' = [pc EXCEPT ![c] = "idle"] /\ at' = [at EXCEPT ![c] = 1]
        /\ UNCHANGED <<subscriptions, pipe, back, lists, map_index, fd, isOnLine, asked, client,
                       it, r, due, served>>
    BY <1>4 DEF ws_subscription, Go
  <2>2. at' \in [Thread -> 1..MaxSub + 1]
    BY <2>1, AtFacts DEF TypeOK
  <2>3. TypeOK'
    BY <2>1, <2>2 DEF TypeOK, lists
  <2>4. Except(c)
    BY <2>1 DEF Except, TypeOK
  <2>5. pc'[c] = "idle"
    BY <1>2, <2>1 DEF TypeOK
  <2>6. Role(c)'
    BY <1>2, <2>1, <2>5, ThreadKinds DEF Role, Stage, Sending, Walking
  <2> QED BY <1>1, <1>2, <2>3, <2>4, <2>6, RolesStep DEF Shrunk
<1>5. CASE ~(at[c] > Len(Request(c)))
  <2>1. at[c] \in DOMAIN Request(c) /\ Request(c)[at[c]] \in Pipe /\ at[c] \in Slot
    BY <1>2, <1>3, <1>5
  <2>2. /\ subscriptions' = [subscriptions EXCEPT ![c][at[c]] = Request(c)[at[c]]]
        /\ UNCHANGED <<at, lists, map_index, fd, isOnLine, asked, client, it, r, due, served>>
        /\ \/ /\ pc' = [pc EXCEPT ![c] = "idle"] \/ pc' = [pc EXCEPT ![c] = "leave"]
              /\ UNCHANGED <<pipe, back>>
           \/ /\ pc' = [pc EXCEPT ![c] = "begin"]
              /\ pipe' = [pipe EXCEPT ![c] = Request(c)[at[c]]]
              /\ back' = [back EXCEPT ![c] = "insert"]
           \/ /\ pc' = [pc EXCEPT ![c] = "insert"]
              /\ UNCHANGED <<pipe, back>>
    BY <1>5 DEF ws_subscription, Go
  <2>3. subscriptions' \in [Conn -> [Slot -> Pipe \cup {None}]]
    BY <2>1, <2>2 DEF TypeOK
  <2>4. TypeOK'
    BY <2>1, <2>2, <2>3 DEF TypeOK, lists
  <2>5. Except(c)
    BY <2>2 DEF Except, TypeOK
  <2>6. \/ pc'[c] = "idle" \/ pc'[c] = "leave" \/ pc'[c] = "insert"
        \/ pc'[c] = "begin" /\ pipe'[c] \in Pipe /\ back'[c] = "insert"
    BY <1>2, <2>1, <2>2 DEF TypeOK
  <2>7. Role(c)'
    BY <1>2, <2>1, <2>2, <2>6, ThreadKinds DEF Role, Stage, Sending, Walking, Request
  <2> QED BY <1>1, <1>2, <2>4, <2>5, <2>7, RolesStep DEF Shrunk
<1> QED BY <1>4, <1>5

\* A subscriber joins a list.
LEMMA insertBase ==
  ASSUME BaseInv, NEW c \in Conn, insert(c)
  PROVE  BaseInv'
<1> USE DEF BaseInv
<1>1. /\ pc[c] = "insert" /\ c \in Thread /\ asked[c] # <<>> /\ at[c] \in DOMAIN Request(c)
      /\ client[c] = c /\ it[c] = Nil
  BY ThreadKinds DEF insert, Role, Roles, Stage, Sending, Walking, TypeOK
<1>2. at[c] \in Slot /\ Request(c)[at[c]] \in Pipe /\ fd[c] \in Fd \cup {Closed}
  BY <1>1, AskedFacts, NamesFacts DEF TypeOK
<1>3. ListTypes' /\ Graph' /\ it' = it
  BY <1>2, TypesOfLists, AppendFacts DEF insert
<1>4. at' \in [Thread -> 1..MaxSub + 1]
  BY <1>1, <1>2, AtFacts DEF insert, TypeOK
<1>5. TypeOK'
  BY <1>3, <1>4 DEF TypeOK, insert, Go, conns, ListTypes, Firsts, Links, Holds
<1>6. Except(c)
  BY <1>3 DEF TypeOK, insert, Go, Except, conns
<1>7. pc'[c] = "name" /\ client' = client /\ asked' = asked
  BY <1>1 DEF TypeOK, insert, Go, conns
<1>8. Role(c)'
  BY <1>1, <1>3, <1>7, ThreadKinds DEF Role, Stage, Sending, Walking
<1> QED BY <1>1, <1>3, <1>5, <1>6, <1>8, RolesStep

\* A channel is left, or all have been.
LEMMA un_subscriptionBase ==
  ASSUME BaseInv, NEW t \in Conn \cup Kicker, un_subscription(t)
  PROVE  BaseInv'
<1> USE DEF BaseInv
<1>1. /\ t \in Thread /\ client[t] \in Conn /\ it[t] = Nil /\ Role(t)
      /\ pc[t] = "quit" \/ (pc[t] = "unsub" /\ t \in Conn)
  BY ThreadKinds DEF un_subscription, Role, Roles, Stage, Sending, Walking, TypeOK
<1>2. CASE Unsubscribing(t)
  <2> DEFINE p == subscriptions[client[t]][at[t]]
  <2>1. at[t] \in Slot /\ p \in Pipe
    BY <1>1, <1>2 DEF Unsubscribing, TypeOK
  <2>2. /\ remove(p, fd[client[t]])
        /\ at' = [at EXCEPT ![t] = @ + 1]
        /\ UNCHANGED <<subscriptions, map_index, fd, isOnLine, asked, client, r, due, served>>
        /\ \/ /\ pc' = [pc EXCEPT ![t] = "begin"]
              /\ pipe' = [pipe EXCEPT ![t] = p]
              /\ back' = [back EXCEPT ![t] = pc[t]]
           \/ UNCHANGED <<pc, pipe, back>>
    BY <1>2 DEF un_subscription, Go
  <2> HIDE DEF p
  <2>3. Shrunk /\ it' = it
    BY <2>1, <2>2, TypesOfLists, RemoveFacts
  <2>4. at' \in [Thread -> 1..MaxSub + 1]
    BY <1>1, <2>1, <2>2, AtFacts DEF TypeOK
  <2>5. TypeOK'
    <3>1. pc' \in [Thread -> {"new", "idle", "unsub", "quit", "name", "insert", "begin", "get",
                              "message", "erase", "next", "sent", "leave", "offline", "reset",
                              "close", "gone"}]
      BY <2>2 DEF TypeOK
    <3>2. back' \in [Thread -> {"idle", "unsub", "quit", "insert"}]
      <4>1. pc[t] \in {"idle", "unsub", "quit", "insert"}
        BY <1>1
      <4>2. back' = back \/ back' = [back EXCEPT ![t] = pc[t]]
        BY <2>2
      <4>3. back \in [Thread -> {"idle", "unsub", "quit", "insert"}]
        BY DEF TypeOK
      <4> QED BY <4>1, <4>2, <4>3
    <3>3. pipe' \in [Thread -> Pipe \cup {None}]
      BY <2>1, <2>2 DEF TypeOK
    <3> QED BY <2>2, <2>3, <2>4, <3>1, <3>2, <3>3 DEF TypeOK, Shrunk, ListTypes, Firsts, Links, Holds
  <2>6. Except(t)
    BY <2>2, <2>3 DEF Except, TypeOK
  <2>7. \/ pc'[t] = pc[t]
        \/ pc'[t] = "begin" /\ pipe'[t] \in Pipe /\ back'[t] = pc[t]
    BY <1>1, <2>1, <2>2 DEF TypeOK
  <2>8. Role(t)'
    BY <1>1, <2>2, <2>3, <2>7, ThreadKinds DEF Role, Stage, Sending, Walking, Request
  <2> QED BY <1>1, <2>3, <2>5, <2>6, <2>8, RolesStep DEF Shrunk
<1>3. CASE ~Unsubscribing(t)
  <2>1. /\ subscriptions' = [subscriptions EXCEPT ![client[t]] = NoSlots]
        /\ at' = [at EXCEPT ![t] = 1]
        /\ pc' = [pc EXCEPT ![t] = IF pc[t] = "unsub" THEN "name" ELSE "close"]
        /\ UNCHANGED <<lists, it, pipe, back, map_index, fd, isOnLine, asked, client, r, due, served>>
    BY <1>3 DEF un_subscription, Go
  <2>2. Shrunk
    BY <2>1, TypesOfLists, UnchangedShrinks
  <2>3. at' \in [Thread -> 1..MaxSub + 1]
    BY <2>1, AtFacts DEF TypeOK
  <2>4. subscriptions' \in [Conn -> [Slot -> Pipe \cup {None}]]
    BY <1>1, <2>1 DEF TypeOK, NoSlots
  <2>5. TypeOK'
    BY <2>1, <2>3, <2>4 DEF TypeOK, lists
  <2>6. Except(t)
    BY <2>1 DEF Except, TypeOK
  <2>7. pc'[t] = IF pc[t] = "unsub" THEN "name" ELSE "close"
    BY <1>1, <2>1 DEF TypeOK
  <2>8. Role(t)'
    BY <1>1, <2>1, <2>7, ThreadKinds DEF Role, Stage, Sending, Walking, Request
  <2> QED BY <1>1, <2>2, <2>5, <2>6, <2>8, RolesStep DEF Shrunk
<1> QED BY <1>2, <1>3

\* The client hangs up.
LEMMA hangupBase ==
  ASSUME BaseInv, NEW c \in Conn, hangup(c)
  PROVE  BaseInv'
<1> USE DEF BaseInv
<1>1. UNCHANGED <<lists, conns, at, client, pipe, it, r, served, back>>
  BY DEF hangup
<1>2. Shrunk
  BY <1>1, TypesOfLists, UnchangedShrinks
<1>3. TypeOK'
  BY <1>1, ThreadKinds DEF TypeOK, hangup, Go, Leaves, lists, conns
<1>4. Except(c)
  BY <1>1 DEF TypeOK, hangup, Go, Except, conns
<1>5. pc'[c] = "leave" /\ pc[c] = "idle" /\ asked' = asked
  BY <1>1, ThreadKinds DEF TypeOK, hangup, Go, conns
<1>6. Role(c)'
  BY <1>1, <1>5, ThreadKinds DEF Role, Roles, Stage, Sending, Walking
<1> QED BY <1>2, <1>3, <1>4, <1>6, RolesStep, ThreadKinds DEF Shrunk

\* Another thread throws a connection out.
LEMMA kickBase ==
  ASSUME BaseInv, NEW k \in Kicker, NEW c \in Conn, kick(k, c)
  PROVE  BaseInv'
<1> USE DEF BaseInv
<1>1. UNCHANGED <<lists, conns, at, pipe, it, r, served, back>>
  BY DEF kick
<1>2. Shrunk
  BY <1>1, TypesOfLists, UnchangedShrinks
<1>3. TypeOK'
  BY <1>1, ThreadKinds DEF TypeOK, kick, Go, Leaves, lists, conns
<1>4. Except(k)
  BY <1>1 DEF TypeOK, kick, Go, Except, conns
<1>5. pc'[k] = "leave" /\ pc[k] = "idle" /\ client'[k] = c
  BY <1>1, ThreadKinds DEF TypeOK, kick, Go
<1>6. Role(k)'
  BY <1>1, <1>5, ThreadKinds DEF Role, Roles, Stage, Sending, Walking
<1> QED BY <1>2, <1>3, <1>4, <1>6, RolesStep, ThreadKinds DEF Shrunk

\* The steps in which a connection goes.
LEMMA leavingBase ==
  ASSUME BaseInv, NEW t \in Conn \cup Kicker,
         deleteClientFromMap(t) \/ set_offline(t) \/ reset(t) \/ web_close(t)
  PROVE  BaseInv'
<1> USE DEF BaseInv
<1>1. /\ t \in Thread /\ client[t] \in Conn /\ it[t] = Nil /\ Role(t)
      /\ pc[t] \in {"leave", "offline", "reset", "close"}
  BY ThreadKinds DEF deleteClientFromMap, set_offline, reset, web_close,
                     Role, Roles, Stage, Sending, Walking, TypeOK
<1>2. UNCHANGED <<lists, subscriptions, asked, client, pipe, it, r, due, served, back>>
  BY DEF deleteClientFromMap, set_offline, reset, web_close, conns, send
<1>3. Shrunk
  BY <1>2, TypesOfLists, UnchangedShrinks
<1>4. \/ pc' = [pc EXCEPT ![t] = IF t \in Conn THEN "gone" ELSE "idle"]
      \/ pc' = [pc EXCEPT ![t] = "offline"]
      \/ pc' = [pc EXCEPT ![t] = "reset"]
      \/ pc' = [pc EXCEPT ![t] = "close"]
      \/ pc' = [pc EXCEPT ![t] = "quit"]
  BY DEF deleteClientFromMap, set_offline, reset, web_close, Leave, Go
<1>5. at' = at \/ at' = [at EXCEPT ![t] = 1]
  BY DEF deleteClientFromMap, set_offline, reset, web_close
<1>6. at' \in [Thread -> 1..MaxSub + 1]
  BY <1>5, AtFacts DEF TypeOK
<1>7. /\ map_index' \in [Fd -> Conn \cup {None}]
      /\ fd' \in [Conn -> Fd \cup {Closed}]
      /\ isOnLine' \subseteq Conn
  BY DEF deleteClientFromMap, set_offline, reset, web_close, conns, TypeOK
<1>8. TypeOK'
  <2>1. pc' \in [Thread -> {"new", "idle", "unsub", "quit", "name", "insert", "begin", "get",
                           "message", "erase", "next", "sent", "leave", "offline", "reset",
                           "close", "gone"}]
    BY <1>4 DEF TypeOK
  <2> QED BY <1>2, <1>6, <1>7, <2>1 DEF TypeOK, lists
<1>9. Except(t)
  BY <1>2, <1>4, <1>5 DEF TypeOK, Except
<1>10. pc'[t] \in {IF t \in Conn THEN "gone" ELSE "idle", "offline", "reset", "close", "quit"}
  BY <1>1, <1>4 DEF TypeOK
<1>11. Role(t)'
  BY <1>1, <1>2, <1>10, ThreadKinds DEF Role, Stage, Sending, Walking, Request
<1> QED BY <1>1, <1>3, <1>8, <1>9, <1>11, RolesStep DEF Shrunk

\* A message or an event begins to be sent.
LEMMA StartBase ==
  ASSUME BaseInv, NEW s \in Sender, NEW p \in Pipe, Start(s, p)
  PROVE  BaseInv'
<1> USE DEF BaseInv
<1>1. UNCHANGED <<lists, conns, at, client, it, r, due, served, back>>
  BY DEF Start
<1>2. Shrunk
  BY <1>1, TypesOfLists, UnchangedShrinks
<1>3. TypeOK'
  BY <1>1, ThreadKinds DEF TypeOK, Start, Go, lists, conns
<1>4. Except(s)
  BY <1>1 DEF TypeOK, Start, Go, Except, conns
<1>5. pc'[s] = "begin" /\ pc[s] = "idle" /\ pipe'[s] = p
  BY <1>1, ThreadKinds DEF TypeOK, Start, Go
<1>6. Role(s)'
  BY <1>1, <1>5, ThreadKinds DEF Role, Roles, Stage, Sending, Walking
<1> QED BY <1>2, <1>3, <1>4, <1>6, RolesStep, ThreadKinds DEF Shrunk

\* A thread that goes on sending keeps its stage.
LEMMA SendStage ==
  ASSUME NEW t \in Thread, pc[t] \in Sending, pc'[t] \in Sending, back'[t] = back[t]
  PROVE  Stage(t)' = Stage(t)
BY DEF Stage

\* The sender takes the first item.
LEMMA beginBase ==
  ASSUME BaseInv, NEW t \in Thread, begin(t)
  PROVE  BaseInv'
<1> USE DEF BaseInv
<1>1. /\ pc[t] = "begin" /\ pipe[t] \in Pipe /\ it[t] = Nil /\ Role(t)
  BY DEF begin, Roles, Role, Sending, Walking
<1>2. first[pipe[t]] \in Item \cup {Nil}
  BY <1>1 DEF TypeOK
<1>3. Shrunk
  BY <1>1, TypesOfLists, HoldFacts DEF begin
<1>4. TypeOK'
  <2>1. due' \in [Thread -> SUBSET Conn] /\ served' \in [Thread -> SUBSET Conn]
    BY DEF begin, TypeOK
  <2> QED BY <1>3, <2>1 DEF TypeOK, begin, Go, conns, Shrunk, ListTypes, Firsts, Links, Holds
<1>5. Except(t)
  BY DEF Except, begin, Go, conns, TypeOK
<1>6. /\ pc'[t] = IF first[pipe[t]] = Nil THEN "sent" ELSE "get"
      /\ it'[t] = first[pipe[t]]
      /\ UNCHANGED <<back, client, pipe, asked, at>>
  BY DEF begin, Go, conns, TypeOK
<1>7. Stage(t)' = Stage(t)
  BY <1>1, <1>6, SendStage DEF Sending
<1>8. Role(t)'
  BY <1>1, <1>6, <1>7 DEF Role, Request, Sending, Walking
<1> QED BY <1>3, <1>4, <1>5, <1>8, RolesStep DEF Shrunk

\* The sender looks the descriptor up.
LEMMA getBase ==
  ASSUME BaseInv, NEW t \in Thread, get(t)
  PROVE  BaseInv'
<1> USE DEF BaseInv
<1> DEFINE c == IF data[it[t]] = Closed THEN None ELSE map_index[data[it[t]]]
<1>1. /\ pc[t] = "get" /\ it[t] \in Item /\ Role(t)
  BY DEF get, Roles, Role, Sending, Walking, TypeOK
<1>2. c \in Conn \cup {None}
  BY <1>1 DEF TypeOK
<1>3. /\ r' = [r EXCEPT ![t] = c]
      /\ pc' = [pc EXCEPT ![t] = IF c = None THEN "erase" ELSE "message"]
      /\ UNCHANGED <<lists, conns, at, client, pipe, it, due, served, back>>
  BY DEF get, Go
<1> HIDE DEF c
<1>4. Shrunk
  BY <1>3, TypesOfLists, UnchangedShrinks
<1>5. TypeOK'
  BY <1>2, <1>3 DEF TypeOK, lists, conns
<1>6. Except(t)
  BY <1>3 DEF Except, conns, TypeOK
<1>7. /\ pc'[t] = IF c = None THEN "erase" ELSE "message"
      /\ r'[t] = c
  BY <1>3 DEF TypeOK
<1>8. Stage(t)' = Stage(t)
  BY <1>1, <1>3, <1>7, SendStage DEF Sending
<1>9. Role(t)'
  BY <1>1, <1>2, <1>3, <1>7, <1>8 DEF Role, Request, Sending, Walking, conns
<1> QED BY <1>4, <1>5, <1>6, <1>9, RolesStep DEF Shrunk

\* The sender writes to the connection.
LEMMA messageBase ==
  ASSUME BaseInv, NEW t \in Thread, message(t)
  PROVE  BaseInv'
<1> USE DEF BaseInv
<1>1. /\ pc[t] = "message" /\ r[t] \in Conn /\ Role(t)
  BY DEF message, Roles, Role
<1>2. /\ pc' = [pc EXCEPT ![t] = "next"] /\ r' = [r EXCEPT ![t] = None]
      /\ UNCHANGED <<lists, conns, at, client, pipe, it, due, back>>
  BY DEF message, Go
<1>3. Shrunk
  BY <1>2, TypesOfLists, UnchangedShrinks
<1>4. served' \in [Thread -> SUBSET Conn]
  BY <1>1 DEF message, TypeOK
<1>5. TypeOK'
  BY <1>2, <1>4 DEF TypeOK, lists, conns
<1>6. Except(t)
  BY <1>2 DEF Except, conns, TypeOK
<1>7. pc'[t] = "next"
  BY <1>2 DEF TypeOK
<1>8. Stage(t)' = Stage(t)
  BY <1>1, <1>2, <1>7, SendStage DEF Sending
<1>9. Role(t)'
  BY <1>1, <1>2, <1>7, <1>8 DEF Role, Request, Sending, Walking, conns
<1> QED BY <1>3, <1>5, <1>6, <1>9, RolesStep DEF Shrunk

\* The sender takes the descriptor from the list.
LEMMA eraseBase ==
  ASSUME BaseInv, NEW t \in Thread, erase(t)
  PROVE  BaseInv'
<1> USE DEF BaseInv
<1>1. /\ pc[t] = "erase" /\ pipe[t] \in Pipe /\ Role(t)
  BY DEF erase, Roles, Role, Sending
<1>2. /\ pc' = [pc EXCEPT ![t] = "next"]
      /\ remove(pipe[t], data[it[t]])
      /\ UNCHANGED <<conns, at, client, pipe, r, due, served, back>>
  BY DEF erase, Go
<1>3. Shrunk /\ it' = it
  BY <1>1, <1>2, TypesOfLists, RemoveFacts
<1>4. TypeOK'
  BY <1>2, <1>3 DEF TypeOK, conns, Shrunk, ListTypes, Firsts, Links, Holds
<1>5. Except(t)
  BY <1>2, <1>3 DEF Except, conns, TypeOK
<1>6. pc'[t] = "next"
  BY <1>2 DEF TypeOK
<1>7. Stage(t)' = Stage(t)
  BY <1>1, <1>2, <1>6, SendStage DEF Sending
<1>8. Role(t)'
  BY <1>1, <1>2, <1>3, <1>6, <1>7 DEF Role, Request, Sending, Walking, conns
<1> QED BY <1>3, <1>4, <1>5, <1>8, RolesStep DEF Shrunk

\* The sender goes on to the next item.
LEMMA NextBase ==
  ASSUME BaseInv, NEW t \in Thread, Next(t)
  PROVE  BaseInv'
<1> USE DEF BaseInv
<1>1. /\ pc[t] = "next" /\ it[t] \in Item /\ Role(t)
  BY DEF Next, Roles, Role, Sending, Walking, TypeOK
<1>2. next[it[t]] \in Item \cup {Nil}
  BY <1>1 DEF TypeOK
<1>3. Shrunk /\ it' = [it EXCEPT ![t] = next[it[t]]]
  BY <1>1, TypesOfLists, AdvanceFacts DEF Next
<1>4. /\ pc' = [pc EXCEPT ![t] = IF next[it[t]] = Nil THEN "sent" ELSE "get"]
      /\ UNCHANGED <<conns, at, client, pipe, r, due, served, back>>
  BY DEF Next, Go
<1>5. TypeOK'
  BY <1>3, <1>4 DEF TypeOK, conns, Shrunk, ListTypes, Firsts, Links, Holds
<1>6. Except(t)
  BY <1>3, <1>4 DEF Except, conns, TypeOK
<1>7. /\ pc'[t] = IF next[it[t]] = Nil THEN "sent" ELSE "get"
      /\ it'[t] = next[it[t]]
  BY <1>3, <1>4 DEF TypeOK
<1>8. Stage(t)' = Stage(t)
  BY <1>1, <1>4, <1>7, SendStage DEF Sending
<1>9. Role(t)'
  BY <1>1, <1>4, <1>7, <1>8 DEF Role, Request, Sending, Walking, conns
<1> QED BY <1>3, <1>5, <1>6, <1>9, RolesStep DEF Shrunk

\* The sender is at the end.
LEMMA sentBase ==
  ASSUME BaseInv, NEW t \in Thread, sent(t)
  PROVE  BaseInv'
<1> USE DEF BaseInv
<1>1. /\ pc[t] = "sent" /\ it[t] = Nil /\ Role(t)
      /\ back[t] \in {"idle", "unsub", "quit", "insert"}
  BY DEF sent, Roles, Role, Walking, TypeOK
<1>2. /\ pc' = [pc EXCEPT ![t] = back[t]] /\ pipe' = [pipe EXCEPT ![t] = None]
      /\ due' = [due EXCEPT ![t] = {}] /\ served' = [served EXCEPT ![t] = {}]
      /\ UNCHANGED <<lists, conns, at, client, it, r, back>>
  BY DEF sent, Go
<1>3. Shrunk
  BY <1>2, TypesOfLists, UnchangedShrinks
<1>4. TypeOK'
  <2>1. back[t] \in {"new", "idle", "unsub", "quit", "name", "insert", "begin", "get",
                     "message", "erase", "next", "sent", "leave", "offline", "reset",
                     "close", "gone"}
    BY <1>1
  <2> QED BY <1>2, <2>1 DEF TypeOK, lists, conns
<1>5. Except(t)
  BY <1>2 DEF Except, conns, TypeOK
<1>6. pc'[t] = back[t]
  BY <1>2 DEF TypeOK
<1>7. Stage(t)' = Stage(t)
  BY <1>1, <1>2, <1>6 DEF Stage, Sending
<1>8. Role(t)'
  BY <1>1, <1>2, <1>6, <1>7 DEF Role, Request, Sending, Walking, conns
<1> QED BY <1>3, <1>4, <1>5, <1>8, RolesStep DEF Shrunk

\* All steps.
LEMMA BaseStep ==
  ASSUME BaseInv, Step
  PROVE  BaseInv'
<1>1. ASSUME NEW c \in Conn,
             \/ Open(c) \/ ws_subscription(c) \/ insert(c) \/ hangup(c)
             \/ \E names \in Requests : subscription(c, names)
      PROVE  BaseInv'
  BY <1>1, OpenBase, ws_subscriptionBase, insertBase, hangupBase, subscriptionBase
<1>2. ASSUME NEW t \in Conn \cup Kicker,
             un_subscription(t) \/ deleteClientFromMap(t) \/ set_offline(t) \/ reset(t) \/ web_close(t)
      PROVE  BaseInv'
  BY <1>2, un_subscriptionBase, leavingBase
<1>3. ASSUME NEW t \in Thread, send_event_to_pipe(t)
      PROVE  BaseInv'
  BY <1>3, beginBase, getBase, messageBase, eraseBase, NextBase, sentBase DEF send_event_to_pipe
<1> QED BY <1>1, <1>2, <1>3, kickBase, StartBase DEF Step

\* The step that changes nothing.
LEMMA BaseStutter ==
  ASSUME BaseInv, UNCHANGED vars
  PROVE  BaseInv'
<1>1. Shrunk
  BY TypesOfLists, UnchangedShrinks DEF BaseInv, vars, lists
<1>2. \A t \in Thread : Role(t)'
  BY RoleStays DEF BaseInv, Roles, vars
<1> QED BY <1>1, <1>2 DEF BaseInv, TypeOK, Shrunk, Roles, vars

\* The initial states.
LEMMA BaseInit ==
  Init => BaseInv
<1> SUFFICES ASSUME Init PROVE BaseInv
  OBVIOUS
<1>1. MaxAsks \in Nat
  BY PipesAssumption
<1>2. TypeOK
  <2>1. asked \in [Conn -> UNION {[1..n -> Requests] : n \in 0..MaxAsks}]
    <3>1. <<>> \in [1..0 -> Requests]
      OBVIOUS
    <3>2. <<>> \in UNION {[1..n -> Requests] : n \in 0..MaxAsks}
      BY <1>1, <3>1
    <3> QED BY <3>2 DEF Init
  <2> QED BY <2>1, AtFacts, ThreadKinds DEF Init, TypeOK, NoSlots
<1>3. Graph
  BY NilIsNoItem DEF Init, Graph, Ends
<1>4. ASSUME NEW t \in Thread PROVE Role(t)
  BY ThreadKinds DEF Init, Role, Stage, Sending, Walking
<1> QED BY <1>2, <1>3, <1>4 DEF BaseInv, Roles

\* The lists never become circular, and every thread holds what its place in
\* the code says it holds.
THEOREM PipesTypes == Spec => []BaseInv
<1>1. BaseInv /\ [Step]_vars => BaseInv'
  BY BaseStep, BaseStutter
<1> QED BY BaseInit, <1>1, PTL DEF Spec

\* The types are right whatever is subscribed, sent, kicked and closed.
THEOREM PipesTypeOK == Spec => []TypeOK
<1>1. BaseInv => TypeOK
  BY DEF BaseInv
<1> QED BY PipesTypes, <1>1, PTL

-----------------------------------------------------------------------------
\* Connections, what they remember and the lists

\* Nobody closes the connection of another.
NoKicks == Kicker = {}

\* No request names a channel twice.
OwnNames == \A names \in Requests : \A i, j \in DOMAIN names : names[i] = names[j] => i = j

\* The stages of a connection that is in the map.
InMap == {"idle", "unsub", "name", "insert", "leave"}

\* The descriptor, the flag and the map agree with the stage of a connection.
SocketOf(c) ==
  /\ fd[c] = Closed <=> Stage(c) \in {"new", "gone"}
  /\ c \in isOnLine <=> Stage(c) \notin {"new", "quit", "close", "gone"}
  /\ Stage(c) \in InMap => map_index[fd[c]] = c
  /\ \A f \in Fd : map_index[f] = c => fd[c] = f /\ Stage(c) \in InMap

\* A descriptor belongs to one connection.
Unshared == \A c, d \in Conn : fd[c] = fd[d] /\ fd[c] # Closed => c = d

\* Channel i of the request is remembered.
Remembered(c, i) ==
  i \in DOMAIN Request(c) /\ subscriptions[c][i] = Request(c)[i]

\* The channels remembered are those of the last request that were handled.
SlotsOf(c) ==
  /\ \A i, j \in Slot : j < i /\ subscriptions[c][i] # None => subscriptions[c][j] # None
  /\ \A i \in Slot : subscriptions[c][i] # None => subscriptions[c][i] \in Asked(c)
  /\ Stage(c) = "name" =>
       \A i \in Slot : IF i < at[c] THEN Remembered(c, i) ELSE subscriptions[c][i] = None
  /\ Stage(c) = "insert" =>
       \A i \in Slot : IF i <= at[c] THEN Remembered(c, i) ELSE subscriptions[c][i] = None
  /\ Stage(c) \in {"new", "close"} => subscriptions[c] = NoSlots

\* Each is remembered once.
ApartOf(c) ==
  \A i, j \in Slot :
    subscriptions[c][i] = subscriptions[c][j] /\ subscriptions[c][i] # None => i = j

\* A connection in the list of a channel remembers the channel, and is yet to
\* leave it when it leaves.
ListedOf(c) ==
  \A p \in Pipe : \A i \in Entries(p) : data[i] = fd[c] /\ fd[c] # Closed =>
    \E j \in Slot :
      /\ subscriptions[c][j] = p
      /\ Stage(c) \in {"unsub", "quit"} => j >= at[c]
      /\ Stage(c) = "insert" => j < at[c]

\* The lists name open connections.
Owners ==
  \A p \in Pipe : \A i \in Entries(p) : data[i] # Closed /\ \E c \in Conn : fd[c] = data[i]

\* No descriptor comes twice on one way.
Distinct == \A i \in Item : \A j \in Chain(next[i], next) : data[j] = data[i] => data[i] = Closed

\* The items a sender is yet to come to, and whom it has given the event.
Rest(t) == IF pc[t] = "get" THEN Chain(it[t], next) ELSE Chain(next[it[t]], next)
Given(t) == served[t] \cup (IF pc[t] = "message" THEN {r[t]} ELSE {})

\* Whom a sender has given the event is not ahead of it under his descriptor.
WalkOf(t) ==
  pc[t] \in Walking =>
    /\ pc[t] = "message" => r[t] \notin served[t]
    /\ \A c \in Given(t) :
         /\ c \in Conn
         /\ Stage(c) # "new"
         /\ \A j \in Rest(t) : data[j] = fd[c] => fd[c] = Closed

\* What holds of the connections.
ConnInv ==
  /\ \A c \in Conn : SocketOf(c) /\ SlotsOf(c) /\ ApartOf(c)
  /\ Unshared

\* What holds of the lists.
ListInv ==
  /\ \A c \in Conn : ListedOf(c)
  /\ Owners
  /\ Distinct

\* What holds of the senders.
WalkInv == \A t \in Thread : WalkOf(t)

-----------------------------------------------------------------------------
\* What the steps leave alone

\* A step of c that changes nobody else.
Touches(c) ==
  /\ \A u \in Thread : u # c => pc'[u] = pc[u] /\ back'[u] = back[u] /\ at'[u] = at[u]
  /\ \A d \in Conn : d # c =>
       /\ fd'[d] = fd[d] /\ subscriptions'[d] = subscriptions[d] /\ asked'[d] = asked[d]
       /\ d \in isOnLine' <=> d \in isOnLine

\* A step of sending.
Sends ==
  /\ UNCHANGED <<conns, at, client>>
  /\ \A u \in Thread : Stage(u)' = Stage(u)

\* What is remembered depends on the connection only.
LEMMA SlotsStay ==
  ASSUME NEW d \in Conn, SlotsOf(d), ApartOf(d),
         Stage(d)' = Stage(d), at'[d] = at[d],
         subscriptions'[d] = subscriptions[d], asked'[d] = asked[d]
  PROVE  SlotsOf(d)' /\ ApartOf(d)'
<1>1. Request(d)' = Request(d) /\ Asked(d)' = Asked(d)
  BY DEF Request, Asked
<1> QED BY <1>1 DEF SlotsOf, ApartOf, Remembered

\* The agreement of descriptor and map depends on the connection and the map.
LEMMA SocketStays ==
  ASSUME NEW d \in Conn, SocketOf(d), Stage(d)' = Stage(d), fd'[d] = fd[d],
         d \in isOnLine' <=> d \in isOnLine, map_index' = map_index
  PROVE  SocketOf(d)'
BY DEF SocketOf

\* A step of c leaves the stage of the others,
LEMMA TouchedStage ==
  ASSUME NEW c \in Conn, Touches(c), NEW u \in Thread, u # c
  PROVE  Stage(u)' = Stage(u)
BY DEF Touches, Stage

\* and what they remember,
LEMMA TouchedSlots ==
  ASSUME ConnInv, NEW c \in Conn, Touches(c), NEW d \in Conn, d # c
  PROVE  SlotsOf(d)' /\ ApartOf(d)'
BY SlotsStay, TouchedStage, ThreadKinds DEF Touches, ConnInv

\* and, when the map stays, their sockets.
LEMMA TouchedSocket ==
  ASSUME ConnInv, NEW c \in Conn, Touches(c), NEW d \in Conn, d # c, map_index' = map_index
  PROVE  SocketOf(d)'
BY SocketStays, TouchedStage, ThreadKinds DEF Touches, ConnInv

\* When no descriptor changes, none is shared.
LEMMA UnsharedStays ==
  ASSUME Unshared, fd' = fd
  PROVE  Unshared'
BY DEF Unshared

\* A step of sending leaves the connections as they are.
LEMMA SendsConnInv ==
  ASSUME ConnInv, Sends
  PROVE  ConnInv'
<1>1. UNCHANGED <<map_index, fd, isOnLine, subscriptions, asked, at>>
  BY DEF Sends, conns
<1>2. \A d \in Conn : Stage(d)' = Stage(d)
  BY ThreadKinds DEF Sends
<1>3. \A d \in Conn : SocketOf(d)'
  BY <1>1, <1>2, SocketStays DEF ConnInv
<1>4. \A d \in Conn : SlotsOf(d)' /\ ApartOf(d)'
  BY <1>1, <1>2, SlotsStay DEF ConnInv
<1> QED BY <1>1, <1>3, <1>4, UnsharedStays DEF ConnInv

\* What each step of sending does to the variables it reads.
LEMMA SendsAll ==
  ASSUME BaseInv, NEW t \in Thread,
         send_event_to_pipe(t) \/ (t \in Sender /\ \E p \in Pipe : Start(t, p))
  PROVE  /\ Sends
         /\ Shrunk
         /\ \A u \in Thread : u # t =>
              /\ pc'[u] = pc[u] /\ it'[u] = it[u] /\ r'[u] = r[u] /\ pipe'[u] = pipe[u]
              /\ due'[u] = due[u] /\ served'[u] = served[u]
<1> USE DEF BaseInv
<1>1. Role(t) /\ ListTypes
  BY TypesOfLists DEF Roles
<1>2. CASE begin(t)
  <2>1. pc[t] = "begin" /\ pc'[t] \in {"sent", "get"} /\ UNCHANGED back
    BY <1>2 DEF begin, Go, TypeOK
  <2>2. pipe[t] \in Pipe /\ it[t] = Nil
    BY <1>1, <2>1 DEF Role, Sending, Walking
  <2>3. Shrunk
    BY <1>1, <1>2, <2>2, HoldFacts DEF begin
  <2>4. Stage(t)' = Stage(t)
    BY <2>1, SendStage DEF Sending
  <2> QED BY <1>2, <2>3, <2>4 DEF begin, Go, TypeOK, Sends, Stage
<1>3. CASE get(t)
  <2>1. pc[t] = "get" /\ pc'[t] \in {"erase", "message"} /\ UNCHANGED <<lists, it, back>>
    BY <1>3 DEF get, Go, TypeOK
  <2>2. Stage(t)' = Stage(t)
    BY <2>1, SendStage DEF Sending
  <2>3. Shrunk
    BY <1>1, <2>1, UnchangedShrinks
  <2> QED BY <1>3, <2>2, <2>3 DEF get, Go, TypeOK, Sends, Stage
<1>4. CASE message(t)
  <2>1. pc[t] = "message" /\ pc'[t] = "next" /\ UNCHANGED <<lists, it, back>>
    BY <1>4 DEF message, Go, TypeOK
  <2>2. Stage(t)' = Stage(t)
    BY <2>1, SendStage DEF Sending
  <2>3. Shrunk
    BY <1>1, <2>1, UnchangedShrinks
  <2> QED BY <1>4, <2>2, <2>3 DEF message, Go, TypeOK, Sends, Stage
<1>5. CASE erase(t)
  <2>1. pc[t] = "erase" /\ pc'[t] = "next" /\ UNCHANGED back
    BY <1>5 DEF erase, Go, TypeOK
  <2>2. Stage(t)' = Stage(t)
    BY <2>1, SendStage DEF Sending
  <2>3. Shrunk /\ it' = it
    BY <1>1, <1>5, <2>1, RemoveFacts DEF erase, Role, Sending
  <2> QED BY <1>5, <2>2, <2>3 DEF erase, Go, TypeOK, Sends, Stage
<1>6. CASE Next(t)
  <2>1. pc[t] = "next" /\ pc'[t] \in {"sent", "get"} /\ UNCHANGED back
    BY <1>6 DEF Next, Go, TypeOK
  <2>2. Stage(t)' = Stage(t)
    BY <2>1, SendStage DEF Sending
  <2>3. it[t] \in Item
    BY <1>1, <2>1 DEF Role, Walking, TypeOK
  <2>4. Shrunk /\ it' = [it EXCEPT ![t] = next[it[t]]]
    BY <1>1, <1>6, <2>3, AdvanceFacts DEF Next
  <2> QED BY <1>6, <2>2, <2>4 DEF Next, Go, TypeOK, Sends, Stage
<1>7. CASE sent(t)
  <2>1. pc[t] = "sent" /\ pc'[t] = back[t] /\ UNCHANGED <<lists, it, back>>
    BY <1>7 DEF sent, Go, TypeOK
  <2>2. Stage(t)' = Stage(t)
    BY <2>1 DEF Stage, Sending, TypeOK
  <2>3. Shrunk
    BY <1>1, <2>1, UnchangedShrinks
  <2> QED BY <1>7, <2>2, <2>3 DEF sent, Go, TypeOK, Sends, Stage
<1>8. ASSUME t \in Sender, NEW p \in Pipe, Start(t, p)
      PROVE  /\ Sends /\ Shrunk
             /\ \A u \in Thread : u # t =>
                  /\ pc'[u] = pc[u] /\ it'[u] = it[u] /\ r'[u] = r[u] /\ pipe'[u] = pipe[u]
                  /\ due'[u] = due[u] /\ served'[u] = served[u]
  <2>1. pc[t] = "idle" /\ pc'[t] = "begin" /\ back[t] = "idle" /\ UNCHANGED <<lists, it, back>>
    BY <1>1, <1>8 DEF Start, Go, TypeOK, Role
  <2>2. Stage(t)' = Stage(t)
    BY <2>1 DEF Stage, Sending
  <2>3. Shrunk
    BY <1>1, <2>1, UnchangedShrinks
  <2> QED BY <1>8, <2>2, <2>3 DEF Start, Go, TypeOK, Sends, Stage
<1> QED BY <1>2, <1>3, <1>4, <1>5, <1>6, <1>7, <1>8 DEF send_event_to_pipe

-----------------------------------------------------------------------------
\* The connections: sockets and channels remembered

\* The places a thread may be at.
Places == {"new", "idle", "unsub", "quit", "name", "insert", "begin", "get", "message", "erase",
           "next", "sent", "leave", "offline", "reset", "close", "gone"}

\* The types the steps of a connection need.
LEMMA FieldTypes ==
  ASSUME BaseInv
  PROVE  /\ pc \in [Thread -> Places]
         /\ back \in [Thread -> {"idle", "unsub", "quit", "insert"}]
         /\ at \in [Thread -> 1..MaxSub + 1]
         /\ fd \in [Conn -> Fd \cup {Closed}]
         /\ map_index \in [Fd -> Conn \cup {None}]
         /\ subscriptions \in [Conn -> [Slot -> Pipe \cup {None}]]
         /\ asked = [d \in Conn |-> asked[d]]
         /\ None \notin Pipe
<1>1. asked \in [Conn -> UNION {[1..n -> Requests] : n \in 0..MaxAsks}]
  BY DEF BaseInv, TypeOK
<1>2. asked = [d \in Conn |-> asked[d]]
  BY <1>1
<1> QED BY <1>2, PipesAssumption DEF BaseInv, TypeOK, Places

\* Positions in a request are numbers.
LEMMA SlotNumbers ==
  /\ \A i \in Slot : i \in Nat
  /\ \A i \in 1..MaxSub + 1 : i \in Nat
  /\ MaxSub \in Nat
<1>1. MaxSub \in Nat
  BY PipesAssumption
<1> QED BY <1>1 DEF Slot

\* A connection that does not send is in the stage its thread is at.
LEMMA OwnStage ==
  ASSUME BaseInv, NEW c \in Conn, pc[c] \notin Sending
  PROVE  c \in Thread /\ Stage(c) = pc[c] /\ client[c] = c /\ Role(c)
BY ThreadKinds DEF Stage, BaseInv, Roles, Role

\* ConnInv is inductive: one lemma per action of a connection. A connection
\* is opened under a descriptor that nobody has.
LEMMA OpenConn ==
  ASSUME BaseInv, ConnInv, NEW c \in Conn, Open(c)
  PROVE  ConnInv' /\ Touches(c)
<1> DEFINE f == Min(Unused)
<1>1. /\ f \in Fd /\ \A d \in Conn : fd[d] # f
      /\ f # Closed
  <2>1. Unused \in SUBSET Nat /\ Unused # {} /\ Unused \subseteq Fd
    BY ItemsAreNumbers DEF Open, Unused
  <2>2. f \in Unused /\ f \in Nat
    BY <2>1, MinItem
  <2> QED BY <2>1, <2>2 DEF Unused, Closed
<1>2. /\ fd' = [fd EXCEPT ![c] = f] /\ map_index' = [map_index EXCEPT ![f] = c]
      /\ isOnLine' = isOnLine \cup {c} /\ pc' = [pc EXCEPT ![c] = "idle"]
      /\ UNCHANGED <<subscriptions, asked, at, back>>
  BY DEF Open, Go, send
<1> HIDE DEF f
<1>3. fd \in [Conn -> Fd \cup {Closed}] /\ map_index \in [Fd -> Conn \cup {None}]
      /\ pc[c] = "new" /\ c \in Thread /\ pc \in [Thread -> Places]
  BY FieldTypes, ThreadKinds DEF Open
<1>4. Touches(c)
  BY <1>2, <1>3 DEF Touches
<1>5. Stage(c) = "new" /\ Stage(c)' = "idle"
  BY <1>2, <1>3 DEF Stage, Sending
<1>6. SocketOf(c)'
  <2>1. \A g \in Fd : map_index[g] # c
    BY <1>5 DEF ConnInv, SocketOf, InMap
  <2> QED BY <1>1, <1>2, <1>3, <1>5, <2>1 DEF SocketOf, InMap
<1>7. SlotsOf(c)' /\ ApartOf(c)'
  BY <1>2, <1>5 DEF ConnInv, SlotsOf, ApartOf, Asked
<1>8. ASSUME NEW d \in Conn, d # c PROVE SocketOf(d)'
  <2>1. Stage(d)' = Stage(d) /\ fd'[d] = fd[d] /\ fd[d] # f /\ (d \in isOnLine' <=> d \in isOnLine)
    BY <1>1, <1>4, <1>8, TouchedStage, ThreadKinds DEF Touches
  <2>2. SocketOf(d)
    BY DEF ConnInv
  <2>3. Stage(d) \in InMap => fd[d] \in Fd
    BY <1>3, <2>2 DEF SocketOf, InMap
  <2>4. \A g \in Fd : map_index'[g] = IF g = f THEN c ELSE map_index[g]
    BY <1>1, <1>2, <1>3
  <2> QED BY <1>8, <2>1, <2>2, <2>3, <2>4 DEF SocketOf
<1>9. \A d \in Conn : d # c => SlotsOf(d)' /\ ApartOf(d)'
  BY <1>4, TouchedSlots
<1>10. Unshared'
  BY <1>1, <1>2, <1>3 DEF ConnInv, Unshared
<1> QED BY <1>4, <1>6, <1>7, <1>8, <1>9, <1>10 DEF ConnInv

\* A request replaces the one before, of which nothing is remembered.
LEMMA subscriptionConn ==
  ASSUME BaseInv, ConnInv, NEW c \in Conn, NEW names \in Requests, subscription(c, names)
  PROVE  ConnInv' /\ Touches(c)
<1>1. /\ asked' = [asked EXCEPT ![c] = Append(@, names)] /\ at' = [at EXCEPT ![c] = 1]
      /\ pc' = [pc EXCEPT ![c] = "unsub"]
      /\ UNCHANGED <<map_index, fd, isOnLine, subscriptions, back>>
  BY DEF subscription, Go
<1>2. /\ pc[c] = "idle" /\ c \in Thread /\ pc \in [Thread -> Places] /\ at \in [Thread -> 1..MaxSub+1]
      /\ asked[c] \in Seq(Requests) /\ asked = [d \in Conn |-> asked[d]]
  BY FieldTypes, ThreadKinds, AskedFacts DEF BaseInv, subscription
<1>3. Touches(c)
  BY <1>1, <1>2 DEF Touches
<1>4. Stage(c) = "idle" /\ Stage(c)' = "unsub"
  BY <1>1, <1>2 DEF Stage, Sending
<1>5. SocketOf(c)'
  BY <1>1, <1>4 DEF ConnInv, SocketOf, InMap
<1>6. Asked(c) \subseteq Asked(c)'
  <2>1. asked'[c] = Append(asked[c], names)
    BY <1>1, <1>2
  <2>2. Range(asked[c]) \subseteq Range(asked'[c])
    BY <1>2, <2>1 DEF Range
  <2> QED BY <2>2 DEF Asked
<1>7. SlotsOf(c)' /\ ApartOf(c)'
  BY <1>1, <1>4, <1>6 DEF ConnInv, SlotsOf, ApartOf
<1> QED BY <1>1, <1>3, <1>5, <1>7, TouchedSlots, TouchedSocket, UnsharedStays DEF ConnInv

\* One more channel is remembered, unless all of the request have been.
LEMMA ws_subscriptionConn ==
  ASSUME BaseInv, ConnInv, OwnNames, NEW c \in Conn, ws_subscription(c)
  PROVE  /\ ConnInv' /\ Touches(c)
         /\ Stage(c) = "name" /\ Stage(c)' \in {"idle", "leave", "insert"}
         /\ \A i \in Slot : i < at[c] =>
              subscriptions'[c][i] = subscriptions[c][i] /\ subscriptions[c][i] # None
         /\ \A i \in Slot : subscriptions'[c][i] # None =>
              \/ i < at[c]
              \/ i = at[c] /\ at'[c] = at[c] /\ Stage(c)' = "insert"
              \/ i = at[c] /\ subscriptions'[c][i] \in Private /\ c \in Guests
         /\ Stage(c)' = "insert" => at'[c] = at[c]
<1>1. /\ pc[c] = "name" /\ c \in Thread /\ Stage(c) = "name" /\ asked[c] # <<>>
      /\ at[c] \in 1..MaxSub + 1
  BY OwnStage DEF ws_subscription, Sending, BaseInv, TypeOK, Role, Stage
<1>2. /\ pc \in [Thread -> Places] /\ at \in [Thread -> 1..MaxSub + 1]
      /\ back \in [Thread -> {"idle", "unsub", "quit", "insert"}]
      /\ subscriptions \in [Conn -> [Slot -> Pipe \cup {None}]] /\ MaxSub \in Nat
      /\ None \notin Pipe
      /\ at[c] \in Nat
  BY <1>1, FieldTypes, SlotNumbers
<1>3. /\ Request(c) \in Requests
      /\ Len(Request(c)) \in 0..MaxSub /\ DOMAIN Request(c) = 1..Len(Request(c))
      /\ \A i \in DOMAIN Request(c) : Request(c)[i] \in Pipe /\ i \in Slot
      /\ \A i \in DOMAIN Request(c) : Request(c)[i] \in Asked(c)
  <2>1. Request(c) \in Requests /\ Request(c) \in Range(asked[c])
    BY <1>1, AskedFacts DEF BaseInv
  <2>2. \A i \in DOMAIN Request(c) : Request(c)[i] \in Asked(c)
    BY <2>1 DEF Asked, Range
  <2> QED BY <2>1, <2>2, NamesFacts
<1>4. SlotsOf(c) /\ ApartOf(c) /\ SocketOf(c)
  BY DEF ConnInv
<1>5. \A i \in Slot : IF i < at[c] THEN Remembered(c, i) ELSE subscriptions[c][i] = None
  BY <1>1, <1>4 DEF SlotsOf
<1>6. UNCHANGED <<map_index, fd, isOnLine, asked>>
  BY DEF ws_subscription
<1>7. Request(c)' = Request(c) /\ Asked(c)' = Asked(c)
  BY <1>6 DEF Request, Asked
<1>8. \A i \in Slot : i \in Nat
  BY SlotNumbers
<1>9. CASE at[c] > Len(Request(c))
  <2>1. /\ pc' = [pc EXCEPT ![c] = "idle"] /\ at' = [at EXCEPT ![c] = 1]
        /\ UNCHANGED <<subscriptions, back>>
    BY <1>9 DEF ws_subscription, Go
  <2>2. Touches(c)
    BY <1>2, <1>6, <2>1 DEF Touches
  <2>3. Stage(c)' = "idle"
    BY <1>1, <1>2, <2>1 DEF Stage, Sending
  <2>4. SocketOf(c)'
    BY <1>1, <1>4, <1>6, <2>3 DEF SocketOf, InMap
  <2>5. SlotsOf(c)' /\ ApartOf(c)'
    BY <1>4, <1>7, <2>1, <2>3 DEF SlotsOf, ApartOf
  <2>6. ConnInv'
    BY <1>6, <2>2, <2>4, <2>5, TouchedSlots, TouchedSocket, UnsharedStays DEF ConnInv
  <2>7. \A i \in Slot : /\ i < at[c] => subscriptions[c][i] # None
                        /\ subscriptions[c][i] # None => i < at[c]
    BY <1>2, <1>3, <1>5 DEF Remembered
  <2> QED BY <1>1, <2>1, <2>2, <2>3, <2>6, <2>7
<1>10. CASE ~(at[c] > Len(Request(c)))
  <2> DEFINE p == Request(c)[at[c]]
  <2>1. at[c] \in DOMAIN Request(c) /\ p \in Pipe /\ at[c] \in Slot /\ p \in Asked(c)
    BY <1>1, <1>3, <1>10
  <2>2. /\ subscriptions' = [subscriptions EXCEPT ![c][at[c]] = p]
        /\ UNCHANGED at
        /\ \/ /\ p \in Private /\ c \in Guests
              /\ pc' = [pc EXCEPT ![c] = "idle"] \/ pc' = [pc EXCEPT ![c] = "leave"]
              /\ UNCHANGED back
           \/ /\ pc' = [pc EXCEPT ![c] = "begin"]
              /\ back' = [back EXCEPT ![c] = "insert"]
           \/ /\ pc' = [pc EXCEPT ![c] = "insert"]
              /\ UNCHANGED back
    BY <1>10 DEF ws_subscription, Go
  <2> HIDE DEF p
  <2>3. Touches(c)
    BY <1>2, <1>6, <2>2 DEF Touches
  <2>4. \/ Stage(c)' \in {"idle", "leave"} /\ p \in Private /\ c \in Guests
        \/ Stage(c)' = "insert"
    BY <1>1, <1>2, <2>2 DEF Stage, Sending
  <2>5. SocketOf(c)'
    BY <1>1, <1>4, <1>6, <2>4 DEF SocketOf, InMap
  <2>6. \A i \in Slot : subscriptions'[c][i] = IF i = at[c] THEN p ELSE subscriptions[c][i]
    BY <1>2, <2>1, <2>2
  <2>7. \A i \in Slot : IF i < at[c] THEN Remembered(c, i) /\ subscriptions[c][i] # None
                                     ELSE subscriptions[c][i] = None
    BY <1>2, <1>3, <1>5, <1>8, <2>1 DEF Remembered
  <2>8. \A i \in Slot : IF i <= at[c] THEN Remembered(c, i)' ELSE subscriptions'[c][i] = None
    <3>1. ASSUME NEW i \in Slot, i = at[c] PROVE Remembered(c, i)' /\ i <= at[c]
      BY <1>2, <1>7, <2>1, <2>2, <2>6, <3>1 DEF Remembered, p
    <3>2. ASSUME NEW i \in Slot, i # at[c] PROVE Remembered(c, i) => Remembered(c, i)'
      BY <1>7, <2>6, <3>2 DEF Remembered
    <3>3. ASSUME NEW i \in Slot PROVE i <= at[c] => i < at[c] \/ i = at[c]
      BY <1>2, <1>8
    <3>4. ASSUME NEW i \in Slot PROVE ~(i <= at[c]) => i # at[c] /\ ~(i < at[c])
      BY <1>2, <1>8
    <3>5. ASSUME NEW i \in Slot PROVE i < at[c] => i # at[c]
      BY <1>2, <1>8
    <3>6. ASSUME NEW i \in Slot, i # at[c]
          PROVE  IF i <= at[c] THEN Remembered(c, i)' ELSE subscriptions'[c][i] = None
      BY <2>6, <2>7, <3>2, <3>3, <3>4, <3>5, <3>6
    <3> QED BY <3>1, <3>6
  <2>9. \A i \in Slot : subscriptions'[c][i] # None => i <= at[c]
    BY <1>2, <1>8, <2>8
  <2>10. SlotsOf(c)'
    <3>1. ASSUME NEW i \in Slot, NEW j \in Slot, j < i, subscriptions'[c][i] # None
          PROVE  subscriptions'[c][j] # None
      <4>1. i <= at[c] /\ j <= at[c] /\ j # at[c]
        BY <1>2, <1>8, <2>9, <3>1
      <4>2. j < at[c]
        BY <1>2, <1>8, <4>1
      <4> QED BY <2>6, <2>7, <4>1, <4>2
    <3>2. ASSUME NEW i \in Slot, subscriptions'[c][i] # None
          PROVE  subscriptions'[c][i] \in Asked(c)'
      BY <1>4, <1>7, <2>1, <2>6, <3>2 DEF SlotsOf
    <3> QED BY <2>2, <2>4, <2>8, <3>1, <3>2 DEF SlotsOf
  <2>11. ApartOf(c)'
    <3>1. ASSUME NEW i \in Slot, NEW j \in Slot, subscriptions'[c][i] = subscriptions'[c][j],
                 subscriptions'[c][i] # None
          PROVE  i = j
      <4>1. Remembered(c, i)' /\ Remembered(c, j)'
        BY <2>8, <2>9, <3>1
      <4> QED BY <1>3, <1>7, <3>1, <4>1 DEF Remembered, OwnNames
    <3> QED BY <3>1 DEF ApartOf
  <2>12. ConnInv'
    BY <1>6, <2>3, <2>5, <2>10, <2>11, TouchedSlots, TouchedSocket, UnsharedStays DEF ConnInv
  <2>13. \A i \in Slot : i < at[c] => i # at[c]
    BY <1>2, <1>8
  <2> QED BY <1>1, <2>1, <2>2, <2>3, <2>4, <2>6, <2>7, <2>12, <2>13
<1> QED BY <1>9, <1>10

\* Joining a list changes neither the socket nor what is remembered.
LEMMA insertConn ==
  ASSUME BaseInv, ConnInv, NEW c \in Conn, insert(c)
  PROVE  /\ ConnInv' /\ Touches(c)
         /\ Stage(c) = "insert" /\ Stage(c)' = "name"
         /\ at[c] \in Slot /\ Request(c)[at[c]] \in Pipe /\ fd[c] \in Fd
         /\ subscriptions[c][at[c]] = Request(c)[at[c]]
         /\ at'[c] = at[c] + 1
         /\ \A i \in Slot : subscriptions[c][i] # None => i <= at[c]
<1>1. /\ pc[c] = "insert" /\ c \in Thread /\ Stage(c) = "insert" /\ asked[c] # <<>>
      /\ at[c] \in DOMAIN Request(c)
  BY OwnStage DEF insert, Sending, BaseInv, Role, Stage
<1>2. /\ pc' = [pc EXCEPT ![c] = "name"] /\ at' = [at EXCEPT ![c] = @ + 1]
      /\ UNCHANGED <<conns, back>>
  BY DEF insert, Go
<1>3. UNCHANGED <<map_index, fd, isOnLine, subscriptions, asked, back>>
  BY <1>2 DEF conns
<1>4. /\ pc \in [Thread -> Places] /\ at \in [Thread -> 1..MaxSub + 1]
      /\ fd \in [Conn -> Fd \cup {Closed}]
      /\ subscriptions \in [Conn -> [Slot -> Pipe \cup {None}]]
      /\ at[c] \in Nat
  BY <1>1, FieldTypes, SlotNumbers
<1>5. at[c] \in Slot /\ Request(c)[at[c]] \in Pipe
  BY <1>1, AskedFacts, NamesFacts DEF BaseInv
<1>6. Touches(c)
  BY <1>2, <1>3, <1>4 DEF Touches
<1>7. Stage(c)' = "name" /\ at'[c] = at[c] + 1
  BY <1>1, <1>2, <1>4 DEF Stage, Sending
<1>8. SlotsOf(c) /\ ApartOf(c) /\ SocketOf(c)
  BY DEF ConnInv
<1>9. SocketOf(c)'
  BY <1>1, <1>3, <1>7, <1>8 DEF SocketOf, InMap
<1>10. \A i \in Slot : IF i <= at[c] THEN Remembered(c, i) ELSE subscriptions[c][i] = None
  BY <1>1, <1>8 DEF SlotsOf
<1>11. Request(c)' = Request(c) /\ Asked(c)' = Asked(c)
  BY <1>3 DEF Request, Asked
<1>12. SlotsOf(c)' /\ ApartOf(c)'
  <2>1. \A i \in Slot : i < at[c] + 1 <=> i <= at[c]
    BY <1>4, SlotNumbers
  <2> QED BY <1>3, <1>7, <1>8, <1>10, <1>11, <2>1 DEF SlotsOf, ApartOf, Remembered
<1>13. ConnInv'
  BY <1>3, <1>6, <1>9, <1>12, TouchedSlots, TouchedSocket, UnsharedStays DEF ConnInv
<1>14. fd[c] \in Fd
  BY <1>1, <1>4, <1>8 DEF SocketOf
<1>15. at[c] <= at[c]
  BY <1>4
<1>16. subscriptions[c][at[c]] = Request(c)[at[c]]
  BY <1>5, <1>10, <1>15 DEF Remembered
<1> QED BY <1>1, <1>5, <1>6, <1>7, <1>10, <1>13, <1>14, <1>16

\* Another channel is left, or nothing is left to leave.
LEMMA un_subscriptionConn ==
  ASSUME BaseInv, ConnInv, NEW c \in Conn, un_subscription(c)
  PROVE  /\ ConnInv' /\ Touches(c)
         /\ Stage(c) \in {"unsub", "quit"} /\ fd[c] \in Fd
         /\ UNCHANGED fd
         /\ \/ /\ at[c] \in Slot /\ subscriptions[c][at[c]] \in Pipe
               /\ remove(subscriptions[c][at[c]], fd[c])
               /\ at'[c] = at[c] + 1 /\ subscriptions' = subscriptions
               /\ Stage(c)' = Stage(c)
            \/ /\ UNCHANGED <<lists, it>>
               /\ \A i \in Slot : i >= at[c] => subscriptions[c][i] = None
               /\ subscriptions'[c] = NoSlots
               /\ Stage(c)' \in {"name", "close"}
<1>1. /\ pc[c] \in {"unsub", "quit"} /\ c \in Thread /\ Stage(c) = pc[c] /\ client[c] = c
      /\ at[c] \in 1..MaxSub + 1 /\ at[c] \in Nat
  BY OwnStage, FieldTypes, SlotNumbers DEF un_subscription, Sending
<1>2. SlotsOf(c) /\ ApartOf(c) /\ SocketOf(c)
  BY DEF ConnInv
<1>3. UNCHANGED <<map_index, fd, isOnLine, asked>>
  BY DEF un_subscription
<1>4. fd[c] \in Fd
  BY <1>1, <1>2, FieldTypes DEF SocketOf
<1>5. Request(c)' = Request(c) /\ Asked(c)' = Asked(c)
  BY <1>3 DEF Request, Asked
<1>6. CASE Unsubscribing(c)
  <2>1. /\ at[c] \in Slot /\ subscriptions[c][at[c]] \in Pipe
        /\ remove(subscriptions[c][at[c]], fd[c])
        /\ at' = [at EXCEPT ![c] = @ + 1] /\ subscriptions' = subscriptions
        /\ \/ pc' = [pc EXCEPT ![c] = "begin"] /\ back' = [back EXCEPT ![c] = pc[c]]
           \/ UNCHANGED <<pc, back>>
    BY <1>1, <1>6, FieldTypes DEF un_subscription, Unsubscribing, Go
  <2>2. Touches(c)
    BY <1>3, <2>1, FieldTypes DEF Touches
  <2>3. Stage(c)' = Stage(c) /\ at'[c] = at[c] + 1
    BY <1>1, <2>1, FieldTypes DEF Stage, Sending
  <2>4. SocketOf(c)'
    BY <1>2, <1>3, <2>3 DEF SocketOf
  <2>5. SlotsOf(c)' /\ ApartOf(c)'
    BY <1>1, <1>2, <1>5, <2>1, <2>3 DEF SlotsOf, ApartOf
  <2>6. ConnInv'
    BY <1>3, <2>2, <2>4, <2>5, TouchedSlots, TouchedSocket, UnsharedStays DEF ConnInv
  <2> QED BY <1>1, <1>3, <1>4, <2>1, <2>2, <2>3, <2>6
<1>7. CASE ~Unsubscribing(c)
  <2>1. /\ subscriptions' = [subscriptions EXCEPT ![c] = NoSlots]
        /\ at' = [at EXCEPT ![c] = 1]
        /\ pc' = [pc EXCEPT ![c] = IF pc[c] = "unsub" THEN "name" ELSE "close"]
        /\ UNCHANGED <<lists, it, back>>
    BY <1>1, <1>7 DEF un_subscription, Go
  <2>2. Touches(c)
    BY <1>3, <2>1, FieldTypes DEF Touches
  <2>3. /\ subscriptions'[c] = NoSlots /\ at'[c] = 1
        /\ Stage(c)' = IF pc[c] = "unsub" THEN "name" ELSE "close"
    BY <1>1, <2>1, FieldTypes DEF Stage, Sending
  <2>4. SocketOf(c)'
    BY <1>1, <1>2, <1>3, <2>3 DEF SocketOf, InMap
  <2>5. \A i \in Slot : subscriptions'[c][i] = None /\ ~(i < 1)
    BY <2>3, SlotNumbers DEF NoSlots, Slot
  <2>6. SlotsOf(c)' /\ ApartOf(c)'
    BY <2>3, <2>5 DEF SlotsOf, ApartOf
  <2>7. ConnInv'
    BY <1>3, <2>2, <2>4, <2>6, TouchedSlots, TouchedSocket, UnsharedStays DEF ConnInv
  <2>8. ASSUME NEW i \in Slot, i >= at[c] PROVE subscriptions[c][i] = None
    <3>1. at[c] \in Slot
      BY <1>1, <2>8, SlotNumbers DEF Slot
    <3>2. subscriptions[c][at[c]] = None
      BY <1>1, <1>7, <3>1 DEF Unsubscribing
    <3>3. at[c] < i \/ at[c] = i
      BY <1>1, <2>8, SlotNumbers
    <3> QED BY <1>2, <3>1, <3>2, <3>3 DEF SlotsOf
  <2> QED BY <1>1, <1>3, <1>4, <2>1, <2>2, <2>3, <2>7, <2>8
<1> QED BY <1>6, <1>7

\* The client hangs up.
LEMMA hangupConn ==
  ASSUME BaseInv, ConnInv, NEW c \in Conn, hangup(c)
  PROVE  /\ ConnInv' /\ Touches(c)
         /\ Stage(c) = "idle" /\ Stage(c)' = "leave" /\ UNCHANGED <<conns, at>>
<1>1. UNCHANGED <<map_index, fd, isOnLine, subscriptions, asked, at, back, conns>>
  BY DEF hangup, conns
<1>2. pc[c] = "idle" /\ c \in Thread /\ pc' = [pc EXCEPT ![c] = "leave"]
  BY ThreadKinds DEF hangup, Go
<1>3. Stage(c) = "idle" /\ Stage(c)' = "leave"
  BY <1>2, FieldTypes DEF Stage, Sending
<1>4. Touches(c)
  BY <1>1, <1>2, FieldTypes DEF Touches
<1>5. SocketOf(c)' /\ SlotsOf(c)' /\ ApartOf(c)'
  BY <1>1, <1>3 DEF ConnInv, SocketOf, SlotsOf, ApartOf, InMap, Asked
<1> QED BY <1>1, <1>3, <1>4, <1>5, TouchedSlots, TouchedSocket, UnsharedStays DEF ConnInv

\* The steps in which a connection goes: none changes a list.
LEMMA leavingConn ==
  ASSUME BaseInv, ConnInv, NEW c \in Conn,
         deleteClientFromMap(c) \/ set_offline(c) \/ reset(c) \/ web_close(c)
  PROVE  /\ ConnInv' /\ Touches(c)
         /\ UNCHANGED <<lists, it, subscriptions>>
         /\ Stage(c) \in {"leave", "offline", "reset", "close"}
         /\ Stage(c)' \in {"offline", "reset", "quit", "close", "gone"}
         /\ Stage(c)' = "quit" => at'[c] = 1
         /\ IF Stage(c) = "close" THEN fd'[c] = Closed ELSE fd'[c] = fd[c]
         /\ \A f \in Fd : map_index'[f] = map_index[f] \/ map_index'[f] = None
<1>1. /\ c \in Thread /\ client[c] = c /\ Stage(c) = pc[c]
      /\ pc[c] \in {"leave", "offline", "reset", "close"}
  BY OwnStage DEF deleteClientFromMap, set_offline, reset, web_close, Sending
<1>2. SlotsOf(c) /\ ApartOf(c) /\ SocketOf(c)
  BY DEF ConnInv
<1>3. UNCHANGED <<lists, it, subscriptions, asked, back>>
  BY DEF deleteClientFromMap, set_offline, reset, web_close, conns, send
<1>4. CASE deleteClientFromMap(c)
  <2>1. /\ pc[c] = "leave" /\ pc' = [pc EXCEPT ![c] = "offline"]
        /\ map_index' = [f \in Fd |-> IF f = fd[c] THEN None ELSE map_index[f]]
        /\ UNCHANGED <<fd, isOnLine, at>>
    BY <1>1, <1>4 DEF deleteClientFromMap, Go
  <2>2. Touches(c)
    BY <1>3, <2>1, FieldTypes DEF Touches
  <2>3. Stage(c)' = "offline" /\ Stage(c) = "leave"
    BY <1>1, <2>1, FieldTypes DEF Stage, Sending
  <2>4. None \notin Conn
    BY PipesAssumption
  <2>5. SocketOf(c)'
    BY <1>2, <2>1, <2>3, <2>4 DEF SocketOf, InMap
  <2>6. SlotsOf(c)' /\ ApartOf(c)'
    BY <1>2, <1>3, <2>3 DEF SlotsOf, ApartOf, Asked
  <2>7. ASSUME NEW d \in Conn, d # c PROVE SocketOf(d)'
    <3>1. Stage(d)' = Stage(d) /\ fd'[d] = fd[d] /\ (d \in isOnLine' <=> d \in isOnLine)
      BY <2>2, <2>7, TouchedStage, ThreadKinds DEF Touches
    <3>2. SocketOf(d)
      BY DEF ConnInv
    <3>3. Stage(d) \in InMap => fd[d] \in Fd /\ fd[d] # fd[c]
      BY <2>7, <3>2, FieldTypes DEF SocketOf, InMap, ConnInv, Unshared
    <3> QED BY <2>1, <2>4, <3>1, <3>2, <3>3 DEF SocketOf
  <2>8. ConnInv'
    BY <2>1, <2>2, <2>5, <2>6, <2>7, TouchedSlots, UnsharedStays DEF ConnInv
  <2> QED BY <1>1, <1>3, <2>1, <2>2, <2>3, <2>8
<1>5. CASE set_offline(c)
  <2>1. /\ pc[c] = "offline"
        /\ pc' = [pc EXCEPT ![c] = IF fd[c] = Closed THEN "gone"
                                   ELSE IF c \in isOnLine THEN "reset" ELSE "close"]
        /\ UNCHANGED <<map_index, fd, isOnLine, at>>
    BY <1>1, <1>5 DEF set_offline, Leave, Go, conns
  <2>2. Touches(c)
    BY <1>3, <2>1, FieldTypes DEF Touches
  <2>3. fd[c] # Closed /\ c \in isOnLine
    BY <1>1, <1>2, <2>1 DEF SocketOf
  <2>4. Stage(c)' = "reset" /\ Stage(c) = "offline"
    BY <1>1, <2>1, <2>3, FieldTypes DEF Stage, Sending
  <2>5. SocketOf(c)'
    BY <1>2, <2>1, <2>4 DEF SocketOf, InMap
  <2>6. SlotsOf(c)' /\ ApartOf(c)'
    BY <1>2, <1>3, <2>4 DEF SlotsOf, ApartOf, Asked
  <2>7. ConnInv'
    BY <2>1, <2>2, <2>5, <2>6, TouchedSlots, TouchedSocket, UnsharedStays DEF ConnInv
  <2> QED BY <1>1, <1>3, <2>1, <2>2, <2>4, <2>7
<1>6. CASE reset(c)
  <2>1. /\ pc[c] = "reset" /\ pc' = [pc EXCEPT ![c] = "quit"]
        /\ isOnLine' = isOnLine \ {c} /\ at' = [at EXCEPT ![c] = 1]
        /\ UNCHANGED <<map_index, fd>>
    BY <1>1, <1>6 DEF reset, Go
  <2>2. Touches(c)
    BY <1>3, <2>1, FieldTypes DEF Touches
  <2>3. Stage(c)' = "quit" /\ Stage(c) = "reset" /\ at'[c] = 1
    BY <1>1, <2>1, FieldTypes DEF Stage, Sending
  <2>4. SocketOf(c)'
    BY <1>2, <2>1, <2>3 DEF SocketOf, InMap
  <2>5. SlotsOf(c)' /\ ApartOf(c)'
    BY <1>2, <1>3, <2>3 DEF SlotsOf, ApartOf, Asked
  <2>6. ConnInv'
    BY <2>1, <2>2, <2>4, <2>5, TouchedSlots, TouchedSocket, UnsharedStays DEF ConnInv
  <2> QED BY <1>1, <1>3, <2>1, <2>2, <2>3, <2>6
<1>7. CASE web_close(c)
  <2>1. /\ pc[c] = "close" /\ pc' = [pc EXCEPT ![c] = "gone"]
        /\ fd' = [fd EXCEPT ![c] = Closed]
        /\ UNCHANGED <<map_index, isOnLine, at>>
    BY <1>1, <1>7 DEF web_close, Leave, Go
  <2>2. Touches(c)
    BY <1>3, <2>1, FieldTypes DEF Touches
  <2>3. Stage(c)' = "gone" /\ Stage(c) = "close" /\ fd'[c] = Closed
    BY <1>1, <2>1, FieldTypes DEF Stage, Sending
  <2>4. SocketOf(c)'
    BY <1>2, <2>1, <2>3 DEF SocketOf, InMap
  <2>5. SlotsOf(c)' /\ ApartOf(c)'
    BY <1>2, <1>3, <2>3 DEF SlotsOf, ApartOf, Asked
  <2>6. Unshared'
    BY <2>1, FieldTypes DEF ConnInv, Unshared
  <2>7. ConnInv'
    BY <2>1, <2>2, <2>4, <2>5, <2>6, TouchedSlots, TouchedSocket DEF ConnInv
  <2> QED BY <1>1, <1>3, <2>1, <2>2, <2>3, <2>7
<1> QED BY <1>4, <1>5, <1>6, <1>7

-----------------------------------------------------------------------------
\* The lists of the channels

\* Of two items on one way, one leads to the other.
LEMMA ChainLinear ==
  ASSUME NEW n \in Links, Ends(n), NEW i \in Item \cup {Nil},
         NEW j \in Chain(i, n), NEW k \in Chain(i, n), j # k
  PROVE  k \in Chain(n[j], n) \/ j \in Chain(n[k], n)
<1> DEFINE Apart(a) == \E x, y \in Chain(a, n) :
                         x # y /\ y \notin Chain(n[x], n) /\ x \notin Chain(n[y], n)
           Worse == {a \in Item : Apart(a)}
<1>1. Chain(i, n) \subseteq Item
  BY ChainOfItems
<1>2. i # Nil
  BY ChainEquation
<1>3. Worse = {}
  <2>1. SUFFICES ASSUME Worse # {} PROVE FALSE
    OBVIOUS
  <2>2. PICK a \in Worse : n[a] \notin Worse
    BY <2>1 DEF Ends
  <2>3. Chain(a, n) = {a} \cup Chain(n[a], n)
    BY ChainEquation, NilIsNoItem
  <2>4. n[a] = Nil => Chain(n[a], n) = {}
    BY ChainEquation
  <2>5. ~Apart(n[a])
    BY <2>2, <2>4 DEF Links
  <2> QED BY <2>2, <2>3, <2>5
<1> QED BY <1>2, <1>3

\* The entries of a list are live, and in one order.
LEMMA EntriesFacts ==
  ASSUME BaseInv, NEW p \in Pipe
  PROVE  /\ Entries(p) \subseteq Item /\ Entries(p) \subseteq Live(first, next, it)
         /\ \A j, k \in Entries(p) : j # k =>
              k \in Chain(next[j], next) \/ j \in Chain(next[k], next)
<1>1. /\ next \in Links /\ Ends(next) /\ first \in Firsts /\ it \in Holds
      /\ first[p] \in Item \cup {Nil}
  BY TypesOfLists DEF BaseInv, Graph, ListTypes, Firsts
<1>2. Entries(p) \subseteq Item
  BY <1>1, ChainOfItems DEF Entries
<1>3. Entries(p) \subseteq Live(first, next, it)
  BY LiveMembers DEF Entries
<1> QED BY <1>1, <1>2, <1>3, ChainLinear DEF Entries

\* An item points only to what exists.
LEMMA BehindFacts ==
  ASSUME BaseInv, NEW i \in Item, NEW j \in Chain(next[i], next)
  PROVE  i \in Live(first, next, it) /\ j \in Live(first, next, it) /\ j \in Item
<1>1. next \in Links /\ Ends(next) /\ first \in Firsts /\ it \in Holds
  BY TypesOfLists DEF BaseInv, Graph, ListTypes
<1>2. i \in Live(first, next, it)
  <2>1. next[i] # Nil
    BY <1>1, ChainEquation
  <2> QED BY <2>1 DEF BaseInv, Graph
<1>3. next[i] \in Live(first, next, it) \cup {Nil}
  BY <1>1, <1>2, LiveFacts DEF ClosedUnder
<1> QED BY <1>1, <1>2, <1>3, LiveFacts

\* Nothing points to what has been deleted.
Reachable ==
  /\ \A p \in Pipe : Entries(p) \subseteq Live(first, next, it)
  /\ \A i \in Item : \A j \in Chain(next[i], next) :
       i \in Live(first, next, it) /\ j \in Live(first, next, it)
  /\ \A t \in Thread : it[t] \in Live(first, next, it) \cup {Nil}

\* This follows from the invariant.
LEMMA AllReachable == BaseInv => Reachable
<1> SUFFICES ASSUME BaseInv PROVE Reachable
  OBVIOUS
<1>1. next \in Links /\ Ends(next) /\ first \in Firsts /\ it \in Holds
  BY TypesOfLists DEF BaseInv, Graph, ListTypes
<1>2. \A t \in Thread : it[t] \in Live(first, next, it) \cup {Nil}
  BY <1>1, LiveFacts
<1> QED BY <1>2, EntriesFacts, BehindFacts DEF Reachable

\* What is still on a list, or behind an item, was there and is the same.
LEMMA ShrunkFacts ==
  ASSUME BaseInv, BaseInv', Shrunk
  PROVE  /\ \A p \in Pipe : \A i \in Entries(p)' : i \in Entries(p) /\ data'[i] = data[i]
         /\ \A i \in Item : \A j \in Chain(next'[i], next') :
              j \in Chain(next[i], next) /\ data'[i] = data[i] /\ data'[j] = data[j]
<1>0. Reachable'
  BY AllReachable, PTL
<1>1. ASSUME NEW p \in Pipe, NEW i \in Entries(p)'
      PROVE  i \in Entries(p) /\ data'[i] = data[i]
  <2>1. Entries(p)' \subseteq Live(first, next, it)'
    BY <1>0 DEF Reachable
  <2> QED BY <2>1 DEF Shrunk
<1>2. ASSUME NEW i \in Item, NEW j \in Chain(next'[i], next')
      PROVE  j \in Chain(next[i], next) /\ data'[i] = data[i] /\ data'[j] = data[j]
  <2>1. i \in Live(first, next, it)' /\ j \in Live(first, next, it)'
    BY <1>0 DEF Reachable
  <2> QED BY <2>1 DEF Shrunk
<1> QED BY <1>1, <1>2

\* A connection whose entries only become fewer.
LEMMA ListedStays ==
  ASSUME NEW d \in Conn, ListedOf(d), fd'[d] = fd[d],
         Stage(d)' = Stage(d), at'[d] = at[d], subscriptions'[d] = subscriptions[d],
         \A p \in Pipe : \A i \in Entries(p)' :
           data'[i] = fd[d] /\ fd[d] # Closed => i \in Entries(p) /\ data[i] = fd[d]
  PROVE  ListedOf(d)'
BY DEF ListedOf

\* Lists that only become shorter name nobody new,
LEMMA OwnersStay ==
  ASSUME BaseInv, BaseInv', Shrunk, Owners, fd' = fd
  PROVE  Owners'
BY ShrunkFacts DEF Owners

\* and nobody twice.
LEMMA DistinctStays ==
  ASSUME BaseInv, BaseInv', Shrunk, Distinct
  PROVE  Distinct'
BY ShrunkFacts DEF Distinct

\* A step of c that only shortens lists is right for the others.
LEMMA TouchedListed ==
  ASSUME BaseInv, BaseInv', Shrunk, ListInv, NEW c \in Conn, Touches(c), NEW d \in Conn, d # c
  PROVE  ListedOf(d)'
<1>1. Stage(d)' = Stage(d)
  BY TouchedStage, ThreadKinds
<1>2. fd'[d] = fd[d] /\ at'[d] = at[d] /\ subscriptions'[d] = subscriptions[d]
  BY ThreadKinds DEF Touches
<1>3. \A p \in Pipe : \A i \in Entries(p)' : i \in Entries(p) /\ data'[i] = data[i]
  BY ShrunkFacts
<1> QED BY <1>1, <1>2, <1>3, ListedStays DEF ListInv

\* ListInv is inductive. A step of sending only shortens the lists.
LEMMA SendsListInv ==
  ASSUME BaseInv, BaseInv', Shrunk, ListInv, Sends
  PROVE  ListInv'
<1>1. UNCHANGED <<fd, subscriptions, at>> /\ \A d \in Conn : Stage(d)' = Stage(d)
  BY ThreadKinds DEF Sends, conns
<1>2. \A p \in Pipe : \A i \in Entries(p)' : i \in Entries(p) /\ data'[i] = data[i]
  BY ShrunkFacts
<1>3. \A d \in Conn : ListedOf(d)'
  BY <1>1, <1>2, ListedStays DEF ListInv
<1> QED BY <1>1, <1>3, OwnersStay, DistinctStays DEF ListInv

\* A descriptor that is given out is on no list.
LEMMA OpenList ==
  ASSUME BaseInv, BaseInv', ListInv, ConnInv, NEW c \in Conn, Open(c)
  PROVE  ListInv'
<1>1. Touches(c) /\ Shrunk
  BY OpenConn, TypesOfLists, UnchangedShrinks DEF BaseInv, Open, send
<1>2. \A p \in Pipe : \A i \in Entries(p)' : i \in Entries(p) /\ data'[i] = data[i]
  BY <1>1, ShrunkFacts
<1>3. Stage(c) = "new" /\ fd[c] = Closed
  BY OwnStage DEF Open, Sending, ConnInv, SocketOf
<1>4. \A d \in Conn : fd'[c] # fd[d]
  <2>1. Unused \in SUBSET Nat /\ Unused # {}
    BY ItemsAreNumbers DEF Open, Unused
  <2>2. Min(Unused) \in Unused
    BY <2>1, MinItem
  <2>3. fd'[c] = Min(Unused)
    BY FieldTypes DEF Open
  <2> QED BY <2>2, <2>3 DEF Unused
<1>5. ListedOf(c)'
  <2>1. \A p \in Pipe : \A i \in Entries(p)' : data'[i] # fd'[c]
    BY <1>2, <1>4 DEF ListInv, Owners
  <2> QED BY <2>1 DEF ListedOf
<1>6. Owners'
  BY <1>1, <1>2, <1>3 DEF ListInv, Owners, Touches
<1> QED BY <1>1, <1>5, <1>6, TouchedListed, DistinctStays DEF ListInv

\* A request arrives: no entry is left of the one before.
LEMMA subscriptionList ==
  ASSUME BaseInv, BaseInv', ListInv, ConnInv, NEW c \in Conn, NEW names \in Requests,
         subscription(c, names)
  PROVE  ListInv'
<1>1. Touches(c) /\ Shrunk
  BY subscriptionConn, TypesOfLists, UnchangedShrinks DEF BaseInv, subscription
<1>2. \A p \in Pipe : \A i \in Entries(p)' : i \in Entries(p) /\ data'[i] = data[i]
  BY <1>1, ShrunkFacts
<1>3. fd' = fd /\ subscriptions' = subscriptions /\ at'[c] = 1 /\ Stage(c)' = "unsub"
  BY FieldTypes, ThreadKinds DEF subscription, Go, Stage, Sending
<1>4. \A i \in Slot : i >= 1
  BY SlotNumbers DEF Slot
<1>5. ListedOf(c)'
  BY <1>2, <1>3, <1>4 DEF ListInv, ListedOf
<1> QED BY <1>1, <1>3, <1>5, TouchedListed, OwnersStay, DistinctStays DEF ListInv

\* The next channel of the request is remembered before it is joined.
LEMMA ws_subscriptionList ==
  ASSUME BaseInv, BaseInv', ListInv, ConnInv, OwnNames, NEW c \in Conn, ws_subscription(c)
  PROVE  ListInv'
<1>1. Shrunk /\ fd' = fd
  BY TypesOfLists, UnchangedShrinks DEF BaseInv, ws_subscription
<1>2. \A p \in Pipe : \A i \in Entries(p)' : i \in Entries(p) /\ data'[i] = data[i]
  BY <1>1, ShrunkFacts
<1>3. /\ Touches(c) /\ Stage(c) = "name" /\ Stage(c)' \in {"idle", "leave", "insert"}
      /\ \A i \in Slot : i < at[c] => subscriptions'[c][i] = subscriptions[c][i]
      /\ Stage(c)' = "insert" => at'[c] = at[c]
  BY ws_subscriptionConn
<1>4. \A i \in Slot : subscriptions[c][i] # None => i < at[c]
  BY <1>3 DEF ConnInv, SlotsOf
<1>5. \A p \in Pipe : p # None
  BY FieldTypes
<1>6. ListedOf(c)'
  BY <1>1, <1>2, <1>3, <1>4, <1>5 DEF ListInv, ListedOf
<1> QED BY <1>1, <1>3, <1>6, TouchedListed, OwnersStay, DistinctStays DEF ListInv

\* What a new item in front changes.
LEMMA JoinFacts ==
  ASSUME BaseInv, NEW p \in Pipe, NEW id \in Fd, append(p, id), Live(first, next, it) # Item
  PROVE  /\ it' = it
         /\ \A q \in Pipe : \A i \in Entries(q)' :
              \/ q = p /\ data'[i] = id
              \/ i \in Entries(q) /\ data'[i] = data[i]
         /\ \A q \in Pipe : \A i \in Entries(q) : i \in Entries(q)' /\ data'[i] = data[i]
         /\ \E i \in Entries(p)' : data'[i] = id
         /\ \A i \in Item : \A j \in Chain(next'[i], next') :
              \/ data'[i] = id /\ j \in Entries(p) /\ data'[j] = data[j]
              \/ j \in Chain(next[i], next) /\ data'[i] = data[i] /\ data'[j] = data[j]
         /\ \A t \in Thread : it[t] # Nil =>
              /\ Chain(it[t], next') = Chain(it[t], next)
              /\ Chain(next'[it[t]], next') = Chain(next[it[t]], next)
              /\ data'[it[t]] = data[it[t]]
              /\ \A k \in Chain(it[t], next) : data'[k] = data[k]
<1> DEFINE live == Live(first, next, it)
<1>1. ListTypes /\ Graph /\ id \in Fd \cup {Closed}
  BY TypesOfLists DEF BaseInv
<1>2. PICK new \in Item :
           /\ new \notin live
           /\ it' = it
           /\ next'[new] = first[p] /\ data'[new] = id
           /\ \A k \in live : next'[k] = next[k] /\ data'[k] = data[k]
           /\ \A k \in Item : k \notin live /\ k # new =>
                next'[k] = Nil /\ data'[k] = Closed
           /\ \A a \in live \cup {Nil} : Chain(a, next') = Chain(a, next)
           /\ Entries(p)' = {new} \cup Entries(p)
           /\ \A q \in Pipe : q # p => Entries(q)' = Entries(q)
  BY <1>1, AppendFacts
<1>3. next \in Links /\ Ends(next) /\ first \in Firsts /\ it \in Holds
  BY <1>1 DEF Graph, ListTypes
<1>4. /\ first[p] \in live \cup {Nil}
      /\ \A k \in live : next[k] \in live \cup {Nil} /\ k \in Item
      /\ \A k \in live \cup {Nil} : Chain(k, next) \subseteq live
      /\ \A t \in Thread : it[t] \in live \cup {Nil}
  BY <1>3, LiveFacts DEF ClosedUnder
<1>5. \A q \in Pipe : Entries(q) \subseteq live
  BY EntriesFacts
<1>6. ASSUME NEW q \in Pipe, NEW i \in Entries(q)'
      PROVE  \/ q = p /\ data'[i] = id
             \/ i \in Entries(q) /\ data'[i] = data[i]
  <2>1. CASE q = p
    BY <1>2, <1>5, <1>6, <2>1
  <2>2. CASE q # p
    <3>1. i \in Entries(q)
      BY <1>2, <1>6, <2>2
    <3> QED BY <1>2, <1>5, <3>1
  <2> QED BY <2>1, <2>2
<1>7. ASSUME NEW q \in Pipe, NEW i \in Entries(q)
      PROVE  i \in Entries(q)' /\ data'[i] = data[i]
  <2>1. i \in live
    BY <1>5
  <2>2. i \in Entries(q)'
    <3>1. CASE q = p
      BY <1>2, <3>1
    <3>2. CASE q # p
      BY <1>2, <3>2
    <3> QED BY <3>1, <3>2
  <2> QED BY <1>2, <2>1, <2>2
<1>8. \E i \in Entries(p)' : data'[i] = id
  BY <1>2
<1>9. ASSUME NEW i \in Item, NEW j \in Chain(next'[i], next')
      PROVE  \/ data'[i] = id /\ j \in Entries(p) /\ data'[j] = data[j]
             \/ j \in Chain(next[i], next) /\ data'[i] = data[i] /\ data'[j] = data[j]
  <2>1. CASE i = new
    <3>1. j \in Entries(p)
      BY <1>2, <1>4, <1>9, <2>1 DEF Entries
    <3>2. j \in live
      BY <1>5, <3>1
    <3> QED BY <1>2, <2>1, <3>1, <3>2
  <2>2. CASE i \in live
    <3>1. next[i] \in live \cup {Nil} /\ next'[i] = next[i]
      BY <1>2, <1>4, <2>2
    <3>2. j \in Chain(next[i], next) /\ j \in live
      BY <1>2, <1>4, <1>9, <3>1
    <3> QED BY <1>2, <2>2, <3>2
  <2>3. CASE i # new /\ i \notin live
    <3>1. next'[i] = Nil
      BY <1>2, <2>3
    <3>2. Chain(Nil, next') = Chain(Nil, next) /\ Chain(Nil, next) = {}
      BY <1>2, <1>3, ChainEquation
    <3> QED BY <1>9, <3>1, <3>2
  <2> QED BY <2>1, <2>2, <2>3
<1>10. ASSUME NEW t \in Thread, it[t] # Nil
       PROVE  /\ Chain(it[t], next') = Chain(it[t], next)
              /\ Chain(next'[it[t]], next') = Chain(next[it[t]], next)
              /\ data'[it[t]] = data[it[t]]
              /\ \A k \in Chain(it[t], next) : data'[k] = data[k]
  <2>1. it[t] \in live
    BY <1>4, <1>10
  <2>2. next[it[t]] \in live \cup {Nil} /\ next'[it[t]] = next[it[t]]
    BY <1>2, <1>4, <2>1
  <2>3. \A k \in Chain(it[t], next) : k \in live
    BY <1>4, <2>1
  <2> HIDE DEF live
  <2> QED BY <1>2, <2>1, <2>2, <2>3
<1> QED BY <1>2, <1>6, <1>7, <1>8, <1>9, <1>10

\* A channel is joined once: the connection is not on its list yet.
LEMMA insertList ==
  ASSUME BaseInv, BaseInv', ListInv, ConnInv, NEW c \in Conn, insert(c)
  PROVE  ListInv'
<1> DEFINE p == Request(c)[at[c]]
<1>1. /\ Touches(c) /\ Stage(c) = "insert" /\ Stage(c)' = "name"
      /\ at[c] \in Slot /\ p \in Pipe /\ fd[c] \in Fd
      /\ subscriptions[c][at[c]] = p
      /\ at'[c] = at[c] + 1
  BY insertConn
<1>2. append(p, fd[c]) /\ Live(first, next, it) # Item /\ UNCHANGED <<fd, subscriptions>>
  BY DEF insert, conns
<1> HIDE DEF p
<1>3. /\ \A q \in Pipe : \A i \in Entries(q)' :
           \/ q = p /\ data'[i] = fd[c]
           \/ i \in Entries(q) /\ data'[i] = data[i]
      /\ \A i \in Item : \A j \in Chain(next'[i], next') :
           \/ data'[i] = fd[c] /\ j \in Entries(p) /\ data'[j] = data[j]
           \/ j \in Chain(next[i], next) /\ data'[i] = data[i] /\ data'[j] = data[j]
  BY <1>1, <1>2, JoinFacts
<1>4. fd[c] # Closed
  BY <1>1, ItemsAreNumbers DEF Closed
<1>5. \A k \in Entries(p) : data[k] # fd[c]
  <2>1. SUFFICES ASSUME NEW k \in Entries(p), data[k] = fd[c] PROVE FALSE
    OBVIOUS
  <2>2. PICK j \in Slot : subscriptions[c][j] = p /\ j < at[c]
    BY <1>1, <1>4, <2>1 DEF ListInv, ListedOf
  <2>3. j = at[c]
    BY <1>1, <2>2, FieldTypes DEF ConnInv, ApartOf
  <2> QED BY <1>1, <2>2, <2>3, SlotNumbers
<1>6. ASSUME NEW d \in Conn, d # c PROVE ListedOf(d)'
  <2>1. fd[d] # fd[c]
    BY <1>4, <1>6 DEF ConnInv, Unshared
  <2>2. Stage(d)' = Stage(d) /\ at'[d] = at[d]
    BY <1>1, <1>6, TouchedStage, ThreadKinds DEF Touches
  <2>3. ASSUME NEW q \in Pipe, NEW i \in Entries(q)', data'[i] = fd[d]
        PROVE  i \in Entries(q) /\ data[i] = fd[d]
    BY <1>3, <2>1, <2>3
  <2> QED BY <1>2, <2>2, <2>3, ListedStays DEF ListInv
<1>7. ListedOf(c)'
  <2>1. ASSUME NEW q \in Pipe, NEW i \in Entries(q)', data'[i] = fd[c]
        PROVE  \E j \in Slot : subscriptions[c][j] = q
    BY <1>1, <1>3, <1>4, <2>1 DEF ListInv, ListedOf
  <2> QED BY <1>1, <1>2, <2>1 DEF ListedOf
<1>8. Owners'
  BY <1>2, <1>3, <1>4 DEF ListInv, Owners
<1>9. Distinct'
  BY <1>3, <1>5 DEF ListInv, Distinct
<1> QED BY <1>6, <1>7, <1>8, <1>9 DEF ListInv

\* The only entry of the connection is taken from the list.
LEMMA un_subscriptionList ==
  ASSUME BaseInv, BaseInv', ListInv, ConnInv, NEW c \in Conn, un_subscription(c)
  PROVE  ListInv' /\ Shrunk
<1>1. /\ Touches(c) /\ fd[c] \in Fd /\ Stage(c) \in {"unsub", "quit"}
      /\ UNCHANGED fd
      /\ \/ /\ at[c] \in Slot /\ subscriptions[c][at[c]] \in Pipe
            /\ remove(subscriptions[c][at[c]], fd[c])
            /\ at'[c] = at[c] + 1 /\ subscriptions' = subscriptions
            /\ Stage(c)' = Stage(c)
         \/ /\ UNCHANGED <<lists, it>>
            /\ \A i \in Slot : i >= at[c] => subscriptions[c][i] = None
            /\ Stage(c)' \in {"name", "close"}
  BY un_subscriptionConn
<1>2. fd[c] # Closed
  BY <1>1, ItemsAreNumbers DEF Closed
<1>3. ListTypes /\ Graph
  BY TypesOfLists DEF BaseInv
<1>4. CASE /\ at[c] \in Slot /\ subscriptions[c][at[c]] \in Pipe
           /\ remove(subscriptions[c][at[c]], fd[c])
           /\ at'[c] = at[c] + 1 /\ subscriptions' = subscriptions
           /\ Stage(c)' = Stage(c)
  <2>0. PICK p \in Pipe : p = subscriptions[c][at[c]]
    BY <1>4
  <2>1. /\ Shrunk
        /\ \A k \in Entries(p)' : data[k] = fd[c] => \E j \in Entries(p) : j # k /\ data[j] = fd[c]
    <3>1. PICK id \in Fd : id = fd[c]
      BY <1>1
    <3>2. remove(p, id)
      BY <1>4, <2>0, <3>1
    <3> QED BY <1>3, <3>1, <3>2, RemoveFacts
  <2>2. \A q \in Pipe : \A i \in Entries(q)' : i \in Entries(q) /\ data'[i] = data[i]
    BY <2>1, ShrunkFacts
  <2>3. \A k \in Entries(p)' : data[k] # fd[c]
    <3>1. SUFFICES ASSUME NEW k \in Entries(p)', data[k] = fd[c] PROVE FALSE
      OBVIOUS
    <3>2. PICK j \in Entries(p) : j # k /\ data[j] = fd[c]
      BY <2>1, <3>1
    <3>3. k \in Entries(p) /\ j \in Item /\ k \in Item
      BY <2>2, <3>1, <3>2, EntriesFacts
    <3>4. k \in Chain(next[j], next) \/ j \in Chain(next[k], next)
      BY <3>2, <3>3, EntriesFacts
    <3> QED BY <1>2, <3>1, <3>2, <3>3, <3>4 DEF ListInv, Distinct
  <2>4. ListedOf(c)'
    <3>1. SUFFICES ASSUME NEW q \in Pipe, NEW i \in Entries(q)', data'[i] = fd[c]
                   PROVE  \E j \in Slot : subscriptions[c][j] = q /\ j >= at[c] + 1
      BY <1>1, <1>4 DEF ListedOf
    <3>2. i \in Entries(q) /\ data[i] = fd[c]
      BY <2>2, <3>1
    <3>3. PICK j \in Slot : subscriptions[c][j] = q /\ j >= at[c]
      BY <1>1, <1>2, <3>2 DEF ListInv, ListedOf
    <3>4. j # at[c]
      BY <2>3, <3>1, <3>2, <3>3, <2>0
    <3>5. j >= at[c] + 1
      BY <1>4, <3>3, <3>4, SlotNumbers
    <3> QED BY <3>3, <3>5
  <2> QED BY <1>1, <2>1, <2>4, TouchedListed, OwnersStay, DistinctStays DEF ListInv
<1>5. CASE /\ UNCHANGED <<lists, it>>
           /\ \A i \in Slot : i >= at[c] => subscriptions[c][i] = None
           /\ Stage(c)' \in {"name", "close"}
  <2>1. Shrunk
    BY <1>3, <1>5, UnchangedShrinks
  <2>2. \A q \in Pipe : \A i \in Entries(q)' : i \in Entries(q) /\ data'[i] = data[i]
    BY <2>1, ShrunkFacts
  <2>3. \A q \in Pipe : \A i \in Entries(q) : data[i] # fd[c]
    BY <1>1, <1>2, <1>5, FieldTypes DEF ListInv, ListedOf
  <2>4. ListedOf(c)'
    BY <1>1, <2>2, <2>3 DEF ListedOf
  <2> QED BY <1>1, <2>1, <2>4, TouchedListed, OwnersStay, DistinctStays DEF ListInv
<1> QED BY <1>1, <1>4, <1>5

\* The client hangs up.
LEMMA hangupList ==
  ASSUME BaseInv, BaseInv', ListInv, ConnInv, NEW c \in Conn, hangup(c)
  PROVE  ListInv'
<1>1. Touches(c) /\ Stage(c) = "idle" /\ Stage(c)' = "leave" /\ UNCHANGED <<fd, subscriptions>>
  BY hangupConn DEF conns
<1>2. Shrunk
  BY TypesOfLists, UnchangedShrinks DEF BaseInv, hangup
<1>3. \A p \in Pipe : \A i \in Entries(p)' : i \in Entries(p) /\ data'[i] = data[i]
  BY <1>2, ShrunkFacts
<1>4. ListedOf(c)'
  BY <1>1, <1>3 DEF ListInv, ListedOf
<1> QED BY <1>1, <1>2, <1>4, TouchedListed, OwnersStay, DistinctStays DEF ListInv

\* When the socket is closed nothing remembers it.
LEMMA leavingList ==
  ASSUME BaseInv, BaseInv', ListInv, ConnInv, NEW c \in Conn,
         deleteClientFromMap(c) \/ set_offline(c) \/ reset(c) \/ web_close(c)
  PROVE  ListInv' /\ Shrunk
<1>1. /\ ConnInv' /\ Touches(c)
      /\ UNCHANGED <<lists, it, subscriptions>>
      /\ Stage(c) \in {"leave", "offline", "reset", "close"}
      /\ Stage(c)' \in {"offline", "reset", "quit", "close", "gone"}
      /\ Stage(c)' = "quit" => at'[c] = 1
      /\ IF Stage(c) = "close" THEN fd'[c] = Closed ELSE fd'[c] = fd[c]
  BY leavingConn
<1>2. Shrunk
  BY <1>1, TypesOfLists, UnchangedShrinks DEF BaseInv
<1>3. \A p \in Pipe : \A i \in Entries(p)' : i \in Entries(p) /\ data'[i] = data[i]
  BY <1>2, ShrunkFacts
<1>4. \A i \in Slot : i >= 1
  BY SlotNumbers DEF Slot
<1>5. ListedOf(c)'
  BY <1>1, <1>3, <1>4 DEF ListInv, ListedOf
<1>6. Owners'
  <2>1. ASSUME NEW p \in Pipe, NEW i \in Entries(p)'
        PROVE  data'[i] # Closed /\ \E d \in Conn : fd'[d] = data'[i]
    <3>1. i \in Entries(p) /\ data'[i] = data[i] /\ data[i] # Closed
      BY <1>3, <2>1 DEF ListInv, Owners
    <3>2. PICK d \in Conn : fd[d] = data[i]
      BY <3>1 DEF ListInv, Owners
    <3>3. CASE d # c
      BY <1>1, <3>1, <3>2, <3>3 DEF Touches
    <3>4. CASE d = c /\ Stage(c) = "close"
      <4>1. PICK j \in Slot : subscriptions[c][j] = p
        BY <3>1, <3>2, <3>4 DEF ListInv, ListedOf
      <4>2. subscriptions[c] = NoSlots
        BY <3>4 DEF ConnInv, SlotsOf
      <4> QED BY <4>1, <4>2, FieldTypes DEF NoSlots
    <3>5. CASE d = c /\ Stage(c) # "close"
      BY <1>1, <3>1, <3>2, <3>5
    <3> QED BY <3>3, <3>4, <3>5
  <2> QED BY <2>1 DEF Owners
<1> QED BY <1>1, <1>2, <1>5, <1>6, TouchedListed, DistinctStays DEF ListInv

-----------------------------------------------------------------------------
\* The walks through the lists

\* What is to come for a thread that walks.
Ahead ==
  \A t \in Thread : pc[t] \in Walking =>
    /\ it[t] \in Item
    /\ Rest(t) = IF pc[t] = "get" THEN {it[t]} \cup Chain(next[it[t]], next)
                                  ELSE Chain(next[it[t]], next)

\* This follows from the invariant.
LEMMA AllAhead == BaseInv => Ahead
<1> SUFFICES ASSUME BaseInv, NEW t \in Thread, pc[t] \in Walking
             PROVE  /\ it[t] \in Item
                    /\ Rest(t) = IF pc[t] = "get" THEN {it[t]} \cup Chain(next[it[t]], next)
                                                  ELSE Chain(next[it[t]], next)
  BY DEF Ahead
<1>1. it[t] \in Item
  BY DEF BaseInv, TypeOK, Roles, Role
<1>2. next \in Links
  BY TypesOfLists DEF BaseInv, ListTypes
<1> QED BY <1>1, <1>2, ChainEquation, NilIsNoItem DEF Rest

\* A step that only shortens lists gives a thread nothing more to come to.
LEMMA RestShrinks ==
  ASSUME BaseInv, BaseInv', Shrunk, NEW t \in Thread, pc[t] \in Walking,
         pc'[t] = pc[t] \/ pc[t] = "get" \/ pc'[t] # "get", pc'[t] \in Walking, it'[t] = it[t]
  PROVE  \A j \in Rest(t)' : j \in Rest(t) /\ data'[j] = data[j]
<1>1. Ahead /\ Ahead' /\ Reachable'
  BY AllAhead, AllReachable, PTL
<1>2. it[t] \in Item /\ data'[it[t]] = data[it[t]]
  BY <1>1 DEF Ahead, Reachable, Shrunk, Item, Nil
<1>3. \A j \in Chain(next'[it[t]], next') : j \in Chain(next[it[t]], next) /\ data'[j] = data[j]
  BY <1>2, ShrunkFacts
<1> QED BY <1>1, <1>2, <1>3 DEF Ahead

\* A walk that others do not disturb.
LEMMA WalkStays ==
  ASSUME NEW t \in Thread, WalkOf(t),
         pc'[t] = pc[t], r'[t] = r[t], served'[t] = served[t],
         pc[t] \in Walking => \A j \in Rest(t)' : j \in Rest(t) /\ data'[j] = data[j],
         \A c \in Conn : Stage(c) # "new" =>
           Stage(c)' # "new" /\ (fd'[c] = fd[c] \/ fd'[c] = Closed)
  PROVE  WalkOf(t)'
<1>1. Given(t)' = Given(t)
  BY DEF Given
<1> QED BY <1>1 DEF WalkOf

\* A connection that does not send disturbs no sender when it adds nothing to
\* what is ahead of one.
LEMMA ConnWalk ==
  ASSUME BaseInv, BaseInv', WalkInv, NEW c \in Conn, Touches(c),
         pc'[c] \notin Walking, UNCHANGED <<it, r, served>>,
         Stage(c)' # "new", Stage(c) = "new" \/ fd'[c] = fd[c] \/ fd'[c] = Closed,
         \A u \in Thread : pc[u] \in Walking /\ pc'[u] = pc[u] =>
           \A j \in Rest(u)' : j \in Rest(u) /\ data'[j] = data[j]
  PROVE  WalkInv'
<1>1. WalkOf(c)'
  BY DEF WalkOf
<1>2. \A d \in Conn : Stage(d) # "new" =>
        Stage(d)' # "new" /\ (fd'[d] = fd[d] \/ fd'[d] = Closed)
  <2>1. \A d \in Conn : d # c => Stage(d)' = Stage(d) /\ fd'[d] = fd[d]
    BY TouchedStage, ThreadKinds DEF Touches
  <2> QED BY <2>1
<1>3. ASSUME NEW u \in Thread, u # c PROVE WalkOf(u)'
  <2>1. pc'[u] = pc[u]
    BY <1>3 DEF Touches
  <2> QED BY <1>2, <2>1, WalkStays DEF WalkInv
<1> QED BY <1>1, <1>3 DEF WalkInv

\* Nor has any other thread more to come to.
LEMMA RestsShrink ==
  ASSUME BaseInv, BaseInv', Shrunk, UNCHANGED it
  PROVE  \A u \in Thread : pc[u] \in Walking /\ pc'[u] = pc[u] =>
           \A j \in Rest(u)' : j \in Rest(u) /\ data'[j] = data[j]
BY RestShrinks

\* No step of a connection that does not send disturbs a walk.
LEMMA ConnsWalk ==
  ASSUME BaseInv, BaseInv', ConnInv, ListInv, WalkInv, OwnNames, NEW c \in Conn,
         \/ Open(c) \/ ws_subscription(c) \/ insert(c) \/ hangup(c) \/ un_subscription(c)
         \/ \E names \in Requests : subscription(c, names)
         \/ deleteClientFromMap(c) \/ set_offline(c) \/ reset(c) \/ web_close(c)
  PROVE  WalkInv'
<1>1. CASE Open(c)
  <2>1. Touches(c) /\ Shrunk /\ UNCHANGED <<it, r, served>>
    BY <1>1, OpenConn, TypesOfLists, UnchangedShrinks DEF BaseInv, Open, send
  <2>2. pc'[c] = "idle" /\ Stage(c) = "new" /\ Stage(c)' = "idle"
    BY <1>1, FieldTypes, ThreadKinds DEF Open, Go, Stage, Sending
  <2> QED BY <2>1, <2>2, RestsShrink, ConnWalk DEF Walking
<1>2. CASE ws_subscription(c)
  <2>1. Touches(c) /\ Stage(c)' \in {"idle", "leave", "insert"}
    BY <1>2, ws_subscriptionConn
  <2>2. Shrunk /\ UNCHANGED <<it, r, served, fd>>
    BY <1>2, TypesOfLists, UnchangedShrinks DEF BaseInv, ws_subscription
  <2>3. pc'[c] \in {"idle", "leave", "begin", "insert"}
    BY <1>2, FieldTypes, ThreadKinds DEF ws_subscription, Go
  <2> QED BY <2>1, <2>2, <2>3, RestsShrink, ConnWalk DEF Walking
<1>3. CASE insert(c)
  <2>1. /\ Touches(c) /\ Stage(c)' = "name" /\ Request(c)[at[c]] \in Pipe /\ fd[c] \in Fd
    BY <1>3, insertConn
  <2>2. UNCHANGED <<r, served, fd>> /\ pc'[c] = "name"
    BY <1>3, FieldTypes, ThreadKinds DEF insert, Go, conns
  <2>3. /\ it' = it
        /\ \A t \in Thread : it[t] # Nil =>
              /\ Chain(it[t], next') = Chain(it[t], next)
              /\ Chain(next'[it[t]], next') = Chain(next[it[t]], next)
              /\ data'[it[t]] = data[it[t]]
              /\ \A k \in Chain(it[t], next) : data'[k] = data[k]
    BY <1>3, <2>1, JoinFacts DEF insert
  <2>4. ASSUME NEW u \in Thread, pc[u] \in Walking, pc'[u] = pc[u], NEW j \in Rest(u)'
        PROVE  j \in Rest(u) /\ data'[j] = data[j]
    <3>1. it[u] \in Item /\ it[u] # Nil /\ next \in Links
      BY <2>4, NilIsNoItem, AllAhead, TypesOfLists DEF Ahead, BaseInv, ListTypes
    <3>2. j \in Rest(u)
      BY <2>3, <2>4, <3>1 DEF Rest
    <3>3. Rest(u) \subseteq Chain(it[u], next)
      BY <3>1, ChainEquation DEF Rest
    <3> QED BY <2>3, <3>1, <3>2, <3>3
  <2> QED BY <2>1, <2>2, <2>3, <2>4, ConnWalk DEF Walking
<1>4. CASE hangup(c)
  <2>1. Touches(c) /\ Stage(c)' = "leave" /\ UNCHANGED <<it, r, served, fd>>
    BY <1>4, hangupConn DEF hangup, conns
  <2>2. Shrunk
    BY <1>4, TypesOfLists, UnchangedShrinks DEF BaseInv, hangup
  <2>3. pc'[c] = "leave"
    BY <1>4, FieldTypes, ThreadKinds DEF hangup, Go
  <2> QED BY <2>1, <2>2, <2>3, RestsShrink, ConnWalk DEF Walking
<1>5. CASE un_subscription(c)
  <2>1. Touches(c) /\ Stage(c)' # "new" /\ UNCHANGED fd
    <3>1. Stage(c) \in {"unsub", "quit"} /\ (Stage(c)' = Stage(c) \/ Stage(c)' \in {"name", "close"})
      BY <1>5, un_subscriptionConn
    <3> QED BY <1>5, <3>1, un_subscriptionConn
  <2>2. Shrunk
    BY <1>5, un_subscriptionList
  <2>3. UNCHANGED <<r, served>> /\ pc'[c] \in {"unsub", "quit", "begin", "name", "close"}
    BY <1>5, FieldTypes, ThreadKinds DEF un_subscription, Go
  <2>4. UNCHANGED it
    <3>1. CASE UNCHANGED <<lists, it>>
      BY <3>1
    <3>2. CASE ~UNCHANGED <<lists, it>>
      <4>1. PICK p \in Pipe : remove(p, fd[c])
        BY <1>5, <3>2, un_subscriptionConn
      <4>2. PICK id \in Fd : id = fd[c]
        BY <1>5, un_subscriptionConn
      <4> QED BY <4>1, <4>2, TypesOfLists, RemoveFacts DEF BaseInv
    <3> QED BY <3>1, <3>2
  <2> QED BY <2>1, <2>2, <2>3, <2>4, RestsShrink, ConnWalk DEF Walking
<1>6. ASSUME NEW names \in Requests, subscription(c, names)
      PROVE  WalkInv'
  <2>1. Touches(c) /\ Shrunk /\ UNCHANGED <<it, r, served, fd>>
    BY <1>6, subscriptionConn, TypesOfLists, UnchangedShrinks DEF BaseInv, subscription
  <2>2. pc'[c] = "unsub" /\ Stage(c)' = "unsub"
    BY <1>6, FieldTypes, ThreadKinds DEF subscription, Go, Stage, Sending
  <2> QED BY <2>1, <2>2, RestsShrink, ConnWalk DEF Walking
<1>7. CASE deleteClientFromMap(c) \/ set_offline(c) \/ reset(c) \/ web_close(c)
  <2>1. /\ Touches(c) /\ UNCHANGED it
        /\ Stage(c)' \in {"offline", "reset", "quit", "close", "gone"}
        /\ fd'[c] = Closed \/ fd'[c] = fd[c]
    BY <1>7, leavingConn
  <2>2. Shrunk
    BY <1>7, leavingList
  <2>3. UNCHANGED <<r, served>>
    BY <1>7 DEF deleteClientFromMap, set_offline, reset, web_close, send
  <2>4. pc'[c] \notin Walking
    <3>1. pc'[c] \in {"gone", "offline", "reset", "close", "quit"}
      BY <1>7, FieldTypes, ThreadKinds
         DEF deleteClientFromMap, set_offline, reset, web_close, Leave, Go
    <3> QED BY <3>1 DEF Walking
  <2> QED BY <2>1, <2>2, <2>3, <2>4, RestsShrink, ConnWalk
<1> QED BY <1>1, <1>2, <1>3, <1>4, <1>5, <1>6, <1>7

\* A sender gives the event to the connection it finds under the descriptor of
\* an item, and no item to come names that descriptor again.
LEMMA SendsWalk ==
  ASSUME BaseInv, BaseInv', ConnInv, ListInv, WalkInv, NEW t \in Thread,
         send_event_to_pipe(t) \/ (t \in Sender /\ \E p \in Pipe : Start(t, p))
  PROVE  WalkInv'
<1>1. /\ Sends /\ Shrunk
      /\ \A u \in Thread : u # t =>
           pc'[u] = pc[u] /\ it'[u] = it[u] /\ r'[u] = r[u] /\ served'[u] = served[u]
  BY SendsAll
<1>2. \A d \in Conn : Stage(d)' = Stage(d) /\ fd'[d] = fd[d]
  BY <1>1, ThreadKinds DEF Sends, conns
<1>3. ASSUME NEW u \in Thread, u # t PROVE WalkOf(u)'
  <2>1. pc'[u] = pc[u] /\ it'[u] = it[u] /\ r'[u] = r[u] /\ served'[u] = served[u]
    BY <1>1, <1>3
  <2>2. pc[u] \in Walking => \A j \in Rest(u)' : j \in Rest(u) /\ data'[j] = data[j]
    BY <1>1, <2>1, RestShrinks
  <2> QED BY <1>2, <2>1, <2>2, WalkStays DEF WalkInv
<1>4. WalkOf(t)'
  <2>1. WalkOf(t) /\ Ahead /\ Ahead' /\ Reachable'
    <3>1. Ahead /\ Ahead' /\ Reachable'
      BY AllAhead, AllReachable, PTL
    <3> QED BY <3>1 DEF WalkInv
  <2>2. CASE begin(t)
    <3>1. served'[t] = {} /\ pc'[t] # "message"
      BY <2>2, FieldTypes DEF begin, Go, BaseInv, TypeOK
    <3> QED BY <3>1 DEF WalkOf, Given
  <2>3. CASE get(t)
    <3>1. /\ pc[t] = "get" /\ it' = it /\ served' = served /\ pc'[t] \in {"erase", "message"}
          /\ pc'[t] = "message" => /\ data[it[t]] # Closed
                                   /\ r'[t] = map_index[data[it[t]]] /\ r'[t] # None
      BY <2>3, FieldTypes DEF get, Go, BaseInv, TypeOK
    <3>2. /\ it[t] \in Item /\ Rest(t) = {it[t]} \cup Chain(next[it[t]], next)
      BY <2>1, <3>1 DEF Ahead, Walking
    <3>3. \A j \in Rest(t)' : j \in Chain(next[it[t]], next) /\ data'[j] = data[j]
      <4>1. next' = next /\ data' = data
        BY <2>3 DEF get, lists
      <4>2. Rest(t)' = Chain(next[it[t]], next)
        BY <3>1, <4>1 DEF Rest
      <4> QED BY <4>1, <4>2
    <3>4. ASSUME NEW c \in served[t]
          PROVE  c \in Conn /\ Stage(c)' # "new" /\ \A j \in Rest(t)' : data'[j] = fd'[c] => fd'[c] = Closed
      <4>1. c \in Conn /\ Stage(c) # "new" /\ \A j \in Rest(t) : data[j] = fd[c] => fd[c] = Closed
        BY <2>1, <3>1 DEF WalkOf, Given, Walking
      <4> QED BY <1>2, <3>2, <3>3, <4>1
    <3>5. ASSUME pc'[t] = "message"
          PROVE  \E c \in Conn :
                   /\ r'[t] = c /\ c \notin served[t] /\ Stage(c)' # "new"
                   /\ \A j \in Rest(t)' : data'[j] # fd'[c]
      <4>1. data[it[t]] \in Fd /\ data[it[t]] # Closed
        BY <3>1, <3>2, <3>5 DEF BaseInv, TypeOK
      <4>2. PICK c \in Conn : c = r'[t] /\ map_index[data[it[t]]] = c
        BY <3>1, <3>5, <4>1, FieldTypes
      <4>3. fd[c] = data[it[t]] /\ Stage(c) \in InMap
        BY <4>1, <4>2 DEF ConnInv, SocketOf
      <4>4. c \notin served[t]
        BY <2>1, <3>1, <3>2, <4>1, <4>3 DEF WalkOf, Given, Walking
      <4>5. \A j \in Rest(t)' : data'[j] # fd'[c]
        BY <1>2, <3>2, <3>3, <4>1, <4>3 DEF ListInv, Distinct
      <4>6. Stage(c)' # "new"
        BY <1>2, <4>3 DEF InMap
      <4> QED BY <4>2, <4>4, <4>5, <4>6
    <3>6. \A c \in Given(t)' : c \in served[t] \/ (pc'[t] = "message" /\ r'[t] = c)
      BY <3>1 DEF Given
    <3> QED BY <3>1, <3>4, <3>5, <3>6 DEF WalkOf
  <2>4. CASE message(t)
    <3>1. /\ pc[t] = "message" /\ pc'[t] = "next" /\ it' = it
          /\ served'[t] \subseteq Given(t)
      BY <2>4, FieldTypes DEF message, Go, BaseInv, TypeOK, Given
    <3>2. \A j \in Rest(t)' : j \in Rest(t) /\ data'[j] = data[j]
      BY <1>1, <3>1, RestShrinks DEF Walking
    <3> QED BY <1>2, <2>1, <3>1, <3>2 DEF WalkOf, Given, Walking
  <2>5. CASE erase(t)
    <3>1. /\ pc[t] = "erase" /\ pc'[t] = "next" /\ served' = served
      BY <2>5, FieldTypes DEF erase, Go
    <3>2. it' = it
      <4>1. PICK p \in Pipe : p = pipe[t]
        BY <3>1 DEF BaseInv, Roles, Role, Sending
      <4>2. PICK id \in Fd \cup {Closed} : id = data[it[t]]
        BY <2>1, <3>1 DEF Ahead, Walking, BaseInv, TypeOK
      <4>3. remove(p, id)
        BY <2>5, <4>1, <4>2 DEF erase
      <4> QED BY <4>3, TypesOfLists, RemoveFacts DEF BaseInv
    <3>3. \A j \in Rest(t)' : j \in Rest(t) /\ data'[j] = data[j]
      BY <1>1, <3>1, <3>2, RestShrinks DEF Walking
    <3> QED BY <1>2, <2>1, <3>1, <3>3 DEF WalkOf, Given, Walking
  <2>6. CASE Next(t)
    <3>1. /\ pc[t] = "next" /\ pc'[t] \in {"sent", "get"} /\ served' = served
      BY <2>6, FieldTypes DEF Next, Go
    <3>2. it[t] \in Item /\ Rest(t) = Chain(next[it[t]], next)
      BY <2>1, <3>1 DEF Ahead, Walking
    <3>3. /\ it' = [it EXCEPT ![t] = next[it[t]]]
          /\ \A a \in Live(first, next, it)' \cup {Nil} : Chain(a, next') = Chain(a, next)
      BY <2>6, <3>2, TypesOfLists, AdvanceFacts DEF BaseInv, Next
    <3>4. it'[t] = next[it[t]]
      BY <3>3 DEF BaseInv, TypeOK
    <3>5. ASSUME pc'[t] = "get", NEW j \in Rest(t)' PROVE j \in Rest(t) /\ data'[j] = data[j]
      <4>1. /\ it'[t] \in Live(first, next, it)' \cup {Nil} /\ it'[t] \in Item
            /\ \A i \in Item : \A k \in Chain(next'[i], next') : k \in Live(first, next, it)'
        BY <2>1, <3>5 DEF Ahead, Walking, Reachable
      <4>2. Rest(t)' = Chain(it'[t], next')
        BY <3>5 DEF Rest
      <4>3. Rest(t)' = {it'[t]} \cup Chain(next'[it'[t]], next')
        BY <2>1, <3>5 DEF Ahead, Walking
      <4>4. j \in Live(first, next, it)'
        BY <4>1, <4>3, <3>5, NilIsNoItem
      <4>5. data'[j] = data[j]
        BY <1>1, <4>4 DEF Shrunk
      <4>6. j \in Chain(next[it[t]], next)
        BY <3>3, <3>4, <3>5, <4>1, <4>2
      <4> QED BY <3>2, <4>5, <4>6
    <3> QED BY <1>2, <2>1, <3>1, <3>5 DEF WalkOf, Given, Walking
  <2>7. CASE sent(t)
    <3>1. pc'[t] \notin Walking
      BY <2>7, FieldTypes DEF sent, Go, Walking
    <3> QED BY <3>1 DEF WalkOf
  <2>8. CASE t \in Sender /\ \E p \in Pipe : Start(t, p)
    <3>1. pc'[t] \notin Walking
      BY <2>8, FieldTypes DEF Start, Go, Walking
    <3> QED BY <3>1 DEF WalkOf
  <2> QED BY <2>2, <2>3, <2>4, <2>5, <2>6, <2>7, <2>8 DEF send_event_to_pipe
<1> QED BY <1>3, <1>4 DEF WalkInv

-----------------------------------------------------------------------------
\* Nobody gets an event twice

\* The inductive invariant without kicks.
TidyInv == BaseInv /\ ConnInv /\ ListInv /\ WalkInv

\* The initial states.
LEMMA TidyInit ==
  Init => TidyInv
<1> SUFFICES ASSUME Init PROVE TidyInv
  OBVIOUS
<1>1. BaseInv
  BY BaseInit
<1>2. \A t \in Thread : pc[t] = IF t \in Conn THEN "new" ELSE "idle"
  BY DEF Init
<1>3. \A c \in Conn : Stage(c) = "new" /\ c \in Thread
  BY <1>2, ThreadKinds DEF Stage, Sending
<1>4. ConnInv
  <2>1. \A f \in Fd : map_index[f] \notin Conn
    BY PipesAssumption DEF Init
  <2>2. \A c \in Conn : fd[c] = Closed /\ c \notin isOnLine /\ subscriptions[c] = NoSlots
    BY DEF Init
  <2>3. \A c \in Conn : SocketOf(c)
    BY <1>3, <2>1, <2>2 DEF SocketOf, InMap
  <2>4. \A c \in Conn : SlotsOf(c) /\ ApartOf(c)
    BY <1>3, <2>2 DEF SlotsOf, ApartOf, NoSlots
  <2> QED BY <2>2, <2>3, <2>4 DEF ConnInv, Unshared
<1>5. ListInv
  <2>1. next \in Links /\ \A p \in Pipe : first[p] = Nil
    BY DEF Init, Links
  <2>2. \A p \in Pipe : Entries(p) = {}
    BY <2>1, ChainEquation DEF Entries
  <2>3. \A i \in Item : data[i] = Closed
    BY DEF Init
  <2> QED BY <2>2, <2>3 DEF ListInv, ListedOf, Owners, Distinct
<1>6. WalkInv
  BY <1>2 DEF WalkInv, WalkOf, Walking
<1> QED BY <1>1, <1>4, <1>5, <1>6 DEF TidyInv

\* The step that changes nothing.
LEMMA StutterFacts ==
  ASSUME BaseInv, UNCHANGED vars
  PROVE  Sends /\ Shrunk
BY TypesOfLists, UnchangedShrinks DEF BaseInv, vars, lists, Sends, conns, Stage

\* TidyInv is inductive.
LEMMA TidyStep ==
  ASSUME TidyInv, [Step]_vars, NoKicks, OwnNames
  PROVE  TidyInv'
<1> USE DEF TidyInv
<1>1. BaseInv'
  BY BaseStep, BaseStutter
<1>2. CASE UNCHANGED vars
  <2>1. ConnInv' /\ ListInv'
    BY <1>1, <1>2, StutterFacts, SendsConnInv, SendsListInv
  <2>2. WalkInv'
    BY <1>2 DEF vars, WalkInv, WalkOf, Given, Rest, Stage
  <2> QED BY <1>1, <2>1, <2>2
<1>3. ASSUME NEW t \in Thread,
             send_event_to_pipe(t) \/ (t \in Sender /\ \E p \in Pipe : Start(t, p))
      PROVE  TidyInv'
  <2>1. Sends /\ Shrunk
    BY <1>3, SendsAll
  <2> QED BY <1>1, <1>3, <2>1, SendsConnInv, SendsListInv, SendsWalk
<1>4. ASSUME NEW c \in Conn,
             \/ Open(c) \/ ws_subscription(c) \/ insert(c) \/ hangup(c)
             \/ \E names \in Requests : subscription(c, names)
      PROVE  TidyInv'
  <2>1. WalkInv'
    BY <1>1, <1>4, ConnsWalk
  <2>2. ConnInv'
    BY <1>4, OpenConn, ws_subscriptionConn, insertConn, hangupConn, subscriptionConn
  <2>3. ListInv'
    BY <1>1, <1>4, OpenList, ws_subscriptionList, insertList, hangupList, subscriptionList
  <2> QED BY <1>1, <2>1, <2>2, <2>3
<1>5. ASSUME NEW c \in Conn,
             un_subscription(c) \/ deleteClientFromMap(c) \/ set_offline(c) \/ reset(c) \/ web_close(c)
      PROVE  TidyInv'
  <2>1. WalkInv'
    BY <1>1, <1>5, ConnsWalk
  <2>2. ConnInv' /\ ListInv'
    BY <1>1, <1>5, un_subscriptionConn, leavingConn, un_subscriptionList, leavingList
  <2> QED BY <1>1, <2>1, <2>2
<1>6. CASE Step
  <2>1. Conn \cup Kicker = Conn /\ ~\E k \in Kicker : TRUE
    BY DEF NoKicks
  <2> QED BY <1>3, <1>4, <1>5, <1>6, <2>1, ThreadKinds DEF Step
<1> QED BY <1>2, <1>6

\* While connections are closed by their own threads only and requests name a
\* channel once, the lists and what the connections remember agree in every
\* state, also when descriptors are used again.
THEOREM PipesTidy ==
  ASSUME NoKicks, OwnNames
  PROVE  Spec => []TidyInv
<1>1. TidyInv /\ [Step]_vars => TidyInv'
  BY TidyStep
<1> QED BY TidyInit, <1>1, PTL DEF Spec

\* No connection is given an event of a channel twice, whatever subscribes and
\* leaves while it is sent.
THEOREM PipesNotTwice ==
  ASSUME NoKicks, OwnNames
  PROVE  Spec => []NotTwice
<1>1. TidyInv => NotTwice
  BY DEF TidyInv, WalkInv, WalkOf, Walking, NotTwice
<1> QED BY PipesTidy, <1>1, PTL

\* The list of a channel names open connections that have asked for it.
THEOREM PipesNoGhosts ==
  ASSUME NoKicks, OwnNames
  PROVE  Spec => []NoGhosts
<1>1. TidyInv => NoGhosts
  <2> SUFFICES ASSUME TidyInv, NEW p \in Pipe, NEW i \in Entries(p)
               PROVE  \E c \in Conn : fd[c] = data[i] /\ p \in Asked(c)
    BY DEF NoGhosts
  <2>1. PICK c \in Conn : fd[c] = data[i] /\ data[i] # Closed
    BY DEF TidyInv, ListInv, Owners
  <2>2. PICK j \in Slot : subscriptions[c][j] = p
    BY <2>1 DEF TidyInv, ListInv, ListedOf
  <2>3. p # None
    BY FieldTypes DEF TidyInv
  <2> QED BY <2>1, <2>2, <2>3 DEF TidyInv, ConnInv, SlotsOf
<1> QED BY PipesTidy, <1>1, PTL

-----------------------------------------------------------------------------
\* Whoever is due is served

\* Descriptors are given out in order: none has been used before it is.
Opened == Cardinality({c \in Conn : pc[c] # "new"})

\* Nothing has a descriptor that has not been given out.
Numbers ==
  /\ \A c \in Conn : fd[c] <= Opened
  /\ \A i \in Item : data[i] <= Opened

\* What a sender is about to take from a list belongs to nobody.
DeadOf(t) ==
  pc[t] = "erase" => data[it[t]] = Closed \/ map_index[data[it[t]]] = None

\* A subscriber is on the lists of the channels it has subscribed to.
ReachedOf(c) ==
  Stage(c) \in {"idle", "name", "insert"} => \A j \in Slot :
    /\ Stage(c) = "idle" \/ j < at[c]
    /\ subscriptions[c][j] # None
    /\ ~(subscriptions[c][j] \in Private /\ c \in Guests)
    => \E i \in Entries(subscriptions[c][j]) : data[i] = fd[c]

\* Whoever is due has been served or is ahead.
DueOf(t) ==
  /\ pc[t] = "sent" \/ pc[t] \in Walking \/ due[t] = {}
  /\ \A c \in due[t] :
       /\ pc[c] = "idle" /\ fd[c] # Closed
       /\ c \in Given(t) \/ (pc[t] \in Walking /\ \E j \in Rest(t) : data[j] = fd[c])

\* The inductive invariant without reuse, in addition to TidyInv.
DueInv ==
  /\ Numbers
  /\ \A t \in Thread : DeadOf(t) /\ DueOf(t)
  /\ \A c \in Conn : ReachedOf(c)

\* Every entry of c stays on its list, and ahead of whom it was ahead.
Keeps(c) ==
  /\ \A p \in Pipe : \A i \in Entries(p) :
       data[i] = fd[c] => i \in Entries(p)' /\ data'[i] = data[i]
  /\ \A t \in Thread : it[t] # Nil /\ it'[t] = it[t] =>
       \A j \in Chain(next[it[t]], next) :
         data[j] = fd[c] => j \in Chain(next'[it[t]], next') /\ data'[j] = data[j]

\* What the threads hold stays what it is.
HeldStays == \A t \in Thread : it[t] # Nil /\ it'[t] = it[t] => data'[it[t]] = data[it[t]]

\* Lists that only become shorter leave what is held,
LEMMA ShrunkHeld ==
  ASSUME BaseInv, BaseInv', Shrunk
  PROVE  HeldStays
<1>1. Reachable'
  BY AllReachable, PTL
<1> QED BY <1>1 DEF Reachable, Shrunk, HeldStays

\* and a step that leaves the lists alone leaves every entry.
LEMMA UnchangedKeeps ==
  ASSUME UNCHANGED lists, NEW c \in Conn
  PROVE  Keeps(c)
BY DEF lists, Keeps, Entries

\* Taking one descriptor from a list leaves the entries of others,
LEMMA RemoveKeeps ==
  ASSUME BaseInv, BaseInv', NEW p \in Pipe, NEW id \in Fd \cup {Closed}, remove(p, id),
         NEW c \in Conn, fd[c] # id
  PROVE  Keeps(c)
<1>1. /\ Shrunk
      /\ \A q \in Pipe : \A k \in Entries(q) : data[k] # id => k \in Entries(q)'
      /\ \A t \in Thread : it[t] # Nil =>
           \A k \in Chain(next[it[t]], next) :
             data[k] # id => k \in Chain(next[it[t]], next)'
      /\ it' = it
  BY TypesOfLists, RemoveFacts DEF BaseInv
<1>2. \A q \in Pipe : \A i \in Entries(q) :
        data[i] = fd[c] => i \in Entries(q)' /\ data'[i] = data[i]
  BY <1>1, ShrunkFacts
<1>3. ASSUME NEW t \in Thread, it[t] # Nil, NEW j \in Chain(next[it[t]], next), data[j] = fd[c]
      PROVE  j \in Chain(next'[it[t]], next') /\ data'[j] = data[j]
  <2>1. j \in Chain(next'[it[t]], next')
    BY <1>1, <1>3
  <2>2. it[t] \in Item
    BY <1>3 DEF BaseInv, TypeOK
  <2> QED BY <1>1, <2>1, <2>2, ShrunkFacts
<1> QED BY <1>2, <1>3 DEF Keeps

\* joining a list leaves all,
LEMMA JoinKeeps ==
  ASSUME BaseInv, NEW p \in Pipe, NEW id \in Fd, append(p, id), Live(first, next, it) # Item,
         NEW c \in Conn
  PROVE  Keeps(c) /\ HeldStays
<1>1. /\ it' = it
      /\ \A q \in Pipe : \A i \in Entries(q) : i \in Entries(q)' /\ data'[i] = data[i]
      /\ \A t \in Thread : it[t] # Nil =>
           /\ Chain(next'[it[t]], next') = Chain(next[it[t]], next)
           /\ data'[it[t]] = data[it[t]]
           /\ \A k \in Chain(it[t], next) : data'[k] = data[k]
  BY JoinFacts
<1>2. ASSUME NEW t \in Thread, it[t] # Nil
      PROVE  Chain(next[it[t]], next) \subseteq Chain(it[t], next)
  <2>1. it[t] \in Item /\ next \in Links
    BY <1>2, TypesOfLists DEF BaseInv, TypeOK, ListTypes
  <2> QED BY <1>2, <2>1, ChainEquation
<1> QED BY <1>1, <1>2 DEF Keeps, HeldStays

\* and so does stepping on.
LEMMA NextKeeps ==
  ASSUME BaseInv, BaseInv', NEW t \in Thread, Next(t), NEW c \in Conn
  PROVE  Keeps(c)
<1>1. pc[t] = "next" /\ it[t] \in Item
  BY AllAhead DEF Next, Ahead, Walking
<1>2. /\ Shrunk
      /\ \A q \in Pipe : Entries(q)' = Entries(q)
      /\ \A a \in Live(first, next, it)' \cup {Nil} : Chain(a, next') = Chain(a, next)
      /\ \A k \in Live(first, next, it)' : next'[k] = next[k]
  BY <1>1, TypesOfLists, AdvanceFacts DEF BaseInv, Next
<1>3. \A q \in Pipe : \A i \in Entries(q) :
        data[i] = fd[c] => i \in Entries(q)' /\ data'[i] = data[i]
  BY <1>2, ShrunkFacts
<1>4. ASSUME NEW u \in Thread, it[u] # Nil, it'[u] = it[u]
      PROVE  \A j \in Chain(next[it[u]], next) :
               j \in Chain(next'[it[u]], next') /\ data'[j] = data[j]
  <2>1. it[u] \in Live(first, next, it)'
    <3>1. Reachable'
      BY AllReachable, PTL
    <3> QED BY <1>4, <3>1 DEF Reachable
  <2>2. /\ Live(first, next, it)' \subseteq Item
        /\ \A i \in Live(first, next, it)' : next'[i] \in Live(first, next, it)' \cup {Nil}
        /\ \A i \in Live(first, next, it)' \cup {Nil} :
             Chain(i, next') \subseteq Live(first, next, it)'
    <3>1. next' \in Links /\ Ends(next') /\ first' \in Firsts /\ it' \in Holds
      BY <1>2 DEF Shrunk, ListTypes, Graph
    <3> QED BY <3>1, LiveFacts DEF ClosedUnder
  <2>3. next'[it[u]] = next[it[u]] /\ next'[it[u]] \in Live(first, next, it)' \cup {Nil}
    BY <1>2, <2>1, <2>2
  <2>4. Chain(next[it[u]], next) = Chain(next'[it[u]], next')
    BY <1>2, <2>3
  <2> QED BY <1>2, <2>2, <2>3, <2>4 DEF Shrunk
<1> QED BY <1>3, <1>4 DEF Keeps

\* Subscribers whose entries stay are reached.
LEMMA ReachedStays ==
  ASSUME NEW d \in Conn, ReachedOf(d), Stage(d)' = Stage(d), at'[d] = at[d], fd'[d] = fd[d],
         subscriptions'[d] = subscriptions[d], subscriptions[d] \in [Slot -> Pipe \cup {None}],
         Stage(d) \in {"idle", "name", "insert"} => Keeps(d)
  PROVE  ReachedOf(d)'
<1> SUFFICES ASSUME Stage(d) \in {"idle", "name", "insert"},
                    NEW p \in Pipe, \E i \in Entries(p) : data[i] = fd[d]
             PROVE  \E i \in Entries(p)' : data'[i] = fd[d]
  <2>1. ASSUME NEW j \in Slot, Stage(d) \in {"idle", "name", "insert"},
               Stage(d) = "idle" \/ j < at[d], subscriptions[d][j] # None,
               ~(subscriptions[d][j] \in Private /\ d \in Guests)
        PROVE  \E p \in Pipe : p = subscriptions[d][j] /\ \E i \in Entries(p) : data[i] = fd[d]
    BY <2>1 DEF ReachedOf
  <2> QED BY <2>1 DEF ReachedOf, Entries
<1> QED BY DEF Keeps

\* A sender that does nothing has those who stay due still ahead of it.
LEMMA DueStays ==
  ASSUME BaseInv, BaseInv', NEW t \in Thread, DueOf(t), HeldStays,
         pc'[t] = pc[t], it'[t] = it[t], r'[t] = r[t], served'[t] = served[t],
         due'[t] \subseteq due[t],
         \A c \in due'[t] : pc'[c] = pc[c] /\ fd'[c] = fd[c] /\ Keeps(c)
  PROVE  DueOf(t)'
<1>1. Given(t)' = Given(t)
  BY DEF Given
<1>2. Ahead /\ Ahead'
  BY AllAhead, PTL
<1>3. ASSUME NEW c \in due'[t], pc[t] \in Walking, NEW j \in Rest(t), data[j] = fd[c]
      PROVE  j \in Rest(t)' /\ data'[j] = data[j]
  <2>1. it[t] \in Item /\ it[t] # Nil
    BY <1>2, <1>3, NilIsNoItem DEF Ahead
  <2>2. Rest(t) = IF pc[t] = "get" THEN {it[t]} \cup Chain(next[it[t]], next)
                                   ELSE Chain(next[it[t]], next)
    BY <1>2, <1>3 DEF Ahead
  <2>3. Rest(t)' = IF pc[t] = "get" THEN {it[t]} \cup Chain(next'[it[t]], next')
                                    ELSE Chain(next'[it[t]], next')
    BY <1>2, <1>3 DEF Ahead
  <2> QED BY <1>3, <2>1, <2>2, <2>3 DEF Keeps, HeldStays
<1> QED BY <1>1, <1>3 DEF DueOf

\* What nobody owned is still owned by nobody.
LEMMA DeadStays ==
  ASSUME BaseInv, NEW t \in Thread, DeadOf(t), HeldStays, pc'[t] = pc[t], it'[t] = it[t],
         \A i \in Item : data[i] # Closed /\ map_index[data[i]] = None => map_index'[data[i]] = None
  PROVE  DeadOf(t)'
<1>1. pc[t] = "erase" => it[t] \in Item /\ it[t] # Nil
  BY AllAhead, NilIsNoItem DEF Ahead, Walking
<1> QED BY <1>1 DEF DeadOf, HeldStays

\* How many connections have been opened.
LEMMA OpenedFacts ==
  ASSUME BaseInv
  PROVE  /\ Opened \in Nat
         /\ Opened = Cardinality({c \in Conn : Stage(c) # "new"})
         /\ IsFiniteSet({c \in Conn : Stage(c) # "new"})
<1>1. \A c \in Conn : pc[c] # "new" <=> Stage(c) # "new"
  BY FieldTypes, ThreadKinds DEF Stage, Sending
<1>2. {c \in Conn : pc[c] # "new"} = {c \in Conn : Stage(c) # "new"}
  BY <1>1
<1>3. IsFiniteSet({c \in Conn : Stage(c) # "new"})
  BY PipesAssumption, FS_Subset
<1> QED BY <1>2, <1>3, FS_CardinalityType DEF Opened

\* The same, as a fact of a state.
OpenedRight ==
  /\ Opened \in Nat
  /\ Opened = Cardinality({c \in Conn : Stage(c) # "new"})
  /\ IsFiniteSet({c \in Conn : Stage(c) # "new"})

\* This follows from the invariant.
LEMMA AllOpened == BaseInv => OpenedRight
BY OpenedFacts DEF OpenedRight

\* A step that opens nothing gives out no descriptor.
LEMMA NumbersStay ==
  ASSUME BaseInv, BaseInv', Numbers,
         \A c \in Conn : Stage(c)' = "new" <=> Stage(c) = "new",
         \A c \in Conn : fd'[c] = fd[c] \/ fd'[c] = Closed,
         \A i \in Item : \/ data'[i] = data[i] \/ data'[i] = Closed
                         \/ \E c \in Conn : data'[i] = fd[c]
  PROVE  Numbers'
<1>1. OpenedRight /\ OpenedRight'
  BY AllOpened, PTL
<1>2. {c \in Conn : Stage(c)' # "new"} = {c \in Conn : Stage(c) # "new"}
  OBVIOUS
<1>3. Opened' = Opened
  BY <1>1, <1>2 DEF OpenedRight
<1>4. Closed <= Opened
  BY <1>1 DEF OpenedRight, Closed
<1> QED BY <1>3, <1>4 DEF Numbers

\* Lists that only become shorter have no new descriptors.
LEMMA ShrunkNumbers ==
  ASSUME BaseInv, BaseInv', Shrunk
  PROVE  \A i \in Item : data'[i] = data[i] \/ data'[i] = Closed
BY DEF Shrunk, Graph

\* The next descriptor is the first that has not been used.
LEMMA OpenNumbers ==
  ASSUME BaseInv, BaseInv', ConnInv, Numbers, ~Reuse, NEW c \in Conn, Open(c)
  PROVE  /\ Numbers'
         /\ \E f \in Fd : f = Opened + 1 /\ map_index' = [map_index EXCEPT ![f] = c]
<1>1. OpenedRight /\ OpenedRight'
  BY AllOpened, PTL
<1>2. Touches(c) /\ Stage(c) = "new" /\ Stage(c)' = "idle"
  BY OpenConn, FieldTypes, ThreadKinds DEF Open, Go, Stage, Sending
<1>3. \A d \in Conn : d # c => Stage(d)' = Stage(d) /\ fd'[d] = fd[d]
  BY <1>2, TouchedStage, ThreadKinds DEF Touches
<1>4. Opened' = Opened + 1
  <2> DEFINE S == {d \in Conn : Stage(d) # "new"}
             T == {d \in Conn : Stage(d)' # "new"}
  <2>1. T = S \cup {c} /\ c \notin S
    BY <1>2, <1>3
  <2>2. Cardinality(S \cup {c}) = Cardinality(S) + 1
    BY <1>1, <2>1, FS_AddElement DEF OpenedRight
  <2> QED BY <1>1, <2>1, <2>2 DEF OpenedRight
<1>5. Min(Unused) = Opened + 1 /\ Opened + 1 \in Fd
  <2>1. Unused \in SUBSET Nat /\ Unused # {}
    BY ItemsAreNumbers DEF Open, Unused
  <2>2. Min(Unused) \in Unused /\ Min(Unused) \in Nat /\ \A k \in Unused : Min(Unused) <= k
    BY <2>1, MinItem
  <2>3. Min(Unused) \in Fd /\ Min(Unused) > Opened
    BY <2>2 DEF Unused, Opened
  <2>4. Cardinality(Fd) \in Nat /\ Fd = 1..Cardinality(Fd)
    BY PipesAssumption, FS_CardinalityType
  <2>5. Opened + 1 \in Fd
    BY <1>1, <2>2, <2>3, <2>4 DEF OpenedRight
  <2>6. \A d \in Conn : fd[d] # Opened + 1
    BY <1>1 DEF Numbers, OpenedRight
  <2>7. Opened + 1 \in Unused
    BY <1>1, <2>5, <2>6 DEF Unused, Opened, OpenedRight
  <2>8. Min(Unused) <= Opened + 1
    BY <2>2, <2>7
  <2> QED BY <1>1, <2>2, <2>3, <2>5, <2>8 DEF OpenedRight
<1>6. fd'[c] = Opened + 1 /\ data' = data
  BY <1>5, FieldTypes DEF Open, lists
<1>7. Numbers'
  <2>1. ASSUME NEW d \in Conn PROVE fd'[d] <= Opened'
    <3>1. fd[d] <= Opened /\ fd[d] \in Int
      BY FieldTypes, ItemsAreNumbers DEF Numbers, Closed
    <3> QED BY <1>1, <1>3, <1>4, <1>6, <3>1 DEF OpenedRight
  <2>2. ASSUME NEW i \in Item PROVE data'[i] <= Opened'
    <3>1. data[i] <= Opened /\ data[i] \in Int
      <4>1. data[i] \in Fd \cup {Closed}
        BY DEF BaseInv, TypeOK
      <4>2. \A f \in Fd : f \in Int
        BY ItemsAreNumbers
      <4>3. data[i] \in Int
        BY <4>1, <4>2 DEF Closed
      <4> QED BY <4>3 DEF Numbers
    <3> QED BY <1>1, <1>4, <1>6, <3>1 DEF OpenedRight
  <2> QED BY <2>1, <2>2 DEF Numbers
<1>8. map_index' = [map_index EXCEPT ![Min(Unused)] = c]
  BY DEF Open
<1> QED BY <1>5, <1>7, <1>8

\* What the steps of a connection that does not send do to the others.
LEMMA ConnsDueInv ==
  ASSUME BaseInv, BaseInv', DueInv, NEW c \in Conn, Touches(c), HeldStays,
         UNCHANGED <<it, r, served>>,
         pc'[c] # "sent", pc'[c] \notin Walking, pc[c] # "sent", pc[c] \notin Walking,
         \A u \in Thread : due'[u] \subseteq due[u] \ {c},
         \A d \in Conn : d # c => Keeps(d),
         \A i \in Item : data[i] # Closed /\ map_index[data[i]] = None => map_index'[data[i]] = None,
         Numbers', ReachedOf(c)'
  PROVE  DueInv'
<1>1. ASSUME NEW u \in Thread, u # c PROVE DeadOf(u)' /\ DueOf(u)'
  <2>1. pc'[u] = pc[u] /\ it'[u] = it[u] /\ r'[u] = r[u] /\ served'[u] = served[u]
    BY <1>1 DEF Touches
  <2>2. \A d \in due'[u] : d \in Conn /\ pc'[d] = pc[d] /\ fd'[d] = fd[d] /\ Keeps(d)
    <3>1. due'[u] \subseteq Conn
      BY DEF BaseInv, TypeOK
    <3> QED BY <3>1, ThreadKinds DEF Touches
  <2>3. due'[u] \subseteq due[u]
    OBVIOUS
  <2>4. DeadOf(u) /\ DueOf(u)
    BY DEF DueInv
  <2> QED BY <2>1, <2>2, <2>3, <2>4, DueStays, DeadStays
<1>2. DeadOf(c)' /\ DueOf(c)'
  <2>1. c \in Thread
    BY ThreadKinds
  <2>2. due[c] = {}
    BY <2>1 DEF DueInv, DueOf
  <2> QED BY <2>1, <2>2 DEF DeadOf, DueOf, Walking
<1>3. ASSUME NEW d \in Conn, d # c PROVE ReachedOf(d)'
  <2>1. /\ Stage(d)' = Stage(d) /\ at'[d] = at[d] /\ fd'[d] = fd[d]
        /\ subscriptions'[d] = subscriptions[d] /\ subscriptions[d] \in [Slot -> Pipe \cup {None}]
    BY <1>3, TouchedStage, ThreadKinds, FieldTypes DEF Touches
  <2> QED BY <1>3, <2>1, ReachedStays DEF DueInv
<1> QED BY <1>1, <1>2, <1>3 DEF DueInv

\* A connection that is not idle is due for nobody,
LEMMA NotDue ==
  ASSUME DueInv, NEW c \in Conn, pc[c] # "idle", due' = due
  PROVE  \A u \in Thread : due'[u] \subseteq due[u] \ {c}
BY DEF DueInv, DueOf

\* nor is one that leaves.
LEMMA LeavesDue ==
  ASSUME NEW c \in Conn, Leaves(c)
  PROVE  \A u \in Thread : due'[u] \subseteq due[u] \ {c}
BY DEF Leaves

\* A step that neither opens a connection nor joins a channel.
LEMMA PlainNumbers ==
  ASSUME BaseInv, BaseInv', DueInv, Shrunk, NEW c \in Conn, Touches(c),
         Stage(c) # "new", Stage(c)' # "new", fd'[c] = fd[c] \/ fd'[c] = Closed
  PROVE  Numbers'
<1>1. \A d \in Conn : d # c => Stage(d)' = Stage(d) /\ fd'[d] = fd[d]
  BY TouchedStage, ThreadKinds DEF Touches
<1> QED BY <1>1, ShrunkNumbers, NumbersStay DEF DueInv

\* DueInv is inductive: one lemma per action of a connection.
LEMMA OpenDue ==
  ASSUME BaseInv, BaseInv', ConnInv, DueInv, ~Reuse, NEW c \in Conn, Open(c)
  PROVE  DueInv'
<1>1. Touches(c) /\ UNCHANGED <<lists, it, r, served, due, subscriptions>>
  BY OpenConn DEF Open, send
<1>2. Shrunk /\ HeldStays
  BY <1>1, TypesOfLists, UnchangedShrinks, ShrunkHeld DEF BaseInv
<1>3. pc[c] = "new" /\ pc'[c] = "idle" /\ Stage(c) = "new"
  BY FieldTypes, ThreadKinds DEF Open, Go, Stage, Sending
<1>4. ReachedOf(c)'
  <2>1. subscriptions'[c] = NoSlots
    BY <1>1, <1>3 DEF ConnInv, SlotsOf
  <2> QED BY <2>1 DEF ReachedOf, NoSlots
<1>5. Numbers'
  BY OpenNumbers DEF DueInv
<1>6. \A i \in Item : data[i] # Closed /\ map_index[data[i]] = None => map_index'[data[i]] = None
  <2>1. PICK f \in Fd : f = Opened + 1 /\ map_index' = [map_index EXCEPT ![f] = c]
    BY OpenNumbers DEF DueInv
  <2>2. \A i \in Item : data[i] # f
    <3>1. Opened \in Nat /\ \A i \in Item : data[i] <= Opened
      BY OpenedFacts DEF DueInv, Numbers
    <3> QED BY <2>1, <3>1
  <2>3. \A i \in Item : data[i] # Closed => data[i] \in Fd
    BY DEF BaseInv, TypeOK
  <2> QED BY <2>1, <2>2, <2>3, FieldTypes
<1>7. \A d \in Conn : Keeps(d)
  BY <1>1, UnchangedKeeps
<1>8. \A u \in Thread : due'[u] \subseteq due[u] \ {c}
  BY <1>1, <1>3, NotDue
<1> QED BY <1>1, <1>2, <1>3, <1>4, <1>5, <1>6, <1>7, <1>8, ConnsDueInv DEF Walking

\* A request ends what its connection is due.
LEMMA subscriptionDue ==
  ASSUME BaseInv, BaseInv', ConnInv, DueInv, NEW c \in Conn, NEW names \in Requests,
         subscription(c, names)
  PROVE  DueInv'
<1>1. Touches(c) /\ UNCHANGED <<lists, it, r, served, map_index, fd>> /\ Leaves(c)
  BY subscriptionConn DEF subscription
<1>2. Shrunk /\ HeldStays
  BY <1>1, TypesOfLists, UnchangedShrinks, ShrunkHeld DEF BaseInv
<1>3. pc[c] = "idle" /\ pc'[c] = "unsub" /\ Stage(c) = "idle" /\ Stage(c)' = "unsub"
  BY FieldTypes, ThreadKinds DEF subscription, Go, Stage, Sending
<1>4. Numbers'
  BY <1>1, <1>2, <1>3, PlainNumbers
<1>5. \A d \in Conn : Keeps(d)
  BY <1>1, UnchangedKeeps
<1>6. ReachedOf(c)'
  BY <1>3 DEF ReachedOf
<1> QED BY <1>1, <1>2, <1>3, <1>4, <1>5, <1>6, LeavesDue, ConnsDueInv DEF Walking

\* The client hangs up.
LEMMA hangupDue ==
  ASSUME BaseInv, BaseInv', ConnInv, DueInv, NEW c \in Conn, hangup(c)
  PROVE  DueInv'
<1>1. Touches(c) /\ UNCHANGED <<lists, it, r, served, map_index, fd>> /\ Leaves(c)
  BY hangupConn DEF hangup, conns
<1>2. Shrunk /\ HeldStays
  BY <1>1, TypesOfLists, UnchangedShrinks, ShrunkHeld DEF BaseInv
<1>3. pc[c] = "idle" /\ pc'[c] = "leave" /\ Stage(c) = "idle" /\ Stage(c)' = "leave"
  BY FieldTypes, ThreadKinds DEF hangup, Go, Stage, Sending
<1>4. Numbers'
  BY <1>1, <1>2, <1>3, PlainNumbers
<1>5. \A d \in Conn : Keeps(d)
  BY <1>1, UnchangedKeeps
<1>6. ReachedOf(c)'
  BY <1>3 DEF ReachedOf
<1> QED BY <1>1, <1>2, <1>3, <1>4, <1>5, <1>6, LeavesDue, ConnsDueInv DEF Walking

\* A channel is remembered that is still to be joined, or the connection is idle.
LEMMA ws_subscriptionDue ==
  ASSUME BaseInv, BaseInv', ConnInv, OwnNames, DueInv, NEW c \in Conn, ws_subscription(c)
  PROVE  DueInv'
<1>1. UNCHANGED <<lists, it, r, served, due, map_index, fd>>
  BY DEF ws_subscription
<1>2. Shrunk /\ HeldStays
  BY <1>1, TypesOfLists, UnchangedShrinks, ShrunkHeld DEF BaseInv
<1>3. /\ Touches(c)
      /\ Stage(c) = "name" /\ Stage(c)' \in {"idle", "leave", "insert"}
      /\ \A i \in Slot : i < at[c] =>
           subscriptions'[c][i] = subscriptions[c][i] /\ subscriptions[c][i] # None
      /\ \A i \in Slot : subscriptions'[c][i] # None =>
           \/ i < at[c]
           \/ i = at[c] /\ at'[c] = at[c] /\ Stage(c)' = "insert"
           \/ i = at[c] /\ subscriptions'[c][i] \in Private /\ c \in Guests
      /\ Stage(c)' = "insert" => at'[c] = at[c]
  BY ws_subscriptionConn
<1>4. pc[c] = "name" /\ pc'[c] \in {"idle", "leave", "begin", "insert"}
  BY FieldTypes, ThreadKinds DEF ws_subscription, Go
<1>5. Numbers'
  BY <1>1, <1>2, <1>3, PlainNumbers
<1>6. \A d \in Conn : Keeps(d)
  BY <1>1, UnchangedKeeps
<1>7. ReachedOf(c)'
  <2>1. SUFFICES ASSUME Stage(c)' \in {"idle", "name", "insert"}, NEW j \in Slot,
                        Stage(c)' = "idle" \/ j < at'[c], subscriptions'[c][j] # None,
                        ~(subscriptions'[c][j] \in Private /\ c \in Guests)
                 PROVE  \E i \in Chain(first'[subscriptions'[c][j]], next') : data'[i] = fd'[c]
    BY DEF ReachedOf, Entries
  <2>2. at[c] \in Nat /\ j \in Nat
    BY SlotNumbers, FieldTypes, ThreadKinds
  <2>3. j < at[c]
    BY <1>3, <2>1, <2>2
  <2>4. subscriptions'[c][j] = subscriptions[c][j] /\ subscriptions[c][j] # None
    BY <1>3, <2>3
  <2>5. PICK i \in Entries(subscriptions[c][j]) : data[i] = fd[c]
    BY <1>3, <2>1, <2>3, <2>4 DEF DueInv, ReachedOf
  <2>6. UNCHANGED <<first, next, data>>
    BY <1>1 DEF lists
  <2> QED BY <1>1, <2>4, <2>5, <2>6 DEF Entries
<1>8. \A u \in Thread : due'[u] \subseteq due[u] \ {c}
  BY <1>1, <1>4, NotDue
<1> QED BY <1>1, <1>2, <1>3, <1>4, <1>5, <1>6, <1>7, <1>8, ConnsDueInv DEF Walking

\* What is joined is reached.
LEMMA insertDue ==
  ASSUME BaseInv, BaseInv', ConnInv, DueInv, NEW c \in Conn, insert(c)
  PROVE  DueInv'
<1>1. UNCHANGED <<r, served, due, map_index, fd, subscriptions>>
  BY DEF insert, conns
<1>2. /\ Touches(c) /\ Stage(c) = "insert" /\ Stage(c)' = "name"
      /\ at[c] \in Slot /\ Request(c)[at[c]] \in Pipe /\ fd[c] \in Fd
      /\ subscriptions[c][at[c]] = Request(c)[at[c]]
      /\ at'[c] = at[c] + 1
  BY insertConn
<1>3. PICK p \in Pipe : p = Request(c)[at[c]]
  BY <1>2
<1>4. PICK id \in Fd : id = fd[c]
  BY <1>2
<1>5. append(p, id) /\ Live(first, next, it) # Item
  BY <1>3, <1>4 DEF insert
<1>6. /\ it' = it
      /\ \A q \in Pipe : \A i \in Entries(q) : i \in Entries(q)' /\ data'[i] = data[i]
      /\ \E i \in Entries(p)' : data'[i] = id
  BY <1>5, JoinFacts
<1>7. HeldStays /\ \A d \in Conn : Keeps(d)
  BY <1>2, <1>5, JoinKeeps
<1>8. pc[c] = "insert" /\ pc'[c] = "name"
  BY FieldTypes, ThreadKinds DEF insert, Go
<1>9. Numbers'
  <2>1. \A d \in Conn : Stage(d)' = "new" <=> Stage(d) = "new"
    BY <1>2, TouchedStage, ThreadKinds
  <2>2. \A i \in Item : data'[i] = data[i] \/ data'[i] = Closed \/ data'[i] = fd[c]
    <3>1. ListTypes /\ Graph /\ id \in Fd \cup {Closed}
      BY TypesOfLists DEF BaseInv
    <3>2. PICK new \in Item :
             /\ data'[new] = id
             /\ \A k \in Live(first, next, it) : data'[k] = data[k]
             /\ \A k \in Item : k \notin Live(first, next, it) /\ k # new => data'[k] = Closed
      BY <1>5, <3>1, AppendFacts
    <3> QED BY <1>4, <3>2
  <2> QED BY <1>1, <2>1, <2>2, NumbersStay DEF DueInv
<1>10. ReachedOf(c)'
  <2>1. SUFFICES ASSUME NEW j \in Slot, j < at'[c], subscriptions[c][j] # None,
                        ~(subscriptions[c][j] \in Private /\ c \in Guests)
                 PROVE  \E i \in Chain(first'[subscriptions'[c][j]], next') : data'[i] = fd'[c]
    BY <1>1, <1>2 DEF ReachedOf, Entries
  <2>2. PICK q \in Pipe : q = subscriptions[c][j]
    BY <2>1, FieldTypes
  <2>3. CASE j = at[c]
    <3>1. q = p
      BY <1>2, <1>3, <2>2, <2>3
    <3>2. \E i \in Entries(q)' : data'[i] = fd[c]
      BY <1>4, <1>6, <3>1
    <3> QED BY <1>1, <2>2, <3>2 DEF Entries
  <2>4. CASE j # at[c]
    <3>1. j < at[c]
      BY <1>2, <2>1, <2>4, SlotNumbers
    <3>2. PICK i \in Entries(q) : data[i] = fd[c]
      BY <1>2, <2>1, <2>2, <3>1 DEF DueInv, ReachedOf
    <3>3. i \in Entries(q)' /\ data'[i] = fd[c]
      BY <1>6, <3>2
    <3> QED BY <1>1, <2>2, <3>3 DEF Entries
  <2> QED BY <2>3, <2>4
<1>11. \A u \in Thread : due'[u] \subseteq due[u] \ {c}
  BY <1>1, <1>8, NotDue
<1> QED BY <1>1, <1>2, <1>6, <1>7, <1>8, <1>9, <1>10, <1>11, ConnsDueInv DEF Walking

\* A connection takes only its own entries.
LEMMA un_subscriptionDue ==
  ASSUME BaseInv, BaseInv', ConnInv, ListInv, DueInv, NEW c \in Conn, un_subscription(c)
  PROVE  DueInv'
<1>1. /\ Touches(c)
      /\ Stage(c) \in {"unsub", "quit"} /\ fd[c] \in Fd
      /\ UNCHANGED fd
      /\ \/ /\ at[c] \in Slot /\ subscriptions[c][at[c]] \in Pipe
            /\ remove(subscriptions[c][at[c]], fd[c])
            /\ Stage(c)' = Stage(c)
         \/ /\ UNCHANGED <<lists, it>>
            /\ subscriptions'[c] = NoSlots
            /\ Stage(c)' \in {"name", "close"}
  BY un_subscriptionConn
<1>2. Shrunk /\ HeldStays
  BY un_subscriptionList, ShrunkHeld
<1>3. UNCHANGED <<r, served, due, map_index>>
  BY DEF un_subscription
<1>4. pc[c] \in {"unsub", "quit"} /\ pc'[c] \in {"unsub", "quit", "begin", "name", "close"}
  BY FieldTypes, ThreadKinds DEF un_subscription, Go
<1>5. it' = it /\ \A d \in Conn : d # c => Keeps(d)
  <2>1. CASE UNCHANGED <<lists, it>>
    BY <2>1, UnchangedKeeps
  <2>2. CASE ~UNCHANGED <<lists, it>>
    <3>1. PICK p \in Pipe : p = subscriptions[c][at[c]] /\ remove(p, fd[c])
      BY <1>1, <2>2
    <3>2. PICK id \in Fd : id = fd[c]
      BY <1>1
    <3>3. remove(p, id) /\ id \in Fd \cup {Closed}
      BY <3>1, <3>2
    <3>4. id # Closed
      BY ItemsAreNumbers DEF Closed
    <3>5. \A d \in Conn : d # c => fd[d] # id
      BY <3>2, <3>4 DEF ConnInv, Unshared
    <3>6. it' = it
      BY <3>3, TypesOfLists, RemoveFacts DEF BaseInv
    <3> QED BY <3>3, <3>5, <3>6, RemoveKeeps
  <2> QED BY <2>1, <2>2
<1>6. Numbers'
  BY <1>1, <1>2, PlainNumbers
<1>7. ReachedOf(c)'
  BY <1>1 DEF ReachedOf, NoSlots
<1>8. \A u \in Thread : due'[u] \subseteq due[u] \ {c}
  BY <1>3, <1>4, NotDue
<1> QED BY <1>1, <1>2, <1>3, <1>4, <1>5, <1>6, <1>7, <1>8, ConnsDueInv DEF Walking

\* The steps in which a connection goes.
LEMMA leavingDue ==
  ASSUME BaseInv, BaseInv', ConnInv, ListInv, DueInv, NEW c \in Conn,
         deleteClientFromMap(c) \/ set_offline(c) \/ reset(c) \/ web_close(c)
  PROVE  DueInv'
<1>1. /\ Touches(c)
      /\ UNCHANGED <<lists, it, subscriptions>>
      /\ Stage(c) \in {"leave", "offline", "reset", "close"}
      /\ Stage(c)' \in {"offline", "reset", "quit", "close", "gone"}
      /\ fd'[c] = Closed \/ fd'[c] = fd[c]
      /\ \A f \in Fd : map_index'[f] = map_index[f] \/ map_index'[f] = None
  BY leavingConn
<1>2. Shrunk /\ HeldStays
  BY leavingList, ShrunkHeld
<1>3. UNCHANGED <<r, served, due>>
  BY DEF deleteClientFromMap, set_offline, reset, web_close, send
<1>4. /\ pc[c] \in {"leave", "offline", "reset", "close"}
      /\ pc'[c] \in {"gone", "offline", "reset", "close", "quit"}
  BY FieldTypes, ThreadKinds DEF deleteClientFromMap, set_offline, reset, web_close, Leave, Go
<1>5. \A d \in Conn : Keeps(d)
  BY <1>1, UnchangedKeeps
<1>6. \A i \in Item : data[i] # Closed /\ map_index[data[i]] = None => map_index'[data[i]] = None
  <2>1. \A i \in Item : data[i] # Closed => data[i] \in Fd
    BY DEF BaseInv, TypeOK
  <2> QED BY <1>1, <2>1
<1>7. Numbers'
  BY <1>1, <1>2, PlainNumbers
<1>8. ReachedOf(c)'
  BY <1>1 DEF ReachedOf
<1>9. \A u \in Thread : due'[u] \subseteq due[u] \ {c}
  BY <1>3, <1>4, NotDue
<1> QED BY <1>1, <1>2, <1>3, <1>4, <1>5, <1>6, <1>7, <1>8, <1>9, ConnsDueInv DEF Walking

\* What a sender takes from a list belongs to no connection in the map.
LEMMA eraseKeeps ==
  ASSUME BaseInv, BaseInv', ConnInv, DueInv, NEW t \in Thread, erase(t),
         NEW c \in Conn, Stage(c) \in InMap
  PROVE  Keeps(c)
<1>1. pc[t] = "erase" /\ it[t] \in Item /\ pipe[t] \in Pipe
  BY AllAhead DEF erase, Ahead, Walking, BaseInv, Roles, Role, Sending
<1>2. PICK p \in Pipe : p = pipe[t]
  BY <1>1
<1>3. PICK id \in Fd \cup {Closed} : id = data[it[t]]
  BY <1>1 DEF BaseInv, TypeOK
<1>4. remove(p, id)
  BY <1>2, <1>3 DEF erase
<1>5. fd[c] # id
  <2>1. fd[c] # Closed /\ map_index[fd[c]] = c /\ c # None
    BY PipesAssumption DEF ConnInv, SocketOf, InMap
  <2> QED BY <1>1, <1>3, <2>1 DEF DueInv, DeadOf
<1> QED BY <1>4, <1>5, RemoveKeeps

\* A sender leaves the entries of the connections that are in the map.
LEMMA SendsKeep ==
  ASSUME BaseInv, BaseInv', ConnInv, DueInv, NEW t \in Thread,
         send_event_to_pipe(t) \/ (t \in Sender /\ \E p \in Pipe : Start(t, p)),
         NEW c \in Conn, Stage(c) \in InMap
  PROVE  Keeps(c)
<1>1. CASE erase(t)
  BY <1>1, eraseKeeps
<1>2. CASE Next(t)
  BY <1>2, NextKeeps
<1>3. CASE UNCHANGED lists
  BY <1>3, UnchangedKeeps
<1> QED BY <1>1, <1>2, <1>3 DEF send_event_to_pipe, begin, get, message, sent, Start

\* The sender itself: whoever is due is served when it has come to the end.
LEMMA SendsDueOf ==
  ASSUME BaseInv, BaseInv', ConnInv, ListInv, DueInv, NEW t \in Thread,
         send_event_to_pipe(t) \/ (t \in Sender /\ \E p \in Pipe : Start(t, p)),
         \A c \in due'[t] \cap due[t] : pc'[c] = pc[c] /\ fd'[c] = fd[c] /\ Keeps(c)
  PROVE  DeadOf(t)' /\ DueOf(t)'
<1>1. DeadOf(t) /\ DueOf(t)
  BY DEF DueInv
<1>2. Ahead /\ Ahead'
  BY AllAhead, PTL
<1>3. Shrunk /\ HeldStays
  BY SendsAll, ShrunkHeld
<1>4. CASE begin(t)
  <2>1. /\ pc[t] = "begin" /\ it' = [it EXCEPT ![t] = first[pipe[t]]]
        /\ due'[t] = {c \in Conn : Listens(c, pipe[t])}
        /\ pc' = [pc EXCEPT ![t] = IF first[pipe[t]] = Nil THEN "sent" ELSE "get"]
        /\ UNCHANGED <<lists, conns>>
    BY <1>4 DEF begin, Go, BaseInv, TypeOK
  <2>2. pc'[t] = IF first[pipe[t]] = Nil THEN "sent" ELSE "get"
    BY <2>1, FieldTypes
  <2>3. it'[t] = first[pipe[t]] /\ UNCHANGED <<first, next, data, fd>>
    BY <2>1 DEF BaseInv, TypeOK, lists, conns
  <2>4. PICK p \in Pipe : p = pipe[t]
    BY <2>1 DEF BaseInv, Roles, Role, Sending
  <2>5. ASSUME NEW c \in due'[t]
        PROVE  /\ c \in Conn /\ pc[c] = "idle" /\ fd[c] # Closed /\ pc'[c] = "idle"
               /\ \E i \in Entries(p) : data[i] = fd[c]
    <3>1. Listens(c, p) /\ c \in Conn
      BY <2>1, <2>4
    <3>2. pc[c] = "idle" /\ fd[c] # Closed /\ p \in Range(subscriptions[c])
          /\ ~(p \in Private /\ c \in Guests)
      BY <3>1 DEF Listens
    <3>3. PICK j \in Slot : subscriptions[c][j] = p
      BY <3>1, <3>2, FieldTypes DEF Range
    <3>4. Stage(c) = "idle" /\ p # None
      BY <3>2, FieldTypes DEF Stage, Sending
    <3>5. \E i \in Entries(p) : data[i] = fd[c]
      BY <3>1, <3>2, <3>3, <3>4 DEF DueInv, ReachedOf
    <3>6. c # t
      BY <2>1, <3>2
    <3> QED BY <2>1, <3>1, <3>2, <3>5, <3>6, FieldTypes
  <2>6. CASE first[p] = Nil
    <3>1. Entries(p) = {}
      BY <2>6, ChainEquation, TypesOfLists DEF BaseInv, ListTypes, Entries
    <3> QED BY <2>2, <2>4, <2>5, <2>6, <3>1 DEF DueOf, DeadOf
  <2>7. CASE first[p] # Nil
    <3>1. pc'[t] = "get" /\ Rest(t)' = Chain(first'[p], next')
      BY <2>2, <2>3, <2>4, <2>7 DEF Rest
    <3>2. Rest(t)' = Entries(p)
      BY <2>3, <3>1 DEF Entries
    <3> QED BY <2>3, <2>5, <3>1, <3>2 DEF DueOf, DeadOf, Walking
  <2> QED BY <2>6, <2>7
<1>5. CASE get(t)
  <2>1. /\ pc[t] = "get" /\ UNCHANGED <<lists, conns, it, due, served>>
        /\ r'[t] = IF data[it[t]] = Closed THEN None ELSE map_index[data[it[t]]]
        /\ pc'[t] = IF r'[t] = None THEN "erase" ELSE "message"
    BY <1>5, FieldTypes DEF get, Go, BaseInv, TypeOK
  <2>2. UNCHANGED <<first, next, data, fd, map_index>>
    BY <2>1 DEF lists, conns
  <2>3. /\ it[t] \in Item /\ Rest(t) = {it[t]} \cup Chain(next[it[t]], next)
    BY <1>2, <2>1 DEF Ahead, Walking
  <2>4. Rest(t)' = Chain(next[it[t]], next)
    BY <2>1, <2>2 DEF Rest
  <2>5. DeadOf(t)'
    BY <2>1, <2>2 DEF DeadOf
  <2>6. ASSUME NEW c \in due[t]
        PROVE  /\ pc'[c] = "idle" /\ fd'[c] # Closed
               /\ c \in Given(t)' \/ \E j \in Rest(t)' : data'[j] = fd'[c]
    <3>1. pc[c] = "idle" /\ fd[c] # Closed /\ c \in Conn
      BY <1>1 DEF DueOf, BaseInv, TypeOK
    <3>2. pc'[c] = "idle"
      BY <2>1, <3>1
    <3>3. Stage(c) = "idle" /\ map_index[fd[c]] = c /\ c # None
      BY <3>1, PipesAssumption DEF Stage, Sending, ConnInv, SocketOf, InMap
    <3>4. CASE c \in Given(t)
      BY <2>1, <2>2, <3>1, <3>2, <3>4 DEF Given
    <3>5. CASE data[it[t]] = fd[c]
      BY <2>1, <2>2, <3>1, <3>2, <3>3, <3>5 DEF Given
    <3>6. CASE \E j \in Chain(next[it[t]], next) : data[j] = fd[c]
      BY <2>2, <2>4, <3>1, <3>2, <3>6
    <3> QED BY <1>1, <2>3, <3>4, <3>5, <3>6 DEF DueOf
  <2> QED BY <2>1, <2>5, <2>6 DEF DueOf, Walking
<1>6. CASE message(t)
  <2>1. /\ pc[t] = "message" /\ UNCHANGED <<lists, conns, it, due>> /\ pc'[t] = "next"
        /\ served'[t] = IF fd[r[t]] = Closed THEN served[t] ELSE served[t] \cup {r[t]}
    BY <1>6, FieldTypes DEF message, Go, BaseInv, TypeOK
  <2>2. UNCHANGED <<first, next, data, fd>>
    BY <2>1 DEF lists, conns
  <2>3. Rest(t)' = Rest(t)
    BY <2>1, <2>2 DEF Rest
  <2>4. \A c \in due[t] : c \in Given(t) => c \in Given(t)'
    BY <1>1, <2>1 DEF Given, DueOf
  <2>5. \A c \in due[t] : pc'[c] = pc[c]
    BY <2>1
  <2> QED BY <1>1, <2>1, <2>2, <2>3, <2>4, <2>5 DEF DueOf, DeadOf, Walking
<1>7. CASE erase(t)
  <2>1. pc[t] = "erase" /\ pc'[t] = "next" /\ UNCHANGED <<due, served>>
    BY <1>7, FieldTypes DEF erase, Go
  <2>2. it' = it
    <3>1. PICK p \in Pipe : p = pipe[t]
      BY <2>1 DEF BaseInv, Roles, Role, Sending
    <3>2. PICK id \in Fd \cup {Closed} : id = data[it[t]]
      BY <1>2, <2>1 DEF Ahead, Walking, BaseInv, TypeOK
    <3>3. remove(p, id)
      BY <1>7, <3>1, <3>2 DEF erase
    <3> QED BY <3>3, TypesOfLists, RemoveFacts DEF BaseInv
  <2>3. /\ it[t] \in Item /\ it[t] # Nil /\ Rest(t) = Chain(next[it[t]], next)
        /\ Rest(t)' = Chain(next'[it[t]], next')
    BY <1>2, <2>1, <2>2, NilIsNoItem DEF Ahead, Walking
  <2>4. ASSUME NEW c \in due[t], NEW j \in Rest(t), data[j] = fd[c]
        PROVE  j \in Rest(t)' /\ data'[j] = fd'[c]
    BY <2>1, <2>2, <2>3, <2>4 DEF Keeps
  <2>5. \A c \in due[t] : pc'[c] = pc[c] /\ fd'[c] = fd[c]
    BY <2>1
  <2>6. Given(t)' = Given(t)
    BY <2>1 DEF Given
  <2> QED BY <1>1, <2>1, <2>4, <2>5, <2>6 DEF DueOf, DeadOf, Walking
<1>8. CASE Next(t)
  <2>1. pc[t] = "next" /\ UNCHANGED <<due, served>>
        /\ pc'[t] = IF next[it[t]] = Nil THEN "sent" ELSE "get"
    BY <1>8, FieldTypes DEF Next, Go
  <2>2. it[t] \in Item /\ Rest(t) = Chain(next[it[t]], next) /\ next \in Links
    BY <1>2, <2>1, TypesOfLists DEF Ahead, Walking, BaseInv, ListTypes
  <2>3. /\ it' = [it EXCEPT ![t] = next[it[t]]]
        /\ \A a \in Live(first, next, it)' \cup {Nil} : Chain(a, next') = Chain(a, next)
    BY <1>8, <2>2, TypesOfLists, AdvanceFacts DEF BaseInv, Next
  <2>4. it'[t] = next[it[t]]
    BY <2>3 DEF BaseInv, TypeOK
  <2>5. Given(t)' = Given(t)
    BY <2>1 DEF Given
  <2>6. \A c \in due[t] : pc'[c] = pc[c] /\ fd'[c] = fd[c]
    BY <2>1
  <2>7. CASE next[it[t]] = Nil
    <3>1. Rest(t) = {}
      BY <2>2, <2>7, ChainEquation
    <3> QED BY <1>1, <2>1, <2>5, <2>6, <2>7, <3>1 DEF DueOf, DeadOf
  <2>8. CASE next[it[t]] # Nil
    <3>1. pc'[t] = "get"
      BY <2>1, <2>8
    <3>2. Reachable' /\ next' \in Links /\ Ends(next') /\ first' \in Firsts /\ it' \in Holds
      <4>1. Reachable'
        BY AllReachable, PTL
      <4> QED BY <1>3, <4>1 DEF Shrunk, ListTypes, Graph
    <3>3. it'[t] \in Live(first, next, it)' \cup {Nil}
      BY <3>2 DEF Reachable
    <3>4. Rest(t)' = Chain(it'[t], next')
      BY <3>1 DEF Rest
    <3>5. Rest(t)' = Rest(t)
      BY <2>2, <2>3, <2>4, <3>3, <3>4
    <3>6. Rest(t)' \subseteq Live(first, next, it)'
      BY <3>2, <3>3, <3>4, LiveFacts
    <3>7. \A j \in Rest(t)' : data'[j] = data[j]
      BY <1>3, <3>6 DEF Shrunk
    <3> QED BY <1>1, <2>1, <2>5, <2>6, <3>1, <3>5, <3>7 DEF DueOf, DeadOf, Walking
  <2> QED BY <2>7, <2>8
<1>9. CASE sent(t)
  <2>1. pc'[t] \in {"idle", "unsub", "quit", "insert"} /\ due'[t] = {}
    BY <1>9, FieldTypes DEF sent, Go, BaseInv, TypeOK
  <2> QED BY <2>1 DEF DueOf, DeadOf
<1>10. CASE t \in Sender /\ \E p \in Pipe : Start(t, p)
  <2>1. pc[t] = "idle" /\ pc'[t] = "begin" /\ due' = due
    BY <1>10, FieldTypes DEF Start, Go
  <2>2. due[t] = {}
    BY <1>1, <2>1 DEF DueOf, Walking
  <2> QED BY <2>1, <2>2 DEF DueOf, DeadOf
<1> QED BY <1>4, <1>5, <1>6, <1>7, <1>8, <1>9, <1>10 DEF send_event_to_pipe

\* A step of sending is right for all senders.
LEMMA SendsDue ==
  ASSUME BaseInv, BaseInv', ConnInv, ListInv, DueInv, NEW t \in Thread,
         send_event_to_pipe(t) \/ (t \in Sender /\ \E p \in Pipe : Start(t, p))
  PROVE  DueInv'
<1>1. /\ Sends /\ Shrunk
      /\ \A u \in Thread : u # t =>
           /\ pc'[u] = pc[u] /\ it'[u] = it[u] /\ r'[u] = r[u]
           /\ due'[u] = due[u] /\ served'[u] = served[u]
  BY SendsAll
<1>2. HeldStays
  BY <1>1, ShrunkHeld
<1>3. UNCHANGED <<fd, map_index, subscriptions, at>> /\ \A d \in Conn : Stage(d)' = Stage(d)
  BY <1>1, ThreadKinds DEF Sends, conns
<1>4. ASSUME NEW u \in Thread, NEW c \in due[u]
      PROVE  c \in Conn /\ pc'[c] = pc[c] /\ fd'[c] = fd[c] /\ Keeps(c)
  <2>1. c \in Conn /\ pc[c] = "idle" /\ c \in Thread
    BY ThreadKinds DEF DueInv, DueOf, BaseInv, TypeOK
  <2>2. c # t
    BY <2>1, ThreadKinds DEF send_event_to_pipe, begin, get, message, erase, Next, sent
  <2>3. Stage(c) \in InMap
    BY <2>1 DEF Stage, Sending, InMap
  <2>4. Keeps(c)
    BY <2>1, <2>3, SendsKeep
  <2> QED BY <1>1, <1>3, <2>1, <2>2, <2>4
<1>5. DeadOf(t)' /\ DueOf(t)'
  BY <1>4, SendsDueOf
<1>6. ASSUME NEW u \in Thread, u # t PROVE DeadOf(u)' /\ DueOf(u)'
  <2>1. /\ pc'[u] = pc[u] /\ it'[u] = it[u] /\ r'[u] = r[u]
        /\ due'[u] = due[u] /\ served'[u] = served[u]
    BY <1>1, <1>6
  <2>2. DeadOf(u) /\ DueOf(u)
    BY DEF DueInv
  <2> QED BY <1>2, <1>3, <1>4, <2>1, <2>2, DueStays, DeadStays
<1>7. \A d \in Conn : ReachedOf(d)'
  <2>1. ASSUME NEW d \in Conn, Stage(d) \in {"idle", "name", "insert"} PROVE Keeps(d)
    BY <2>1, SendsKeep DEF InMap
  <2>2. \A d \in Conn : subscriptions[d] \in [Slot -> Pipe \cup {None}]
    BY FieldTypes
  <2> QED BY <1>3, <2>1, <2>2, ReachedStays DEF DueInv
<1>8. Numbers'
  BY <1>1, <1>3, ShrunkNumbers, NumbersStay DEF DueInv
<1> QED BY <1>5, <1>6, <1>7, <1>8 DEF DueInv

-----------------------------------------------------------------------------
\* The inductive invariant without kicks and without reuse.
ServeInv == TidyInv /\ DueInv

\* The initial states.
LEMMA ServeInit ==
  Init => ServeInv
<1> SUFFICES ASSUME Init PROVE ServeInv
  OBVIOUS
<1>1. TidyInv
  BY TidyInit
<1>2. \A t \in Thread : pc[t] = IF t \in Conn THEN "new" ELSE "idle"
  BY DEF Init
<1>3. Numbers
  <2>1. Opened \in Nat
    BY <1>1, OpenedFacts DEF TidyInv
  <2> QED BY <2>1 DEF Init, Numbers, Closed
<1>4. \A t \in Thread : DeadOf(t) /\ DueOf(t)
  BY <1>2 DEF Init, DeadOf, DueOf
<1>5. \A c \in Conn : ReachedOf(c)
  BY <1>2, ThreadKinds DEF ReachedOf, Stage, Sending
<1> QED BY <1>1, <1>3, <1>4, <1>5 DEF ServeInv, DueInv

\* ServeInv is inductive.
LEMMA DueStep ==
  ASSUME ServeInv, TidyInv', [Step]_vars, NoKicks, OwnNames, ~Reuse
  PROVE  DueInv'
<1> USE DEF ServeInv, TidyInv
<1>1. CASE UNCHANGED vars
  BY <1>1 DEF vars, DueInv, Numbers, Opened, DeadOf, DueOf, Given, Rest, ReachedOf, Entries, Stage
<1>2. ASSUME NEW t \in Thread,
             send_event_to_pipe(t) \/ (t \in Sender /\ \E p \in Pipe : Start(t, p))
      PROVE  DueInv'
  BY <1>2, SendsDue
<1>3. ASSUME NEW c \in Conn,
             \/ Open(c) \/ ws_subscription(c) \/ insert(c) \/ hangup(c)
             \/ \E names \in Requests : subscription(c, names)
      PROVE  DueInv'
  BY <1>3, OpenDue, ws_subscriptionDue, insertDue, hangupDue, subscriptionDue
<1>4. ASSUME NEW c \in Conn,
             un_subscription(c) \/ deleteClientFromMap(c) \/ set_offline(c) \/ reset(c) \/ web_close(c)
      PROVE  DueInv'
  BY <1>4, un_subscriptionDue, leavingDue
<1>5. CASE Step
  <2>1. Conn \cup Kicker = Conn /\ ~\E k \in Kicker : TRUE
    BY DEF NoKicks
  <2> QED BY <1>2, <1>3, <1>4, <1>5, <2>1, ThreadKinds DEF Step
<1> QED BY <1>1, <1>5

\* When no descriptor is used again either, whoever subscribes is on the list
\* until it leaves, and no sender passes it by.
THEOREM PipesServe ==
  ASSUME NoKicks, OwnNames, ~Reuse
  PROVE  Spec => []ServeInv
<1>1. ServeInv /\ [Step]_vars => ServeInv'
  <2> SUFFICES ASSUME ServeInv, [Step]_vars PROVE ServeInv'
    OBVIOUS
  <2>1. TidyInv'
    BY TidyStep DEF ServeInv
  <2> QED BY <2>1, DueStep DEF ServeInv
<1> QED BY ServeInit, <1>1, PTL DEF Spec

\* When an event has been sent, whoever was subscribed from the beginning to
\* the end has got it.
THEOREM PipesDueServed ==
  ASSUME NoKicks, OwnNames, ~Reuse
  PROVE  Spec => []DueServed
<1>1. ServeInv => DueServed
  BY DEF ServeInv, DueInv, DueOf, Given, Walking, DueServed
<1> QED BY PipesServe, <1>1, PTL

\* The list of a channel names its subscribers, each once, and nobody else.
THEOREM PipesListTruth ==
  ASSUME NoKicks, OwnNames, ~Reuse
  PROVE  Spec => []ListTruth
<1>1. ServeInv => CountedOnce
  <2> SUFFICES ASSUME ServeInv, NEW p \in Pipe, NEW c \in Conn, Listens(c, p)
               PROVE  Cardinality({i \in Entries(p) : data[i] = fd[c]}) = 1
    BY DEF CountedOnce
  <2> USE DEF ServeInv, TidyInv
  <2>1. pc[c] = "idle" /\ fd[c] # Closed /\ p \in Range(subscriptions[c])
        /\ ~(p \in Private /\ c \in Guests)
    BY DEF Listens
  <2>2. PICK j \in Slot : subscriptions[c][j] = p
    BY <2>1, FieldTypes DEF Range
  <2>3. Stage(c) = "idle" /\ p # None
    BY <2>1, FieldTypes DEF Stage, Sending
  <2>4. PICK i \in Entries(p) : data[i] = fd[c]
    BY <2>1, <2>2, <2>3 DEF DueInv, ReachedOf
  <2>5. ASSUME NEW k \in Entries(p), data[k] = fd[c] PROVE k = i
    <3>1. SUFFICES ASSUME k # i PROVE FALSE
      OBVIOUS
    <3>2. i \in Item /\ k \in Item /\ (k \in Chain(next[i], next) \/ i \in Chain(next[k], next))
      BY <3>1, EntriesFacts
    <3> QED BY <2>1, <2>4, <2>5, <3>2 DEF ListInv, Distinct
  <2>6. {k \in Entries(p) : data[k] = fd[c]} = {i}
    BY <2>4, <2>5
  <2> QED BY <2>6, FS_Singleton
<1> QED BY PipesNoGhosts, PipesServe, <1>1, PTL DEF ListTruth
=============================================================================
