---------------------------- MODULE FramesProofs ----------------------------
(***************************************************************************)
(* Proofs about Frames. Sequences of sequences come first: where each of   *)
(* them begins in the whole (Lays), and so where each frame begins in the  *)
(* stream (Layout). Then what is left to be handled is the stream behind a *)
(* position (TextInv), the position is the beginning of a frame (OrderInv) *)
(* and no innocent client is thrown out (InnocentInv).                     *)
(***************************************************************************)
EXTENDS Frames, SequenceTheorems, WellFoundedInduction, TLAPS

\* A set of numbers that has an element has a least one.
LEMMA Smallest ==
  ASSUME NEW S \in SUBSET Nat, S # {}
  PROVE  \E x \in S : \A y \in S : x =< y
<1>1. PICK x \in S : \A y \in S : ~(<<y, x>> \in OpToRel(<, Nat))
  BY WFMin, NatLessThanWellFounded
<1>2. ASSUME NEW y \in S PROVE x =< y
  <2>1. y < x => <<y, x>> \in OpToRel(<, Nat)
    BY DEF OpToRel
  <2>2. ~(y < x)
    BY <1>1, <2>1, Zenon
  <2> QED BY <2>2
<1> QED BY <1>2

\* A set of numbers that has 0 and with each number below n its successor has
\* all numbers up to n.
LEMMA UpTo ==
  ASSUME NEW n \in Nat, NEW S, 0 \in S, \A m \in 0..n - 1 : m \in S => m + 1 \in S
  PROVE  \A m \in 0..n : m \in S
<1> DEFINE M == {m \in 0..n : m \notin S}
<1> SUFFICES ASSUME M # {} PROVE FALSE
  OBVIOUS
<1>1. PICK x \in M : \A y \in M : x =< y
  <2>1. M \in SUBSET Nat
    OBVIOUS
  <2> QED BY <2>1, Smallest
<1>2. x # 0 /\ x \in 1..n
  OBVIOUS
<1>3. x - 1 \in 0..n - 1 /\ x - 1 \notin M
  BY <1>1, <1>2
<1>4. x - 1 \in S
  BY <1>3
<1>5. (x - 1) + 1 \in S
  BY <1>3, <1>4
<1> QED BY <1>5, <1>2

-----------------------------------------------------------------------------
\* Sequences of sequences

\* The recursive function that FlattenSeq takes the last value of, for the
\* first m of the sequences.
Flattens(f, seqs, m) ==
  f = [i \in 1..m |-> IF i = 1 THEN seqs[i] ELSE f[i - 1] \o seqs[i]]

\* Where each of the sequences begins in t, which consists of the first m.
Lays(at, t, seqs, m) ==
  /\ at \in [1..m + 1 -> Nat]
  /\ at[1] = 0
  /\ at[m + 1] = Len(t)
  /\ \A i \in 1..m :
       /\ at[i + 1] = at[i] + Len(seqs[i])
       /\ \A k \in 1..Len(seqs[i]) : t[at[i] + k] = seqs[i][k]
  /\ \A i, j \in 1..m + 1 : i =< j => at[i] =< at[j]
  /\ \A d \in 1..Len(t) : \E i \in 1..m : \E k \in 1..Len(seqs[i]) : d = at[i] + k

\* One more sequence.
LEMMA LayMore ==
  ASSUME NEW X, NEW seqs, NEW m \in Nat, NEW t \in Seq(X), NEW at,
         Lays(at, t, seqs, m), \A i \in 1..m + 1 : seqs[i] \in Seq(X)
  PROVE  \E at2 : Lays(at2, t \o seqs[m + 1], seqs, m + 1)
<1> DEFINE u == seqs[m + 1]
           v == t \o u
           at2 == [i \in 1..m + 2 |-> IF i = m + 2 THEN Len(v) ELSE at[i]]
<1>1. /\ Len(v) = Len(t) + Len(u) /\ v \in Seq(X) /\ Len(t) \in Nat /\ Len(u) \in Nat
      /\ \A k \in 1..Len(t) : v[k] = t[k]
      /\ \A k \in 1..Len(u) : v[Len(t) + k] = u[k]
  BY ConcatProperties
<1>2. /\ at2 \in [1..m + 2 -> Nat]
      /\ at2[1] = 0
      /\ at2[m + 2] = Len(v)
      /\ \A i \in 1..m + 1 : at2[i] = at[i]
      /\ at2[m + 1] = Len(t)
  BY <1>1 DEF Lays
<1>0. \A i \in 1..m + 1 : Len(seqs[i]) \in Nat
  BY LenProperties
<1> HIDE DEF at2, v
<1>3. ASSUME NEW i \in 1..m + 1
      PROVE  /\ at2[i + 1] = at2[i] + Len(seqs[i])
             /\ \A k \in 1..Len(seqs[i]) : v[at2[i] + k] = seqs[i][k]
  <2>1. CASE i = m + 1
    BY <2>1, <1>1, <1>2
  <2>2. CASE i \in 1..m
    <3>1. at[i + 1] = at[i] + Len(seqs[i]) /\ at[i + 1] =< Len(t) /\ at[i] \in Nat /\ at[i + 1] \in Nat
      <4>1. i + 1 \in 1..m + 1 /\ m + 1 \in 1..m + 1 /\ i + 1 =< m + 1 /\ i \in 1..m + 1
        BY <2>2
      <4> QED BY <4>1, <2>2 DEF Lays
    <3>2. at2[i + 1] = at[i + 1] /\ at2[i] = at[i]
      BY <2>2, <1>2
    <3>3. ASSUME NEW k \in 1..Len(seqs[i])
          PROVE  v[at2[i] + k] = seqs[i][k]
      <4>1. at[i] + k \in 1..Len(t)
        <5>1. k \in Nat /\ 1 =< k /\ k =< Len(seqs[i])
          BY <3>3, <1>0
        <5>2. Len(t) \in Nat /\ Len(seqs[i]) \in Nat
          BY <1>0, <1>1
        <5> QED BY <5>1, <5>2, <3>1
      <4>2. t[at[i] + k] = seqs[i][k]
        BY <2>2, <3>3 DEF Lays
      <4> QED BY <4>1, <4>2, <3>2, <1>1
    <3> QED BY <3>1, <3>2, <3>3
  <2> QED BY <2>1, <2>2
<1>4. ASSUME NEW i \in 1..m + 2, NEW j \in 1..m + 2, i =< j
      PROVE  at2[i] =< at2[j]
  <2>1. CASE j \in 1..m + 1
    <3>1. i \in 1..m + 1
      BY <2>1, <1>4
    <3>2. at[i] =< at[j]
      BY <2>1, <3>1, <1>4 DEF Lays
    <3> QED BY <3>1, <3>2, <2>1, <1>2
  <2>2. CASE j = m + 2 /\ i \in 1..m + 1
    <3>1. i =< m + 1 /\ m + 1 \in 1..m + 1
      BY <2>2
    <3>2. at[i] =< at[m + 1] /\ at[i] \in Nat
      BY <2>2, <3>1 DEF Lays
    <3>3. at2[i] = at[i] /\ at[m + 1] = Len(t)
      BY <2>2, <1>2 DEF Lays
    <3> QED BY <3>2, <3>3, <2>2, <1>2, <1>1
  <2>3. CASE i = m + 2
    BY <2>3, <1>4, <1>2
  <2> QED BY <2>1, <2>2, <2>3, <1>4
<1>5. ASSUME NEW d \in 1..Len(v)
      PROVE  \E i \in 1..m + 1 : \E k \in 1..Len(seqs[i]) : d = at2[i] + k
  <2>1. CASE d \in 1..Len(t)
    <3>1. PICK i \in 1..m : \E k \in 1..Len(seqs[i]) : d = at[i] + k
      BY <2>1 DEF Lays
    <3> QED BY <3>1, <1>2
  <2>2. CASE d \notin 1..Len(t)
    <3>1. d - Len(t) \in 1..Len(u) /\ d = Len(t) + (d - Len(t))
      BY <2>2, <1>1
    <3>2. m + 1 \in 1..m + 1 /\ at2[m + 1] = Len(t)
      BY <1>2
    <3> QED BY <3>1, <3>2
  <2> QED BY <2>1, <2>2
<1>6. m + 1 + 1 = m + 2
  OBVIOUS
<1>7. Lays(at2, v, seqs, m + 1)
  BY <1>2, <1>3, <1>4, <1>5, <1>6 DEF Lays
<1> QED BY <1>7 DEF v

\* The recursive function of FlattenSeq exists.
LEMMA FlattensExists ==
  ASSUME NEW seqs, NEW n \in Nat
  PROVE  \E f : Flattens(f, seqs, n)
<1> DEFINE S == {m \in 0..n : \E f : Flattens(f, seqs, m)}
<1>1. 0 \in S
  <2> DEFINE f == [i \in 1..0 |-> seqs[i]]
  <2>1. f = [i \in 1..0 |-> IF i = 1 THEN seqs[i] ELSE f[i - 1] \o seqs[i]]
    OBVIOUS
  <2>2. Flattens(f, seqs, 0)
    BY <2>1 DEF Flattens
  <2> QED BY <2>2
<1>2. ASSUME NEW m \in 0..n - 1, m \in S
      PROVE  m + 1 \in S
  <2>1. PICK f : Flattens(f, seqs, m)
    BY <1>2
  <2> DEFINE f2 == [i \in 1..m + 1 |-> IF i = 1 THEN seqs[i] ELSE f[i - 1] \o seqs[i]]
  <2>2. ASSUME NEW i \in 1..m PROVE f2[i] = f[i]
    <3>1. f[i] = IF i = 1 THEN seqs[i] ELSE f[i - 1] \o seqs[i]
      BY <2>1, Zenon DEF Flattens
    <3>2. i \in 1..m + 1
      OBVIOUS
    <3> QED BY <3>1, <3>2
  <2>3. ASSUME NEW i \in 1..m + 1
        PROVE  f2[i] = IF i = 1 THEN seqs[i] ELSE f2[i - 1] \o seqs[i]
    <3>1. i = 1 \/ i - 1 \in 1..m
      OBVIOUS
    <3>2. i - 1 \in 1..m => f2[i - 1] = f[i - 1]
      BY <2>2
    <3> QED BY <3>1, <3>2
  <2>4. f2 = [i \in 1..m + 1 |-> f2[i]]
    OBVIOUS
  <2> HIDE DEF f2
  <2>5. f2 = [i \in 1..m + 1 |-> IF i = 1 THEN seqs[i] ELSE f2[i - 1] \o seqs[i]]
    BY <2>3, <2>4
  <2>6. Flattens(f2, seqs, m + 1)
    BY <2>5 DEF Flattens
  <2> QED BY <2>6
<1> HIDE DEF S
<1>3. n \in S
  <2>1. \A m \in 0..n : m \in S
    BY <1>1, <1>2, UpTo
  <2> QED BY <2>1
<1> QED BY <1>3 DEF S

\* FlattenSeq lays its sequences one behind the other.
LEMMA Flat ==
  ASSUME NEW X, NEW seqs \in Seq(Seq(X))
  PROVE  /\ FlattenSeq(seqs) \in Seq(X)
         /\ \E at : Lays(at, FlattenSeq(seqs), seqs, Len(seqs))
<1> DEFINE n == Len(seqs)
<1>0. n \in Nat /\ \A i \in 1..n : seqs[i] \in Seq(X)
  BY ElementOfSeq, LenProperties
<1>1. CASE n = 0
  <2>1. FlattenSeq(seqs) = <<>> /\ Len(<<>>) = 0 /\ <<>> \in Seq(X)
    BY <1>1, EmptySeq DEF FlattenSeq
  <2>2. Lays([i \in 1..1 |-> 0], <<>>, seqs, 0)
    BY <2>1 DEF Lays
  <2> QED BY <2>1, <2>2, <1>1
<1>2. CASE n # 0
  <2> DEFINE g == CHOOSE f : Flattens(f, seqs, n)
             S == {m \in 0..n : m # 0 => /\ g[m] \in Seq(X)
                                         /\ \E at : Lays(at, g[m], seqs, m)}
  <2>1. FlattenSeq(seqs) = g[n]
    BY <1>2 DEF FlattenSeq, Flattens
  <2>2. Flattens(g, seqs, n)
    BY <1>0, FlattensExists
  <2>3. \A i \in 1..n : g[i] = IF i = 1 THEN seqs[i] ELSE g[i - 1] \o seqs[i]
    BY <2>2 DEF Flattens
  <2> HIDE DEF g
  <2>4. 0 \in S
    OBVIOUS
  <2>5. ASSUME NEW m \in 0..n - 1, m \in S
        PROVE  m + 1 \in S
    <3>1. \A i \in 1..m + 1 : seqs[i] \in Seq(X)
      BY <1>0
    <3>2. m \in Nat /\ m + 1 \in 1..n /\ m + 1 # 0
      BY <1>0
    <3>3. CASE m = 0
      <4>1. g[1] = seqs[1] /\ seqs[1] \in Seq(X)
        BY <3>3, <3>2, <2>3, <3>1
      <4>2. <<>> \o seqs[1] = seqs[1]
        BY <4>1, ConcatEmptySeq
      <4>3. Lays([i \in 1..1 |-> 0], <<>>, seqs, 0) /\ <<>> \in Seq(X)
        BY EmptySeq DEF Lays
      <4>4. \E at : Lays(at, <<>> \o seqs[m + 1], seqs, m + 1)
        BY <4>3, <3>1, <3>2, <3>3, LayMore
      <4>5. m + 1 = 1
        BY <3>3
      <4>6. \E at : Lays(at, g[m + 1], seqs, m + 1)
        BY <4>1, <4>2, <4>4, <4>5
      <4> QED BY <4>1, <4>5, <4>6
    <3>4. CASE m # 0
      <4>1. g[m + 1] = g[m] \o seqs[m + 1]
        <5>1. m + 1 # 1 /\ (m + 1) - 1 = m
          BY <3>4
        <5> QED BY <5>1, <3>2, <2>3
      <4>2. PICK at1 : Lays(at1, g[m], seqs, m)
        BY <2>5, <3>4
      <4>3. g[m] \in Seq(X)
        BY <2>5, <3>4
      <4>4. \E at2 : Lays(at2, g[m] \o seqs[m + 1], seqs, m + 1)
        BY <4>2, <4>3, <3>1, <3>2, LayMore
      <4>5. g[m] \o seqs[m + 1] \in Seq(X)
        BY <4>3, <3>1, <3>2, ConcatProperties
      <4>6. \E at : Lays(at, g[m + 1], seqs, m + 1)
        BY <4>1, <4>4
      <4>7. m + 1 \in 0..n
        BY <3>2, <1>0
      <4>8. g[m + 1] \in Seq(X)
        BY <4>1, <4>5
      <4> QED BY <4>6, <4>7, <4>8
    <3> QED BY <3>3, <3>4
  <2> HIDE DEF S, n
  <2>6. \A m \in 0..n : m \in S
    BY <2>4, <2>5, <1>0, UpTo
  <2>7. n \in S
    BY <2>6, <1>0
  <2> QED BY <2>7, <2>1, <1>2 DEF S, n
<1> QED BY <1>1, <1>2

-----------------------------------------------------------------------------
\* The stream

\* A function on the first n numbers is a sequence.
LEMMA FunctionIsSeq ==
  ASSUME NEW X, NEW n \in Nat, NEW f \in [1..n -> X]
  PROVE  f \in Seq(X) /\ Len(f) = n
  OBVIOUS

\* Two sequences, one behind the other.
LEMMA Concat ==
  ASSUME NEW X, NEW a \in Seq(X), NEW b \in Seq(X)
  PROVE  /\ a \o b \in Seq(X)
         /\ Len(a) \in Nat /\ Len(b) \in Nat /\ Len(a \o b) = Len(a) + Len(b)
         /\ \A k \in 1..Len(a) : (a \o b)[k] = a[k]
         /\ \A k \in 1..Len(b) : (a \o b)[Len(a) + k] = b[k]
  BY ConcatProperties

\* Sequences that are written out.
LEMMA Tuples ==
  ASSUME NEW X
  PROVE  /\ \A a \in X : <<a>> \in Seq(X) /\ Len(<<a>>) = 1 /\ <<a>>[1] = a
         /\ \A a, b \in X : <<a, b>> \in Seq(X) /\ Len(<<a, b>>) = 2
         /\ \A a, b, c \in X : <<a, b, c>> \in Seq(X) /\ Len(<<a, b, c>>) = 3
         /\ \A a, b, c, d, e \in X : <<a, b, c, d, e>> \in Seq(X) /\ Len(<<a, b, c, d, e>>) = 5
  OBVIOUS

\* The opcode of a frame.
Op(s, i) == s.frames[i].op

\* The units before the data, and all of them.
Delta(s, i) == IF s.frames[i].ext THEN 3 ELSE 2
Size(s, i) == Delta(s, i) + s.frames[i].data

\* What the assumption says of a script.
LEMMA ScriptFacts ==
  ASSUME NEW s \in Script
  PROVE  /\ s.request \in {"ws", "page", "post"}
         /\ Len(s.frames) \in Nat /\ DOMAIN s.frames = 1..Len(s.frames)
         /\ \A i \in 1..Len(s.frames) :
              /\ Op(s, i) \in {"text", "binary", "pong", "close"}
              /\ s.frames[i].known \in BOOLEAN /\ s.frames[i].ext \in BOOLEAN
              /\ s.frames[i].data \in Nat \ {0}
              /\ Delta(s, i) \in {2, 3} /\ Size(s, i) \in Nat
<1> DEFINE F == [op : {"text", "binary", "pong", "close"}, known : BOOLEAN,
                 ext : BOOLEAN, data : Nat \ {0}]
<1>1. s.request \in {"ws", "page", "post"} /\ s.frames \in Seq(F)
  BY FramesAssumption
<1>2. /\ Len(s.frames) \in Nat /\ DOMAIN s.frames = 1..Len(s.frames)
      /\ \A i \in 1..Len(s.frames) : s.frames[i] \in F
  <2> HIDE DEF F
  <2> QED BY <1>1, LenProperties, ElementOfSeq
<1> QED BY <1>1, <1>2 DEF Op, Delta, Size

\* A unit is a part of a frame, or of the request, whose number is 0.
LEMMA Units ==
  ASSUME NEW s \in Script
  PROVE  /\ {Line, Key, Eol, Post} \subseteq Unit
         /\ \A i \in 1..Len(s.frames) :
              \A a \in {"text", "binary", "pong", "close", "zero", "len", "ext", "data"} :
                <<a, i>> \in Unit
  BY ScriptFacts DEF Unit

\* The units of a frame.
LEMMA FrameFacts ==
  ASSUME NEW s \in Script, NEW i \in 1..Len(s.frames)
  PROVE  /\ FrameUnits(s, i) \in Seq(Unit)
         /\ Len(FrameUnits(s, i)) = Size(s, i)
         /\ FrameUnits(s, i)[1] = <<Op(s, i), i>>
         /\ FrameUnits(s, i)[2] = <<"len", i>>
         /\ s.frames[i].ext => FrameUnits(s, i)[3] = <<"ext", i>>
         /\ \A k \in 1..s.frames[i].data : FrameUnits(s, i)[Delta(s, i) + k] = <<"data", i>>
<1> DEFINE head == <<<<s.frames[i].op, i>>, <<"len", i>>>>
           ext == IF s.frames[i].ext THEN <<<<"ext", i>>>> ELSE <<>>
           data == Data(s, i)
<1>1. /\ head \in Seq(Unit) /\ Len(head) = 2
      /\ head[1] = <<Op(s, i), i>> /\ head[2] = <<"len", i>>
  <2>1. <<Op(s, i), i>> \in Unit /\ <<"len", i>> \in Unit
    BY ScriptFacts, Units
  <2>2. head = <<<<Op(s, i), i>>, <<"len", i>>>>
    BY DEF Op
  <2> HIDE DEF head
  <2> QED BY <2>1, <2>2, Tuples
<1>2. /\ ext \in Seq(Unit) /\ Len(ext) = Delta(s, i) - 2
      /\ s.frames[i].ext => ext[1] = <<"ext", i>>
  <2>1. CASE s.frames[i].ext
    <3>1. <<"ext", i>> \in Unit
      BY Units
    <3>2. ext = <<<<"ext", i>>>> /\ Delta(s, i) = 3
      BY <2>1 DEF Delta
    <3> HIDE DEF ext
    <3> QED BY <3>1, <3>2, Tuples
  <2>2. CASE ~s.frames[i].ext
    <3>1. ext = <<>> /\ Delta(s, i) = 2
      BY <2>2 DEF Delta
    <3> HIDE DEF ext
    <3> QED BY <3>1, <2>2, EmptySeq
  <2> QED BY <2>1, <2>2
<1>3. /\ data \in Seq(Unit) /\ Len(data) = s.frames[i].data
      /\ \A k \in 1..s.frames[i].data : data[k] = <<"data", i>>
  <2>1. s.frames[i].data \in Nat /\ <<"data", i>> \in Unit
    BY ScriptFacts, Units
  <2>2. data = [k \in 1..s.frames[i].data |-> <<"data", i>>]
    BY DEF Data
  <2> HIDE DEF data
  <2>3. data \in [1..s.frames[i].data -> Unit]
    BY <2>1, <2>2
  <2>4. data \in Seq(Unit) /\ Len(data) = s.frames[i].data
    <3> DEFINE n == s.frames[i].data
    <3>1. n \in Nat /\ data \in [1..n -> Unit]
      BY <2>1, <2>3
    <3> HIDE DEF n
    <3>2. data \in Seq(Unit) /\ Len(data) = n
      BY <3>1, FunctionIsSeq
    <3> QED BY <3>2 DEF n
  <2> QED BY <2>2, <2>4
<1> HIDE DEF head, ext, data
<1>4. /\ (head \o ext) \in Seq(Unit) /\ Len(head \o ext) = Delta(s, i)
      /\ (head \o ext)[1] = <<Op(s, i), i>> /\ (head \o ext)[2] = <<"len", i>>
      /\ s.frames[i].ext => (head \o ext)[3] = <<"ext", i>>
  <2>1. /\ (head \o ext) \in Seq(Unit) /\ Len(head \o ext) = 2 + Len(ext)
        /\ \A k \in 1..2 : (head \o ext)[k] = head[k]
        /\ \A k \in 1..Len(ext) : (head \o ext)[2 + k] = ext[k]
    <3>1. head \in Seq(Unit) /\ ext \in Seq(Unit)
      BY <1>1, <1>2
    <3>2. /\ (head \o ext) \in Seq(Unit) /\ Len(head \o ext) = Len(head) + Len(ext)
          /\ \A k \in 1..Len(head) : (head \o ext)[k] = head[k]
          /\ \A k \in 1..Len(ext) : (head \o ext)[Len(head) + k] = ext[k]
      BY <3>1, Concat
    <3> QED BY <3>2, <1>1
  <2>2. Delta(s, i) \in {2, 3} /\ (s.frames[i].ext => Delta(s, i) = 3)
    BY ScriptFacts DEF Delta
  <2> QED BY <2>1, <2>2, <1>1, <1>2
<1>5. FrameUnits(s, i) = (head \o ext) \o data
  BY DEF FrameUnits, head, ext, data
<1> DEFINE h == head \o ext
<1> HIDE DEF h
<1>6. /\ (h \o data) \in Seq(Unit) /\ Len(h \o data) = Len(h) + Len(data)
      /\ \A k \in 1..Len(h) : (h \o data)[k] = h[k]
      /\ \A k \in 1..Len(data) : (h \o data)[Len(h) + k] = data[k]
  <2>1. h \in Seq(Unit) /\ data \in Seq(Unit)
    BY <1>3, <1>4 DEF h
  <2> QED BY <2>1, Concat
<1>7. Len(h) \in {2, 3} /\ Len(h) = Delta(s, i) /\ (s.frames[i].ext => Len(h) = 3)
  BY <1>4, ScriptFacts DEF h, Delta
<1>8. /\ h[1] = <<Op(s, i), i>> /\ h[2] = <<"len", i>>
      /\ s.frames[i].ext => h[3] = <<"ext", i>>
  BY <1>4 DEF h
<1>9. FrameUnits(s, i) = h \o data
  BY <1>5 DEF h
<1>10. Len(FrameUnits(s, i)) = Size(s, i)
  BY <1>3, <1>6, <1>7, <1>9 DEF Size
<1>11. /\ FrameUnits(s, i)[1] = <<Op(s, i), i>>
       /\ FrameUnits(s, i)[2] = <<"len", i>>
       /\ s.frames[i].ext => FrameUnits(s, i)[3] = <<"ext", i>>
  BY <1>6, <1>7, <1>8, <1>9
<1>12. \A k \in 1..s.frames[i].data : FrameUnits(s, i)[Delta(s, i) + k] = <<"data", i>>
  BY <1>3, <1>6, <1>7, <1>9
<1>13. FrameUnits(s, i) \in Seq(Unit)
  BY <1>6, <1>9
<1> QED BY <1>10, <1>11, <1>12, <1>13

\* All units of a frame have its number, and only the first can begin a frame.
LEMMA FrameParts ==
  ASSUME NEW s \in Script, NEW i \in 1..Len(s.frames), NEW k \in 1..Size(s, i)
  PROVE  /\ FrameUnits(s, i)[k][2] = i
         /\ k # 1 => FrameUnits(s, i)[k][1] \in {"len", "ext", "data"}
<1>1. k = 1 \/ k = 2 \/ (s.frames[i].ext /\ k = 3) \/ k - Delta(s, i) \in 1..s.frames[i].data
  <2> DEFINE d == s.frames[i].data
             e == Delta(s, i)
  <2>1. d \in Nat /\ e \in {2, 3} /\ (e = 3 => s.frames[i].ext)
    BY ScriptFacts DEF Delta
  <2>2. k \in 1..e + d
    BY DEF Size
  <2> HIDE DEF d, e
  <2>3. k = 1 \/ k = 2 \/ (e = 3 /\ k = 3) \/ k - e \in 1..d
    BY <2>1, <2>2
  <2> QED BY <2>1, <2>3 DEF d, e
<1>2. CASE k - Delta(s, i) \in 1..s.frames[i].data
  <2>1. k = Delta(s, i) + (k - Delta(s, i))
    BY ScriptFacts
  <2> QED BY <2>1, <1>2, FrameFacts
<1> QED BY <1>1, <1>2, FrameFacts

\* The units of the request.
LEMMA RequestFacts ==
  ASSUME NEW s \in Script
  PROVE  /\ RequestUnits(s) \in Seq(Unit)
         /\ Len(RequestUnits(s)) \in {3, 5}
         /\ \A k \in 1..Len(RequestUnits(s)) :
              /\ RequestUnits(s)[k] \in {Line, Key, Eol, Post}
              /\ RequestUnits(s)[k][2] = 0
              /\ RequestUnits(s)[k][1] \in {"line", "key", "eol", "post"}
         /\ s.request = "ws" => RequestUnits(s) = <<Line, Eol, Key, Eol, Eol>>
<1>1. Line \in Unit /\ Key \in Unit /\ Eol \in Unit /\ Post \in Unit
  BY Units
<1>2. /\ Line[1] = "line" /\ Key[1] = "key" /\ Eol[1] = "eol" /\ Post[1] = "post"
      /\ Line[2] = 0 /\ Key[2] = 0 /\ Eol[2] = 0 /\ Post[2] = 0
  BY DEF Line, Key, Eol, Post
<1>3. ASSUME s.request = "ws" PROVE RequestUnits(s) = <<Line, Eol, Key, Eol, Eol>>
  BY <1>3 DEF RequestUnits
<1>4. ASSUME s.request = "page" PROVE RequestUnits(s) = <<Line, Eol, Eol>>
  BY <1>4 DEF RequestUnits
<1>5. ASSUME s.request = "post" PROVE RequestUnits(s) = <<Post, Eol, Line>>
  BY <1>5 DEF RequestUnits
<1>6. CASE s.request = "ws"
  <2>1. RequestUnits(s) \in Seq(Unit) /\ Len(RequestUnits(s)) = 5
    <3>1. <<Line, Eol, Key, Eol, Eol>> \in Seq(Unit) /\ Len(<<Line, Eol, Key, Eol, Eol>>) = 5
      BY <1>1
    <3> QED BY <3>1, <1>6, <1>3
  <2>2. \A k \in 1..5 : RequestUnits(s)[k] \in {Line, Key, Eol, Post}
    BY <1>6, <1>3
  <2> QED BY <2>1, <2>2, <1>2, <1>3
<1>7. CASE s.request = "page"
  <2>1. RequestUnits(s) \in Seq(Unit) /\ Len(RequestUnits(s)) = 3
    <3>1. <<Line, Eol, Eol>> \in Seq(Unit) /\ Len(<<Line, Eol, Eol>>) = 3
      BY <1>1
    <3> QED BY <3>1, <1>7, <1>4
  <2>2. \A k \in 1..3 : RequestUnits(s)[k] \in {Line, Key, Eol, Post}
    BY <1>7, <1>4
  <2> QED BY <2>1, <2>2, <1>2, <1>7
<1>8. CASE s.request = "post"
  <2>1. RequestUnits(s) \in Seq(Unit) /\ Len(RequestUnits(s)) = 3
    <3>1. <<Post, Eol, Line>> \in Seq(Unit) /\ Len(<<Post, Eol, Line>>) = 3
      BY <1>1
    <3> QED BY <3>1, <1>8, <1>5
  <2>2. \A k \in 1..3 : RequestUnits(s)[k] \in {Line, Key, Eol, Post}
    BY <1>8, <1>5
  <2> QED BY <2>1, <2>2, <1>2, <1>8
<1> QED BY <1>6, <1>7, <1>8, ScriptFacts

\* The number of units before each frame, and in all.
Layout(s, off) ==
  /\ off \in [1..Len(s.frames) + 1 -> Nat]
  /\ off[1] = Len(RequestUnits(s))
  /\ off[Len(s.frames) + 1] = Len(Stream(s))
  /\ \A k \in 1..off[1] : Stream(s)[k] = RequestUnits(s)[k]
  /\ \A i \in 1..Len(s.frames) :
       /\ off[i + 1] = off[i] + Size(s, i)
       /\ \A k \in 1..Size(s, i) : Stream(s)[off[i] + k] = FrameUnits(s, i)[k]
  /\ \A i, j \in 1..Len(s.frames) + 1 : i =< j => off[i] =< off[j]
  /\ \A d \in off[1] + 1..Len(Stream(s)) :
       \E i \in 1..Len(s.frames) : \E k \in 1..Size(s, i) : d = off[i] + k

\* How many units are before each frame, and in all.
Off(s) == CHOOSE off : Layout(s, off)

\* The stream is the request and then the frames, one behind the other.
LEMMA StreamLayout ==
  ASSUME NEW s \in Script
  PROVE  Stream(s) \in Seq(Unit) /\ Layout(s, Off(s))
<1> DEFINE N == Len(s.frames)
           q == [i \in DOMAIN s.frames |-> FrameUnits(s, i)]
           r == RequestUnits(s)
           t == FlattenSeq(q)
<1>1. N \in Nat /\ q \in Seq(Seq(Unit)) /\ Len(q) = N /\ \A i \in 1..N : q[i] = FrameUnits(s, i)
  <2>1. N \in Nat /\ DOMAIN s.frames = 1..N
    BY ScriptFacts
  <2>2. q = [i \in 1..N |-> FrameUnits(s, i)]
    BY <2>1
  <2>3. q \in [1..N -> Seq(Unit)]
    <3> HIDE DEF q
    <3> QED BY <2>2, FrameFacts
  <2> HIDE DEF q
  <2> QED BY <2>1, <2>2, <2>3, FunctionIsSeq
<1>2. \A i \in 1..N : Len(q[i]) = Size(s, i) /\ Size(s, i) \in Nat
  BY <1>1, FrameFacts, ScriptFacts
<1>3. r \in Seq(Unit) /\ Len(r) \in Nat
  BY RequestFacts
<1>4. Stream(s) = r \o t
  BY DEF Stream
<1> HIDE DEF q, r
<1>5. PICK at : Lays(at, t, q, N)
  BY <1>1, Flat
<1>6. t \in Seq(Unit) /\ Len(t) \in Nat
  BY <1>1, Flat
<1> HIDE DEF t
<1>7. /\ (r \o t) \in Seq(Unit) /\ Len(r \o t) = Len(r) + Len(t)
      /\ \A k \in 1..Len(r) : (r \o t)[k] = r[k]
      /\ \A k \in 1..Len(t) : (r \o t)[Len(r) + k] = t[k]
  BY <1>3, <1>6, ConcatProperties
<1> DEFINE off == [i \in 1..N + 1 |-> Len(r) + at[i]]
<1>8. at \in [1..N + 1 -> Nat] /\ at[1] = 0 /\ at[N + 1] = Len(t)
  BY <1>5 DEF Lays
<1> HIDE DEF N
<1>9. /\ off \in [1..N + 1 -> Nat] /\ off[1] = Len(r) /\ off[N + 1] = Len(r \o t)
      /\ \A i \in 1..N + 1 : off[i] = Len(r) + at[i]
  <2>1. 1 \in 1..N + 1 /\ N + 1 \in 1..N + 1
    BY <1>1
  <2>2. \A i \in 1..N + 1 : off[i] = Len(r) + at[i]
    OBVIOUS
  <2>3. \A i \in 1..N + 1 : Len(r) + at[i] \in Nat
    BY <1>3, <1>8
  <2>4. off \in [1..N + 1 -> Nat]
    BY <2>3
  <2> HIDE DEF off
  <2>5. off[1] = Len(r) + 0
    BY <2>1, <2>2, <1>8
  <2>6. off[N + 1] = Len(r) + Len(t)
    BY <2>1, <2>2, <1>8
  <2>7. Len(r) + 0 = Len(r)
    BY <1>3
  <2> QED BY <2>2, <2>4, <2>5, <2>6, <2>7, <1>7
<1> HIDE DEF off
<1>10. ASSUME NEW i \in 1..N
       PROVE  /\ off[i + 1] = off[i] + Size(s, i)
              /\ \A k \in 1..Size(s, i) : (r \o t)[off[i] + k] = FrameUnits(s, i)[k]
  <2>1. /\ at[i + 1] = at[i] + Size(s, i)
        /\ \A k \in 1..Size(s, i) : t[at[i] + k] = FrameUnits(s, i)[k]
    <3>1. q[i] = FrameUnits(s, i) /\ Len(q[i]) = Size(s, i)
      BY <1>1, <1>2
    <3>2. /\ at[i + 1] = at[i] + Len(q[i])
          /\ \A k \in 1..Len(q[i]) : t[at[i] + k] = q[i][k]
      BY <1>5 DEF Lays
    <3> QED BY <3>1, <3>2
  <2>2. i \in 1..N + 1 /\ i + 1 \in 1..N + 1 /\ N + 1 \in 1..N + 1 /\ i + 1 =< N + 1
    BY <1>1
  <2>3. at[i + 1] =< Len(t) /\ at[i] \in Nat
    BY <2>2, <1>5, <1>8 DEF Lays
  <2>4. off[i + 1] = off[i] + Size(s, i)
    <3>1. off[i + 1] = Len(r) + at[i + 1] /\ off[i] = Len(r) + at[i]
      BY <2>2, <1>9
    <3> QED BY <3>1, <2>1, <2>3, <1>2, <1>3
  <2>5. ASSUME NEW k \in 1..Size(s, i)
        PROVE  (r \o t)[off[i] + k] = FrameUnits(s, i)[k]
    <3>1. at[i] + k \in 1..Len(t)
      BY <2>1, <2>3, <1>2, <1>6
    <3>2. off[i] + k = Len(r) + (at[i] + k)
      BY <2>2, <2>3, <1>9, <1>3
    <3> QED BY <3>1, <3>2, <2>1, <1>7
  <2> QED BY <2>4, <2>5
<1>11. ASSUME NEW i \in 1..N + 1, NEW j \in 1..N + 1, i =< j
       PROVE  off[i] =< off[j]
  <2>1. at[i] =< at[j] /\ at[i] \in Nat /\ at[j] \in Nat
    BY <1>11, <1>5, <1>8 DEF Lays
  <2> QED BY <2>1, <1>9, <1>3
<1>12. ASSUME NEW d \in off[1] + 1..Len(r \o t)
       PROVE  \E i \in 1..N : \E k \in 1..Size(s, i) : d = off[i] + k
  <2>1. d - Len(r) \in 1..Len(t)
    BY <1>9, <1>7, <1>3, <1>6
  <2>2. PICK i \in 1..N : \E k \in 1..Len(q[i]) : d - Len(r) = at[i] + k
    BY <2>1, <1>5 DEF Lays
  <2>3. PICK k \in 1..Size(s, i) : d - Len(r) = at[i] + k
    BY <2>2, <1>2
  <2>4. i \in 1..N + 1 /\ at[i] \in Nat
    BY <1>1, <1>8
  <2>5. d = off[i] + k
    <3>1. off[i] = Len(r) + at[i] /\ Size(s, i) \in Nat
      BY <2>4, <1>9, <1>2
    <3> QED BY <3>1, <2>3, <2>4, <1>3
  <2> QED BY <2>5
<1>13. Layout(s, off)
  <2>1. /\ off \in [1..N + 1 -> Nat]
        /\ off[1] = Len(r) /\ off[N + 1] = Len(r \o t)
        /\ \A k \in 1..off[1] : (r \o t)[k] = r[k]
    BY <1>7, <1>9
  <2>2. r = RequestUnits(s) /\ r \o t = Stream(s) /\ N = Len(s.frames)
    BY <1>4 DEF r, N
  <2> QED BY <2>1, <2>2, <1>10, <1>11, <1>12 DEF Layout
<1> QED BY <1>13, <1>4, <1>7 DEF Off

-----------------------------------------------------------------------------
\* What has been read and not handled

\* The stream of the client, the number of its frames, and how many units are
\* before each.
All == Stream(script)
N == Len(script.frames)
Start(j) == Off(script)[j]

\* What is kept of it, in the buffer of the thread or until the rest arrives.
Left == IF buf # <<>> THEN SubSeq(buf, start_position + 1, Len(buf)) ELSE fragment_buf

\* How many units of the stream have been handled.
At == Len(All) - Len(wire) - Len(Left)

\* The units q are those of the stream behind the first d, but for the zero that
\* may have taken the place of the first of a frame.
Matches(q, d) ==
  \A k \in 1..Len(q) :
    \/ q[k] = All[d + k]
    \/ k = 1 /\ \E j \in 1..N : d = Start(j) /\ q[1] = <<"zero", j>>

\* The wire holds the end of the stream.
WireInv ==
  /\ script \in Script
  /\ wire \in Seq(Unit) /\ Len(wire) =< Len(All)
  /\ \A k \in 1..Len(wire) : wire[k] = All[Len(All) - Len(wire) + k]

\* The buffers: what has been read and put together lies within the one of the thread.
BufferInv ==
  /\ buf \in Seq(Unit) /\ fragment_buf \in Seq(Unit)
  /\ start_position \in 0..Len(buf)
  /\ buf # <<>> => connection_type = "WS" /\ fragment_buf = <<>> /\ start_position < Len(buf)
  /\ connection_type = "WS" => state = "open"
  /\ data_size \in Nat \ {0} /\ Len(buf) =< data_size

\* What is left belongs to the stream.
LeftInv == state = "open" => At >= 0 /\ Matches(Left, At)

\* What is answered and executed.
OutputInv ==
  /\ connection_type \in {"NULL", "WS"}
  /\ answer \in {"none", "101", "200", "404"}
  /\ executed \in Seq(Seq(Unit))
  /\ state \in {"open", "server", "client"}

\* The inductive invariant: what is read, kept and done is the stream, in order.
TextInv == WireInv /\ BufferInv /\ LeftInv /\ OutputInv

\* The bounds are numbers.
LEMMA LimitFacts == /\ MaxFragment \in Nat /\ Slack \in Nat /\ BufSize \in Nat \ {0}
                    /\ OtherSizes \subseteq Nat \ {0}
  BY FramesAssumption

\* The end of a sequence is a suffix of it.
LEMMA Suffix ==
  ASSUME NEW X, NEW t \in Seq(X), NEW w \in Seq(X), Len(w) =< Len(t),
         \A k \in 1..Len(w) : w[k] = t[Len(t) - Len(w) + k]
  PROVE  IsSuffix(w, t)
<1> DEFINE a == Reverse(w)
           b == Reverse(t)
<1>1. Len(w) \in Nat /\ Len(t) \in Nat
  OBVIOUS
<1>2. /\ a \in Seq(X) /\ Len(a) = Len(w)
      /\ \A j \in 1..Len(w) : a[j] = w[Len(w) - j + 1]
  <2>1. a = [j \in 1..Len(w) |-> w[Len(w) - j + 1]]
    BY DEF Reverse
  <2>2. \A j \in 1..Len(w) : w[Len(w) - j + 1] \in X
    <3>1. \A j \in 1..Len(w) : Len(w) - j + 1 \in 1..Len(w)
      BY <1>1
    <3> QED BY <3>1, ElementOfSeq
  <2> HIDE DEF a
  <2>3. a \in [1..Len(w) -> X]
    BY <2>1, <2>2
  <2> QED BY <2>1, <2>3, <1>1, FunctionIsSeq
<1>3. /\ b \in Seq(X) /\ Len(b) = Len(t)
      /\ \A j \in 1..Len(t) : b[j] = t[Len(t) - j + 1]
  <2>1. b = [j \in 1..Len(t) |-> t[Len(t) - j + 1]]
    BY DEF Reverse
  <2>2. \A j \in 1..Len(t) : t[Len(t) - j + 1] \in X
    <3>1. \A j \in 1..Len(t) : Len(t) - j + 1 \in 1..Len(t)
      BY <1>1
    <3> QED BY <3>1, ElementOfSeq
  <2> HIDE DEF b
  <2>3. b \in [1..Len(t) -> X]
    BY <2>1, <2>2
  <2> QED BY <2>1, <2>3, <1>1, FunctionIsSeq
<1>4. ASSUME NEW j \in 1..Len(w)
      PROVE  a[j] = b[j]
  <2>1. Len(w) - j + 1 \in 1..Len(w)
    BY <1>1
  <2>2. Len(t) - Len(w) + (Len(w) - j + 1) = Len(t) - j + 1 /\ j \in 1..Len(t)
    BY <1>1
  <2> QED BY <2>1, <2>2, <1>2, <1>3
<1> HIDE DEF a, b
<1>5. /\ Len(a) =< Len(b) /\ Len(a) \in Nat /\ Len(b) \in Nat
      /\ \A j \in 1..Len(a) : a[j] = b[j]
  BY <1>1, <1>2, <1>3, <1>4
<1>6. SubSeq(a, 1, Len(a)) = [j \in 1..Len(a) |-> a[j]]
  BY <1>2, <1>5
<1>7. SubSeq(b, 1, Len(a)) = [j \in 1..Len(a) |-> b[j]]
  BY <1>3, <1>5
<1>8. SubSeq(a, 1, Len(a)) = SubSeq(b, 1, Len(a))
  BY <1>5, <1>6, <1>7
<1> QED BY <1>5, <1>8 DEF IsSuffix, IsPrefix, a, b

\* The invariant has the types.
LEMMA TextTypes ==
  ASSUME TextInv
  PROVE  TypeOK
<1>1. IsSuffix(wire, Stream(script))
  BY StreamLayout, Suffix DEF TextInv, WireInv, All
<1> QED BY <1>1 DEF TextInv, WireInv, BufferInv, OutputInv, TypeOK

\* The stream of this client: the request, and the parts of each frame.
LEMMA Places ==
  ASSUME script \in Script
  PROVE  /\ N \in Nat /\ All \in Seq(Unit) /\ Len(All) \in Nat
         /\ Start(1) \in {3, 5} /\ Start(N + 1) = Len(All)
         /\ \A j \in 1..N + 1 : Start(j) \in Nat /\ Start(1) =< Start(j) /\ Start(j) =< Len(All)
         /\ \A i, j \in 1..N + 1 : i =< j => Start(i) =< Start(j)
         /\ \A j \in 1..N : Start(j + 1) = Start(j) + Size(script, j) /\ Size(script, j) \in Nat
                            /\ Size(script, j) > 2
<1>1. Layout(script, Off(script)) /\ All \in Seq(Unit) /\ Len(All) \in Nat
  BY StreamLayout DEF All
<1>2. N \in Nat /\ \A j \in 1..N : /\ Size(script, j) \in Nat /\ Size(script, j) > 2
  BY ScriptFacts DEF N, Size
<1>3. Start(1) \in {3, 5} /\ Start(N + 1) = Len(All)
  BY <1>1, RequestFacts DEF Layout, Start, N, All
<1>4. \A j \in 1..N + 1 : Start(j) \in Nat
  BY <1>1 DEF Layout, Start, N
<1>5. \A i, j \in 1..N + 1 : i =< j => Start(i) =< Start(j)
  BY <1>1 DEF Layout, Start, N
<1>6. \A j \in 1..N + 1 : Start(1) =< Start(j) /\ Start(j) =< Len(All)
  <2> TAKE j \in 1..N + 1
  <2>1. 1 \in 1..N + 1 /\ N + 1 \in 1..N + 1 /\ 1 =< j /\ j =< N + 1
    BY <1>2
  <2> QED BY <2>1, <1>3, <1>5
<1>7. \A j \in 1..N : Start(j + 1) = Start(j) + Size(script, j)
  BY <1>1 DEF Layout, Start, N
<1> QED BY <1>1, <1>2, <1>3, <1>4, <1>5, <1>6, <1>7

\* A unit of the stream is one of the request, or the k-th of frame j.
LEMMA UnitAt ==
  ASSUME script \in Script
  PROVE  /\ \A d \in 1..Start(1) :
              All[d] = RequestUnits(script)[d]
              /\ All[d][2] = 0 /\ All[d][1] \in {"line", "key", "eol", "post"}
         /\ \A j \in 1..N : \A k \in 1..Size(script, j) :
              /\ All[Start(j) + k] = FrameUnits(script, j)[k]
              /\ All[Start(j) + k][2] = j
              /\ k # 1 => All[Start(j) + k][1] \in {"len", "ext", "data"}
         /\ \A d \in Start(1) + 1..Len(All) :
              \E j \in 1..N : \E k \in 1..Size(script, j) : d = Start(j) + k
<1>1. Layout(script, Off(script))
  BY StreamLayout
<1>2. Start(1) = Len(RequestUnits(script))
  BY <1>1 DEF Layout, Start
<1>3. ASSUME NEW d \in 1..Start(1)
      PROVE  /\ All[d] = RequestUnits(script)[d]
             /\ All[d][2] = 0 /\ All[d][1] \in {"line", "key", "eol", "post"}
  <2>1. All[d] = RequestUnits(script)[d]
    BY <1>1 DEF Layout, Start, All
  <2> QED BY <2>1, <1>2, RequestFacts
<1>4. ASSUME NEW j \in 1..N, NEW k \in 1..Size(script, j)
      PROVE  /\ All[Start(j) + k] = FrameUnits(script, j)[k]
             /\ All[Start(j) + k][2] = j
             /\ k # 1 => All[Start(j) + k][1] \in {"len", "ext", "data"}
  <2>1. All[Start(j) + k] = FrameUnits(script, j)[k]
    BY <1>1 DEF Layout, Start, All, N
  <2> QED BY <2>1, FrameParts DEF N
<1>5. \A d \in Start(1) + 1..Len(All) :
        \E j \in 1..N : \E k \in 1..Size(script, j) : d = Start(j) + k
  BY <1>1 DEF Layout, Start, All, N
<1> QED BY <1>3, <1>4, <1>5

\* What a thread sees of the buffer.
LEMMA LeftFacts ==
  ASSUME TextInv
  PROVE  /\ Left \in Seq(Unit) /\ Len(Left) \in Nat /\ At \in Int
         /\ buf = <<>> => Left = fragment_buf
         /\ buf # <<>> => /\ Len(Left) = len /\ len > 0
                          /\ Left = SubSeq(buf, start_position + 1, Len(buf))
                          /\ \A k \in 1..len : Left[k] = buf[start_position + k]
                          /\ \A k \in 0..len - 1 : p(k) = Left[k + 1]
                          /\ \A k \in Nat : k >= len => p(k) = <<"zero", 0>>
<1>1. /\ buf \in Seq(Unit) /\ fragment_buf \in Seq(Unit) /\ wire \in Seq(Unit)
      /\ Len(buf) \in Nat /\ start_position \in 0..Len(buf)
  BY DEF TextInv, BufferInv, WireInv
<1>2. Len(All) \in Nat
  BY Places DEF TextInv, WireInv
<1>3. CASE buf = <<>>
  <2>1. Left = fragment_buf
    BY <1>3 DEF Left
  <2> QED BY <2>1, <1>1, <1>2, <1>3 DEF At
<1>4. CASE buf # <<>>
  <2>1. Left = SubSeq(buf, start_position + 1, Len(buf)) /\ start_position < Len(buf)
    BY <1>4 DEF Left, TextInv, BufferInv
  <2>2. /\ Left \in Seq(Unit) /\ Len(Left) = Len(buf) - start_position
        /\ \A k \in 1..Len(buf) - start_position : Left[k] = buf[start_position + k]
    <3>1. start_position + 1 \in 1..Len(buf) + 1 /\ start_position + 1 =< Len(buf) + 1
      BY <1>1, <2>1
    <3>2. Len(Left) = Len(buf) - (start_position + 1) + 1
      BY <3>1, <2>1, <1>1, SubSeqProperties
    <3>3. Left \in Seq(Unit)
      BY <3>1, <2>1, <1>1, SubSeqProperties
    <3>4. ASSUME NEW k \in 1..Len(buf) - start_position
          PROVE  Left[k] = buf[start_position + k]
      <4>1. Left[k] = buf[(start_position + 1) + k - 1]
        BY <3>1, <3>4, <2>1, <1>1, SubSeqProperties
      <4> QED BY <4>1, <1>1
    <3> QED BY <3>2, <3>3, <3>4, <1>1
  <2>3. ASSUME NEW k \in 0..len - 1
        PROVE  p(k) = Left[k + 1]
    <3>1. start_position + k < Len(buf) /\ k + 1 \in 1..Len(buf) - start_position
      BY <1>1 DEF len
    <3>2. start_position + (k + 1) = start_position + k + 1
      BY <1>1
    <3> QED BY <3>1, <3>2, <2>2 DEF p
  <2>4. ASSUME NEW k \in Nat, k >= len
        PROVE  p(k) = <<"zero", 0>>
    BY <2>4, <1>1 DEF p, len
  <2>5. len > 0 /\ Len(Left) = len /\ At \in Int
    BY <2>1, <2>2, <1>1, <1>2 DEF len, At
  <2> QED BY <1>4, <2>1, <2>2, <2>3, <2>4, <2>5 DEF len
<1> QED BY <1>3, <1>4

\* What has not been handled is the stream from At on.
LEMMA LeftIsStream ==
  ASSUME TextInv, Handling
  PROVE  /\ At \in Nat /\ At + len =< Len(All)
         /\ \A k \in 1..len : \/ Left[k] = All[At + k]
                              \/ k = 1 /\ \E j \in 1..N : At = Start(j) /\ Left[1] = <<"zero", j>>
<1>1. /\ Len(Left) = len /\ len > 0 /\ len \in Nat /\ At \in Int
  BY LeftFacts DEF Handling
<1>2. Len(wire) \in Nat /\ Len(All) \in Nat
  BY Places DEF TextInv, WireInv
<1>3. At >= 0 /\ Matches(Left, At)
  BY DEF TextInv, LeftInv, Handling
<1>4. At + len =< Len(All)
  BY <1>1, <1>2 DEF At
<1> QED BY <1>1, <1>3, <1>4 DEF Matches

\* An opcode, or the zero in its place, is read where a frame begins.
LEMMA FrameBegins ==
  ASSUME TextInv, Handling, p(0)[1] \in {"text", "binary", "zero", "pong", "close"}
  PROVE  \E j \in 1..N : At = Start(j) /\ p(0)[1] \in {"zero", Op(script, j)}
<1>1. p(0) = Left[1] /\ len > 0 /\ len \in Nat
  BY LeftFacts DEF Handling
<1>2. /\ At \in Nat /\ At + len =< Len(All)
      /\ \/ Left[1] = All[At + 1]
         \/ \E j \in 1..N : At = Start(j) /\ Left[1] = <<"zero", j>>
  BY <1>1, LeftIsStream
<1>3. script \in Script
  BY DEF TextInv, WireInv
<1>4. CASE Left[1] = All[At + 1]
  <2>1. Start(1) \in Nat /\ Len(All) \in Nat
    BY <1>3, Places
  <2>2. At + 1 \notin 1..Start(1)
    BY <1>4, <1>1, <1>3, UnitAt
  <2>3. At + 1 \in Start(1) + 1..Len(All)
    BY <2>1, <2>2, <1>1, <1>2
  <2>4. PICK j \in 1..N : \E k \in 1..Size(script, j) : At + 1 = Start(j) + k
    BY <2>3, <1>3, UnitAt
  <2>5. PICK k \in 1..Size(script, j) : At + 1 = Start(j) + k
    BY <2>4
  <2>6. k = 1
    BY <2>5, <1>1, <1>3, <1>4, UnitAt
  <2>7. Start(j) \in Nat /\ j \in 1..Len(script.frames)
    BY <1>3, Places DEF N
  <2>8. At = Start(j)
    BY <2>5, <2>6, <2>7, <1>2
  <2>9. Left[1] = FrameUnits(script, j)[1]
    BY <2>5, <2>6, <1>3, <1>4, UnitAt
  <2>10. Left[1] = <<Op(script, j), j>>
    BY <2>9, <2>7, <1>3, FrameFacts
  <2> QED BY <2>8, <2>10, <1>1
<1> QED BY <1>1, <1>2, <1>4

\* What the handler finds out about frame j when it is there.
LEMMA FrameHere ==
  ASSUME TextInv, Handling, NEW j \in 1..N, At = Start(j)
  PROVE  /\ len > 1 => /\ p(1) = <<"len", j>>
                       /\ delta_len = Delta(script, j)
                       /\ msg_data_len = script.frames[j].data
         /\ Arrived <=> len >= Size(script, j)
         /\ Arrived => [k \in 1..msg_data_len |-> p(delta_len + k - 1)] = Data(script, j)
<1>1. /\ len > 0 /\ len \in Nat /\ script \in Script /\ j \in 1..Len(script.frames)
      /\ \A k \in 0..len - 1 : p(k) = Left[k + 1]
  BY LeftFacts DEF Handling, TextInv, WireInv, N
<1>2. \A k \in 2..len : Left[k] = All[Start(j) + k]
  BY LeftIsStream
<1>3. /\ script.frames[j].data \in Nat \ {0} /\ Delta(script, j) \in {2, 3}
      /\ script.frames[j].ext \in BOOLEAN
      /\ Delta(script, j) = IF script.frames[j].ext THEN 3 ELSE 2
      /\ Size(script, j) = Delta(script, j) + script.frames[j].data
      /\ Size(script, j) \in Nat
  BY <1>1, ScriptFacts DEF Delta, Size
<1>4. \A k \in 1..Size(script, j) : All[Start(j) + k] = FrameUnits(script, j)[k]
  BY <1>1, UnitAt
<1>5. FrameUnits(script, j)[2] = <<"len", j>>
  BY <1>1, FrameFacts
<1>6. ASSUME len > 1
      PROVE  /\ p(1) = <<"len", j>>
             /\ delta_len = Delta(script, j)
             /\ msg_data_len = script.frames[j].data
             /\ Ext = script.frames[j].ext
  <2>1. p(1) = Left[2] /\ Left[2] = All[Start(j) + 2]
    BY <1>1, <1>2, <1>6
  <2>2. All[Start(j) + 2] = FrameUnits(script, j)[2]
    BY <1>3, <1>4
  <2>3. p(1) = <<"len", j>> /\ p(1)[1] = "len" /\ p(1)[2] = j
    BY <2>1, <2>2, <1>5
  <2>4. Ext = script.frames[j].ext
    BY <2>3, <1>3 DEF Ext
  <2>5. delta_len = Delta(script, j) /\ msg_data_len = script.frames[j].data
    BY <2>3, <2>4, <1>3 DEF delta_len, msg_data_len
  <2> QED BY <2>3, <2>4, <2>5
<1>7. Arrived <=> len >= Size(script, j)
  <2>1. CASE len > 1
    BY <2>1, <1>1, <1>3, <1>6 DEF Arrived
  <2>2. CASE ~(len > 1)
    BY <2>2, <1>1, <1>3 DEF Arrived
  <2> QED BY <2>1, <2>2
<1>8. ASSUME Arrived
      PROVE  [k \in 1..msg_data_len |-> p(delta_len + k - 1)] = Data(script, j)
  <2>1. len > 1 /\ len >= Size(script, j)
    BY <1>8, <1>7 DEF Arrived
  <2>2. ASSUME NEW k \in 1..script.frames[j].data
        PROVE  p(Delta(script, j) + k - 1) = <<"data", j>>
    <3>1. /\ Delta(script, j) + k - 1 \in 0..len - 1
          /\ Delta(script, j) + k - 1 + 1 = Delta(script, j) + k
          /\ Delta(script, j) + k \in 2..len
          /\ Delta(script, j) + k \in 1..Size(script, j)
      <4>1. k \in Nat /\ k >= 1 /\ k =< script.frames[j].data
        BY <1>3
      <4> QED BY <4>1, <2>1, <1>1, <1>3
    <3>2. p(Delta(script, j) + k - 1) = All[Start(j) + (Delta(script, j) + k)]
      BY <3>1, <1>1, <1>2
    <3>3. All[Start(j) + (Delta(script, j) + k)] = FrameUnits(script, j)[Delta(script, j) + k]
      BY <3>1, <1>4
    <3>4. FrameUnits(script, j)[Delta(script, j) + k] = <<"data", j>>
      BY <1>1, FrameFacts
    <3> QED BY <3>2, <3>3, <3>4
  <2>3. msg_data_len = script.frames[j].data /\ delta_len = Delta(script, j)
    BY <2>1, <1>6
  <2> HIDE DEF p
  <2> QED BY <2>2, <2>3 DEF Data
<1> QED BY <1>6, <1>7, <1>8

-----------------------------------------------------------------------------
\* The steps and the text

\* What the next state leaves matches the stream of the same client.
LEMMA LeftNext ==
  ASSUME script' = script,
         state' = "open" =>
           /\ At' >= 0
           /\ \A k \in 1..Len(Left') :
                \/ Left'[k] = All[At' + k]
                \/ k = 1 /\ \E j \in 1..N : At' = Start(j) /\ Left'[1] = <<"zero", j>>
  PROVE  LeftInv'
<1>1. All' = All /\ N' = N /\ \A j : Start(j)' = Start(j)
  BY DEF All, N, Start
<1> QED BY <1>1 DEF LeftInv, Matches

\* Nothing is left.
LEMMA NothingLeft ==
  ASSUME script' = script, WireInv', Left' = <<>>
  PROVE  LeftInv'
<1>1. Len(wire') \in Nat /\ Len(wire') =< Len(All') /\ All' = All /\ Len(All') \in Nat
  BY Places, LenProperties DEF WireInv, All
<1>2. At' >= 0
  BY <1>1 DEF At
<1> QED BY <1>2, LeftNext

\* The wire is not read.
LEMMA WireStays ==
  ASSUME TextInv, script' = script, wire' = wire
  PROVE  WireInv'
  BY DEF TextInv, WireInv, All

\* A read takes the next units, which belong behind those that are left.
LEMMA ReadFacts ==
  ASSUME TextInv, Waits, NEW n \in 1..data_size, Sent(n), script' = script,
         wire' = SubSeq(wire, n + 1, Len(wire))
  PROVE  /\ WireInv'
         /\ n =< Len(wire) /\ Len(wire') = Len(wire) - n
         /\ Left = fragment_buf /\ At \in Nat
         /\ Assembled(n) \in Seq(Unit) /\ Len(Assembled(n)) = Len(fragment_buf) + n
         /\ Assembled(n) # <<>> /\ Last(Assembled(n)) = wire[n]
         /\ \A k \in 1..Len(Assembled(n)) :
              \/ Assembled(n)[k] = All[At + k]
              \/ k = 1 /\ \E j \in 1..N : At = Start(j) /\ Assembled(n)[1] = <<"zero", j>>
<1>1. /\ wire \in Seq(Unit) /\ Len(wire) \in Nat /\ Len(wire) =< Len(All) /\ Len(All) \in Nat
      /\ fragment_buf \in Seq(Unit) /\ Len(fragment_buf) \in Nat
      /\ \A k \in 1..Len(wire) : wire[k] = All[Len(All) - Len(wire) + k]
  BY Places DEF TextInv, WireInv, BufferInv
<1>2. n =< Len(wire) /\ n \in Nat /\ n >= 1
  BY DEF Sent, TextInv, BufferInv
<1>3. Left = fragment_buf
  BY DEF Left, Waits
<1>4. At = Len(All) - Len(wire) - Len(fragment_buf) /\ At \in Nat /\ Matches(fragment_buf, At)
  BY <1>1, <1>3 DEF At, Waits, TextInv, LeftInv
<1> DEFINE a == SubSeq(wire, 1, n)
           b == SubSeq(wire, n + 1, Len(wire))
<1>5. /\ a \in Seq(Unit) /\ Len(a) = n
      /\ \A k \in 1..n : a[k] = wire[k]
  <2>1. a \in Seq(Unit) /\ Len(a) = n - 1 + 1
    BY <1>1, <1>2, SubSeqProperties
  <2>2. \A k \in 1..n : a[k] = wire[1 + k - 1]
    BY <1>1, <1>2, SubSeqProperties
  <2>3. \A k \in 1..n : 1 + k - 1 = k
    OBVIOUS
  <2> QED BY <2>1, <2>2, <2>3, <1>2
<1>6. /\ b \in Seq(Unit) /\ Len(b) = Len(wire) - n
      /\ \A k \in 1..Len(wire) - n : b[k] = wire[n + k]
  <2>1. n + 1 =< Len(wire) + 1 /\ n + 1 \in 1..Len(wire) + 1
    BY <1>1, <1>2
  <2>2. b \in Seq(Unit) /\ Len(b) = Len(wire) - (n + 1) + 1
    BY <1>1, <2>1, SubSeqProperties
  <2>3. ASSUME NEW k \in 1..Len(wire) - n
        PROVE  b[k] = wire[n + k]
    <3>1. b[k] = wire[(n + 1) + k - 1]
      BY <2>1, <2>3, <1>1, <1>2, SubSeqProperties
    <3>2. (n + 1) + k - 1 = n + k
      BY <1>2
    <3> QED BY <3>1, <3>2
  <2> QED BY <2>2, <2>3, <1>1, <1>2
<1>7. wire' = b /\ Assembled(n) = fragment_buf \o a
  BY DEF Assembled
<1> HIDE DEF a, b
<1>8. WireInv'
  <2>1. ASSUME NEW k \in 1..Len(b)
        PROVE  b[k] = All[Len(All) - Len(b) + k]
    <3>1. n + k \in 1..Len(wire) /\ Len(All) - Len(wire) + (n + k) = Len(All) - Len(b) + k
      BY <1>1, <1>2, <1>6, <2>1
    <3> QED BY <3>1, <1>1, <1>6, <2>1
  <2>2. All' = All
    BY DEF All
  <2>3. Len(b) =< Len(All)
    BY <1>1, <1>2, <1>6
  <2> QED BY <2>1, <2>2, <2>3, <1>6, <1>7 DEF WireInv, TextInv
<1>9. /\ Assembled(n) \in Seq(Unit) /\ Len(Assembled(n)) = Len(fragment_buf) + n
      /\ \A k \in 1..Len(fragment_buf) : Assembled(n)[k] = fragment_buf[k]
      /\ \A k \in 1..n : Assembled(n)[Len(fragment_buf) + k] = wire[k]
  <2>1. /\ fragment_buf \o a \in Seq(Unit) /\ Len(fragment_buf \o a) = Len(fragment_buf) + Len(a)
        /\ \A k \in 1..Len(fragment_buf) : (fragment_buf \o a)[k] = fragment_buf[k]
        /\ \A k \in 1..Len(a) : (fragment_buf \o a)[Len(fragment_buf) + k] = a[k]
    <3>1. fragment_buf \in Seq(Unit) /\ a \in Seq(Unit)
      BY <1>1, <1>5
    <3> QED BY <3>1, Concat
  <2> QED BY <2>1, <1>5, <1>7
<1>10. Assembled(n) # <<>> /\ Last(Assembled(n)) = wire[n]
  BY <1>9, <1>1, <1>2, EmptySeq DEF Last
<1>11. ASSUME NEW k \in 1..Len(Assembled(n))
       PROVE  \/ Assembled(n)[k] = All[At + k]
              \/ k = 1 /\ \E j \in 1..N : At = Start(j) /\ Assembled(n)[1] = <<"zero", j>>
  <2>1. CASE k \in 1..Len(fragment_buf)
    <3>1. \/ fragment_buf[k] = All[At + k]
          \/ k = 1 /\ \E j \in 1..N : At = Start(j) /\ fragment_buf[1] = <<"zero", j>>
      BY <2>1, <1>4 DEF Matches
    <3> QED BY <3>1, <2>1, <1>9
  <2>2. CASE k \notin 1..Len(fragment_buf)
    <3>1. PICK m \in 1..n : k = Len(fragment_buf) + m
      <4>1. k - Len(fragment_buf) \in 1..n /\ k = Len(fragment_buf) + (k - Len(fragment_buf))
        BY <2>2, <1>1, <1>2, <1>9, <1>11
      <4> QED BY <4>1
    <3>2. m \in 1..Len(wire) /\ Len(All) - Len(wire) + m = At + k
      BY <3>1, <1>1, <1>2, <1>4
    <3>3. Assembled(n)[k] = wire[m]
      BY <3>1, <1>9
    <3>4. wire[m] = All[Len(All) - Len(wire) + m]
      BY <3>2, <1>1
    <3> QED BY <3>2, <3>3, <3>4
  <2> QED BY <2>1, <2>2
<1> QED BY <1>2, <1>3, <1>4, <1>6, <1>7, <1>8, <1>9, <1>10, <1>11

\* A connection that is closed leaves nothing to match.
LEMMA CloseText ==
  ASSUME TextInv, WireInv', NEW who \in {"server", "client"}, Close(who),
         answer' \in {"none", "101", "200", "404"}, data_size' \in Nat \ {0}
  PROVE  TextInv'
<1>1. BufferInv'
  <2>1. <<>> \in Seq(Unit) /\ Len(<<>>) = 0
    BY EmptySeq
  <2> QED BY <2>1 DEF Close, BufferInv, TextInv
<1>2. LeftInv'
  BY DEF Close, LeftInv
<1>3. OutputInv'
  BY DEF Close, OutputInv, TextInv
<1> QED BY <1>1, <1>2, <1>3 DEF TextInv

\* Whatever is put together has room in the buffer.
LEMMA SizeStep ==
  ASSUME TextInv, NEW n \in 1..data_size, SetSize(n)
  PROVE  /\ data_size' \in Nat \ {0}
         /\ fragment_buf # <<>> \/ data_size' = data_size
         /\ Len(fragment_buf) + n =< data_size'
<1>1. /\ data_size \in Nat \ {0} /\ n \in Nat \ {0} /\ n =< data_size
      /\ Len(fragment_buf) \in Nat /\ Slack \in Nat
  BY LimitFacts DEF TextInv, BufferInv
<1>2. CASE fragment_buf = <<>>
  <2>1. Len(fragment_buf) = 0
    BY <1>2, EmptySeq
  <2> QED BY <1>1, <1>2, <2>1 DEF SetSize
<1>3. CASE fragment_buf # <<>>
  BY <1>1, <1>3 DEF SetSize
<1> QED BY <1>2, <1>3

\* Another connection of the thread leaves another size of its buffer.
LEMMA OthersText ==
  ASSUME TextInv, Others
  PROVE  TextInv' /\ At' = At /\ Left' = Left
<1>1. /\ UNCHANGED <<script, wire, buf, start_position, fragment_buf, connection_type,
                     answer, executed, state>>
      /\ data_size' \in Nat \ {0} /\ buf = <<>>
  BY LimitFacts DEF Others, Waits
<1>2. BufferInv'
  <2>1. Len(buf) = 0
    BY <1>1, EmptySeq
  <2> QED BY <1>1, <2>1 DEF BufferInv, TextInv
<1> QED BY <1>1, <1>2 DEF TextInv, WireInv, LeftInv, OutputInv, All, At, Left, Matches, Start, N

\* TextInv is inductive: one lemma per action.
LEMMA InitText == Init => TextInv
<1> SUFFICES ASSUME Init PROVE TextInv
  OBVIOUS
<1>1. script \in Script /\ wire = All /\ All \in Seq(Unit) /\ Len(All) \in Nat
  BY Places DEF Init, All
<1>2. WireInv
  <2>1. ASSUME NEW k \in 1..Len(wire) PROVE wire[k] = All[Len(All) - Len(wire) + k]
    <3>1. Len(All) - Len(wire) + k = k
      BY <1>1
    <3> QED BY <3>1, <1>1
  <2> QED BY <1>1, <2>1 DEF WireInv
<1>3. <<>> \in Seq(Unit) /\ Len(<<>>) = 0 /\ <<>> \in Seq(Seq(Unit))
  BY EmptySeq
<1>4. BufferInv
  BY <1>3, LimitFacts DEF Init, BufferInv
<1>5. Left = <<>>
  BY DEF Init, Left
<1>6. LeftInv
  BY <1>1, <1>3, <1>5 DEF LeftInv, Matches, At
<1>7. OutputInv
  BY <1>3 DEF Init, OutputInv
<1> QED BY <1>2, <1>4, <1>6, <1>7 DEF TextInv

\* A part of the request is read.
LEMMA RequestText ==
  ASSUME TextInv, NEW n \in 1..data_size, Request(n)
  PROVE  TextInv'
<1>1. script' = script
  BY DEF Request, Close
<1>2. /\ WireInv'
      /\ n =< Len(wire) /\ Len(wire') = Len(wire) - n
      /\ Left = fragment_buf /\ At \in Nat
      /\ Assembled(n) \in Seq(Unit) /\ Len(Assembled(n)) = Len(fragment_buf) + n
      /\ \A k \in 1..Len(Assembled(n)) :
           \/ Assembled(n)[k] = All[At + k]
           \/ k = 1 /\ \E j \in 1..N : At = Start(j) /\ Assembled(n)[1] = <<"zero", j>>
  <2>1. Waits /\ Sent(n) /\ wire' = SubSeq(wire, n + 1, Len(wire))
    BY DEF Request
  <2> QED BY <2>1, <1>1, ReadFacts
<1>3. /\ buf = <<>> /\ state = "open" /\ connection_type = "NULL"
      /\ Len(<<>>) = 0 /\ data_size' \in Nat \ {0}
  <2>1. SetSize(n)
    BY DEF Request
  <2> QED BY <2>1, SizeStep, EmptySeq DEF Request, Waits
<1>4. CASE Incomplete(Assembled(n))
  <2>1. /\ fragment_buf' = Assembled(n)
        /\ UNCHANGED <<script, buf, start_position, connection_type, answer, executed, state>>
    BY <1>4 DEF Request
  <2>2. BufferInv'
    BY <2>1, <1>2, <1>3 DEF BufferInv, TextInv
  <2>3. Left' = Assembled(n)
    BY <2>1, <1>3 DEF Left
  <2>4. At' = At
    <3>1. /\ At = Len(All) - Len(wire) - Len(fragment_buf)
          /\ At' = Len(All) - Len(wire') - Len(Assembled(n))
      BY <1>2, <2>1, <2>3 DEF At, All
    <3>2. Len(All) \in Nat /\ Len(wire) \in Nat /\ Len(fragment_buf) \in Nat /\ n \in Nat
      BY Places, LimitFacts DEF TextInv, WireInv, BufferInv
    <3> QED BY <3>1, <3>2, <1>2
  <2>5. LeftInv'
    <3>1. At' >= 0
      BY <2>4, <1>2
    <3>2. \A k \in 1..Len(Left') :
            \/ Left'[k] = All[At' + k]
            \/ k = 1 /\ \E j \in 1..N : At' = Start(j) /\ Left'[1] = <<"zero", j>>
      <4> SUFFICES ASSUME NEW k \in 1..Len(Assembled(n))
                   PROVE  \/ Assembled(n)[k] = All[At + k]
                          \/ k = 1 /\ \E j \in 1..N : At = Start(j) /\ Assembled(n)[1] = <<"zero", j>>
        BY <2>3, <2>4
      <4> QED BY <1>2
    <3> QED BY <1>1, <3>1, <3>2, LeftNext
  <2>6. OutputInv'
    BY <2>1 DEF OutputInv, TextInv
  <2> QED BY <1>2, <2>2, <2>5, <2>6 DEF TextInv
<1>5. CASE ~Incomplete(Assembled(n)) /\ script.request = "ws" /\ HasKey(Assembled(n))
  <2>1. /\ connection_type' = "WS" /\ answer' = "101" /\ fragment_buf' = <<>>
        /\ UNCHANGED <<script, buf, start_position, executed, state>>
    BY <1>5 DEF Request
  <2>2. BufferInv'
    <3>1. <<>> \in Seq(Unit) /\ Len(<<>>) = 0
      BY EmptySeq
    <3> QED BY <2>1, <3>1, <1>3 DEF BufferInv, TextInv
  <2>3. Left' = <<>>
    BY <2>1, <1>3 DEF Left
  <2>4. LeftInv'
    BY <2>1, <2>3, <1>2, NothingLeft
  <2>5. OutputInv'
    BY <2>1 DEF OutputInv, TextInv
  <2> QED BY <1>2, <2>2, <2>4, <2>5 DEF TextInv
<1>6. CASE ~Incomplete(Assembled(n)) /\ ~(script.request = "ws" /\ HasKey(Assembled(n)))
  <2>1. Close("server") /\ answer' \in {"none", "200", "404"}
    BY <1>6 DEF Request
  <2> QED BY <2>1, <1>2, <1>3, CloseText
<1> QED BY <1>4, <1>5, <1>6

\* A frame or a piece of it is in the buffer behind what was kept, and no unit is
\* lost between them.
LEMMA MessageFacts ==
  ASSUME TextInv, NEW n \in 1..data_size, Message(n),
         ~(fragment_buf # <<>> /\ Len(fragment_buf) + n >= MaxFragment)
  PROVE  /\ start_position = 0 /\ Left' = Assembled(n) /\ At' = At
         /\ buf' = Assembled(n) /\ fragment_buf' = <<>>
         /\ UNCHANGED <<script, start_position, connection_type, answer, executed, state>>
<1>1. /\ Waits /\ Sent(n) /\ wire' = SubSeq(wire, n + 1, Len(wire)) /\ buf = <<>>
      /\ buf' = Assembled(n) /\ fragment_buf' = <<>>
      /\ UNCHANGED <<script, start_position, connection_type, answer, executed, state>>
  BY DEF Message, Waits
<1>2. /\ Len(wire') = Len(wire) - n /\ Left = fragment_buf
      /\ Assembled(n) \in Seq(Unit) /\ Len(Assembled(n)) = Len(fragment_buf) + n
      /\ Assembled(n) # <<>>
  BY <1>1, ReadFacts
<1>3. start_position = 0
  <2>1. Len(<<>>) = 0
    BY EmptySeq
  <2> QED BY <2>1, <1>1 DEF TextInv, BufferInv
<1>4. Left' = Assembled(n)
  <2>1. SubSeq(Assembled(n), 1, Len(Assembled(n))) = Assembled(n)
    BY <1>2, SubSeqFull
  <2>2. Left' = SubSeq(Assembled(n), 0 + 1, Len(Assembled(n)))
    BY <1>1, <1>2, <1>3 DEF Left
  <2> QED BY <2>1, <2>2
<1>5. At' = At
  <2>1. /\ At = Len(All) - Len(wire) - Len(fragment_buf)
        /\ At' = Len(All) - Len(wire') - Len(Assembled(n))
    BY <1>1, <1>2, <1>4 DEF At, All
  <2>2. Len(All) \in Nat /\ Len(wire) \in Nat /\ Len(fragment_buf) \in Nat /\ n \in Nat
    BY Places, LimitFacts DEF TextInv, WireInv, BufferInv
  <2> QED BY <2>1, <2>2, <1>2
<1> QED BY <1>1, <1>3, <1>4, <1>5

\* A part of the frames is read.
LEMMA MessageText ==
  ASSUME TextInv, NEW n \in 1..data_size, Message(n)
  PROVE  TextInv'
<1>1. script' = script /\ answer' = answer
  BY DEF Message, Close
<1>2. /\ WireInv'
      /\ n =< Len(wire) /\ Len(wire') = Len(wire) - n
      /\ Left = fragment_buf /\ At \in Nat
      /\ Assembled(n) \in Seq(Unit) /\ Len(Assembled(n)) = Len(fragment_buf) + n
      /\ Assembled(n) # <<>>
      /\ \A k \in 1..Len(Assembled(n)) :
           \/ Assembled(n)[k] = All[At + k]
           \/ k = 1 /\ \E j \in 1..N : At = Start(j) /\ Assembled(n)[1] = <<"zero", j>>
  <2>1. Waits /\ Sent(n) /\ wire' = SubSeq(wire, n + 1, Len(wire))
    BY DEF Message
  <2> QED BY <2>1, <1>1, ReadFacts
<1>3. buf = <<>> /\ state = "open" /\ connection_type = "WS" /\ start_position = 0
  <2>1. Len(<<>>) = 0
    BY EmptySeq
  <2> QED BY <2>1 DEF Message, Waits, TextInv, BufferInv
<1>4. CASE fragment_buf # <<>> /\ Len(fragment_buf) + n >= MaxFragment
  <2>1. Close("server") /\ data_size' \in Nat \ {0}
    BY <1>4 DEF Message, TextInv, BufferInv
  <2>2. answer' \in {"none", "101", "200", "404"}
    BY <1>1 DEF TextInv, OutputInv
  <2> QED BY <2>1, <2>2, <1>2, CloseText
<1>5. CASE ~(fragment_buf # <<>> /\ Len(fragment_buf) + n >= MaxFragment)
  <2>1. /\ buf' = Assembled(n) /\ fragment_buf' = <<>>
        /\ UNCHANGED <<script, start_position, connection_type, executed, state>>
    BY <1>5 DEF Message
  <2>2. <<>> \in Seq(Unit) /\ Len(<<>>) = 0
    BY EmptySeq
  <2>3. Len(fragment_buf) \in Nat /\ n \in Nat /\ n >= 1
    BY DEF TextInv, BufferInv
  <2>4. data_size' \in Nat \ {0} /\ Len(Assembled(n)) =< data_size'
    <3>1. SetSize(n)
      BY <1>5 DEF Message
    <3> QED BY <3>1, <1>2, SizeStep
  <2>5. start_position' = 0 /\ 0 \in 0..Len(Assembled(n)) /\ 0 < Len(Assembled(n))
    BY <2>1, <2>3, <1>2, <1>3
  <2>6. BufferInv'
    BY <2>1, <2>2, <2>4, <2>5, <1>2, <1>3 DEF BufferInv
  <2>7. Left' = Assembled(n)
    BY <1>5, MessageFacts
  <2>8. At' = At
    BY <1>5, MessageFacts
  <2>9. LeftInv'
    BY <2>1, <2>7, <2>8, <1>2, LeftNext
  <2>10. OutputInv'
    BY <2>1, <1>1 DEF OutputInv, TextInv
  <2> QED BY <1>2, <2>6, <2>9, <2>10 DEF TextInv
<1> QED BY <1>4, <1>5

\* The answer to a ping: the rest of what was read is dropped.
LEMMA PongText ==
  ASSUME TextInv, Pong
  PROVE  TextInv'
<1>1. /\ Handling /\ buf' = <<>> /\ start_position' = 0
      /\ UNCHANGED <<script, wire, data_size, connection_type, answer, state, fragment_buf,
                     executed>>
  BY DEF Pong, Done
<1>2. fragment_buf = <<>> /\ <<>> \in Seq(Unit) /\ Len(<<>>) = 0
  BY <1>1, EmptySeq DEF Handling, TextInv, BufferInv
<1>3. WireInv'
  BY <1>1, WireStays
<1>4. BufferInv'
  BY <1>1, <1>2 DEF BufferInv, TextInv
<1>5. Left' = <<>>
  BY <1>1, <1>2 DEF Left
<1>6. LeftInv'
  BY <1>1, <1>3, <1>5, NothingLeft
<1>7. OutputInv'
  BY <1>1 DEF OutputInv, TextInv
<1> QED BY <1>3, <1>4, <1>6, <1>7 DEF TextInv

\* The connection is closed.
LEMMA ThrownOutText ==
  ASSUME TextInv, NEW who \in {"server", "client"}, Close(who),
         UNCHANGED <<wire, answer, data_size>>
  PROVE  TextInv'
<1>1. WireInv'
  BY WireStays DEF Close
<1>2. answer' \in {"none", "101", "200", "404"} /\ data_size' \in Nat \ {0}
  BY DEF TextInv, BufferInv, OutputInv
<1> QED BY <1>1, <1>2, CloseText

\* A frame that is not complete is kept.
LEMMA KeepText ==
  ASSUME TextInv, Keep
  PROVE  TextInv' /\ Left' = Left /\ At' = At
<1>1. /\ Handling /\ buf' = <<>> /\ start_position' = 0
      /\ fragment_buf' = SubSeq(buf, start_position + 1, Len(buf))
      /\ UNCHANGED <<script, wire, connection_type, answer, state, executed>>
  BY DEF Keep, Done
<1>2. /\ Left = SubSeq(buf, start_position + 1, Len(buf)) /\ Left \in Seq(Unit)
      /\ Len(Left) = len /\ Len(Left) \in Nat
  BY <1>1, LeftFacts DEF Handling
<1>3. fragment_buf' = Left /\ <<>> \in Seq(Unit) /\ Len(<<>>) = 0
  BY <1>1, <1>2, EmptySeq
<1>4. WireInv'
  BY <1>1, WireStays
<1>5. connection_type = "WS" /\ data_size' = data_size
  BY <1>1 DEF Handling, TextInv, BufferInv, Keep, Done
<1>6. BufferInv'
  BY <1>1, <1>2, <1>3, <1>5 DEF BufferInv, TextInv
<1>7. Left' = Left
  BY <1>1, <1>3 DEF Left
<1>8. At' = At
  BY <1>1, <1>7 DEF At, All
<1>9. LeftInv'
  <2>1. state = "open" => At >= 0 /\ Matches(Left, At)
    BY DEF TextInv, LeftInv
  <2> QED BY <2>1, <1>1, <1>7, <1>8, LeftNext DEF Matches
<1>10. OutputInv'
  BY <1>1 DEF OutputInv, TextInv
<1> QED BY <1>4, <1>6, <1>7, <1>8, <1>9, <1>10 DEF TextInv

\* A zero over the first part of a unit.
LEMMA ZeroOver ==
  ASSUME NEW b \in Seq(Unit), NEW e \in 1..Len(b), NEW x, NEW i, b[e] = <<x, i>>
  PROVE  /\ [b EXCEPT ![e][1] = "zero"][e] = <<"zero", i>>
         /\ \A k \in 1..Len(b) : k # e => [b EXCEPT ![e][1] = "zero"][k] = b[k]
         /\ Len([b EXCEPT ![e][1] = "zero"]) = Len(b)
         /\ <<"zero", i>> \in Unit => [b EXCEPT ![e][1] = "zero"] \in Seq(Unit)
<1>1. [b[e] EXCEPT ![1] = "zero"] = <<"zero", i>>
  OBVIOUS
<1>2. [b EXCEPT ![e][1] = "zero"] = [b EXCEPT ![e] = <<"zero", i>>]
  BY <1>1
<1>3. DOMAIN b = 1..Len(b) /\ Len(b) \in Nat
  OBVIOUS
<1> DEFINE c == [b EXCEPT ![e] = <<"zero", i>>]
<1>4. c = [k \in 1..Len(b) |-> IF k = e THEN <<"zero", i>> ELSE b[k]]
  BY <1>3
<1>5. ASSUME <<"zero", i>> \in Unit PROVE c \in [1..Len(b) -> Unit]
  <2>1. \A k \in 1..Len(b) : b[k] \in Unit
    BY ElementOfSeq
  <2> QED BY <2>1, <1>4, <1>5
<1>6. c \in [1..Len(b) -> Unit] => c \in Seq(Unit)
  BY <1>3, FunctionIsSeq
<1>7. Len(c) = Len(b)
  BY <1>3
<1> HIDE DEF c
<1>8. c[e] = <<"zero", i>> /\ \A k \in 1..Len(b) : k # e => c[k] = b[k]
  BY <1>4
<1> QED BY <1>2, <1>5, <1>6, <1>7, <1>8 DEF c

\* The next frame, glued to the one that is executed, gets its zero.
LEMMA GoOn ==
  ASSUME TextInv, Handling, NEW j \in 1..N, At = Start(j),
         script' = script, wire' = wire,
         len > Size(script, j),
         start_position' = start_position + Size(script, j),
         buf' = [buf EXCEPT ![start_position + Size(script, j) + 1][1] = "zero"]
  PROVE  /\ buf' \in Seq(Unit) /\ buf' # <<>> /\ Len(buf') = Len(buf)
         /\ start_position' \in 0..Len(buf') /\ start_position' < Len(buf')
         /\ At' = Start(j + 1) /\ j + 1 \in 1..N
         /\ \A k \in 1..Len(Left') :
              \/ Left'[k] = All[At' + k]
              \/ k = 1 /\ Left'[1] = <<"zero", j + 1>>
<1> DEFINE size == Size(script, j)
           end == start_position + size
<1>1. /\ Left \in Seq(Unit) /\ Len(Left) = len /\ len \in Nat
      /\ \A k \in 1..len : Left[k] = buf[start_position + k]
  BY LeftFacts DEF Handling
<1>2. /\ At \in Nat /\ At + len =< Len(All)
      /\ \A k \in 2..len : Left[k] = All[At + k]
  BY LeftIsStream
<1>3. script \in Script /\ buf \in Seq(Unit) /\ Len(buf) \in Nat /\ start_position \in 0..Len(buf)
  BY DEF TextInv, WireInv, BufferInv
<1>4. /\ N \in Nat /\ Start(N + 1) = Len(All) /\ Len(All) \in Nat
      /\ Start(j + 1) = Start(j) + size /\ size \in Nat /\ size > 2
      /\ Start(j) \in Nat
  BY <1>3, Places
<1>5. j + 1 \in 1..N
  <2>1. Start(j + 1) < Start(N + 1)
    BY <1>1, <1>2, <1>4
  <2>2. j + 1 # N + 1
    BY <2>1, <1>4
  <2> QED BY <2>2, <1>4
<1>18. /\ len > size /\ len = Len(buf) - start_position
      /\ start_position' = end /\ buf' = [buf EXCEPT ![end + 1][1] = "zero"]
  BY DEF len
<1>16. end = start_position + size
  OBVIOUS
<1> HIDE DEF end, size
<1>17. /\ end \in Nat /\ size \in Nat /\ size > 2 /\ len \in Nat /\ len > size
      /\ start_position \in Nat /\ Len(buf) \in Nat
      /\ Len(buf) = start_position + len /\ end < Len(buf)
  <2>1. start_position \in Nat /\ Len(buf) \in Nat /\ size \in Nat /\ size > 2 /\ len \in Nat
    BY <1>1, <1>3, <1>4
  <2> QED BY <2>1, <1>18, <1>16
<1>6. end + 1 \in 1..Len(buf) /\ size + 1 \in 2..len /\ start_position + (size + 1) = end + 1
  BY <1>16, <1>17
<1>7. buf[end + 1] = <<Op(script, j + 1), j + 1>>
  <2>1. buf[end + 1] = Left[size + 1]
    BY <1>1, <1>6
  <2>2. Left[size + 1] = All[At + (size + 1)]
    BY <1>2, <1>6
  <2>3. At + (size + 1) = Start(j + 1) + 1
    BY <1>4
  <2>4. All[Start(j + 1) + 1] = FrameUnits(script, j + 1)[1]
    <3>1. 1 \in 1..Size(script, j + 1)
      BY <1>3, <1>5, Places
    <3> QED BY <3>1, <1>3, <1>5, UnitAt
  <2>5. FrameUnits(script, j + 1)[1] = <<Op(script, j + 1), j + 1>>
    BY <1>3, <1>5, FrameFacts DEF N
  <2> QED BY <2>1, <2>2, <2>3, <2>4, <2>5
<1>8. <<"zero", j + 1>> \in Unit
  BY <1>3, <1>5, Units DEF N
<1> DEFINE b == [buf EXCEPT ![end + 1][1] = "zero"]
<1>9. /\ b[end + 1] = <<"zero", j + 1>>
      /\ \A k \in 1..Len(buf) : k # end + 1 => b[k] = buf[k]
      /\ Len(b) = Len(buf) /\ b \in Seq(Unit)
  <2>1. buf \in Seq(Unit)
    BY <1>3
  <2> DEFINE e == end + 1
             i == j + 1
             x == Op(script, i)
  <2>2. e \in 1..Len(buf) /\ buf[e] = <<x, i>> /\ <<"zero", i>> \in Unit
    BY <1>6, <1>7, <1>8
  <2> HIDE DEF e, i, x
  <2>3. /\ [buf EXCEPT ![e][1] = "zero"][e] = <<"zero", i>>
        /\ \A k \in 1..Len(buf) : k # e => [buf EXCEPT ![e][1] = "zero"][k] = buf[k]
        /\ Len([buf EXCEPT ![e][1] = "zero"]) = Len(buf)
        /\ <<"zero", i>> \in Unit => [buf EXCEPT ![e][1] = "zero"] \in Seq(Unit)
    BY <2>1, <2>2, ZeroOver
  <2> QED BY <2>2, <2>3 DEF e, i
<1>10. buf' = b /\ start_position' = end
  BY <1>18
<1> HIDE DEF b
<1>11. b # <<>> /\ end \in 0..Len(b) /\ end < Len(b) /\ Len(b) \in Nat
  BY <1>17, <1>3, <1>9, EmptySeq
<1>12. Left' = SubSeq(b, end + 1, Len(b))
  BY <1>10, <1>11 DEF Left
<1>13. /\ Left' \in Seq(Unit) /\ Len(Left') = Len(b) - end
       /\ \A k \in 1..Len(b) - end : Left'[k] = b[end + k]
  <2>1. end + 1 =< Len(b) + 1 /\ end + 1 \in 1..Len(b) + 1
    BY <1>6, <1>9, <1>11
  <2>2. Left' \in Seq(Unit) /\ Len(Left') = Len(b) - (end + 1) + 1
    BY <1>9, <1>12, <2>1, SubSeqProperties
  <2>3. ASSUME NEW k \in 1..Len(b) - end
        PROVE  Left'[k] = b[end + k]
    <3>1. Left'[k] = b[(end + 1) + k - 1]
      <4>1. b \in Seq(Unit) /\ Len(b) \in Nat /\ end \in Nat
        BY <1>9, <1>11, <1>17
      <4>2. k \in 1..Len(b) - (end + 1) + 1
        BY <4>1, <2>3
      <4>3. SubSeq(b, end + 1, Len(b))[k] = b[(end + 1) + k - 1]
        <5> DEFINE a == end + 1
                   l == Len(b)
        <5>1. a \in 1..l + 1 /\ l \in 1..l /\ a =< l + 1 /\ k \in 1..l - a + 1
          BY <4>1, <4>2, <2>1, <1>17, <1>11
        <5> HIDE DEF a, l
        <5>2. SubSeq(b, a, l)[k] = b[a + k - 1]
          BY <4>1, <5>1, SubSeqProperties DEF l
        <5> QED BY <5>2 DEF a, l
      <4> QED BY <4>3, <1>12
    <3>2. (end + 1) + k - 1 = end + k
      BY <1>11
    <3> QED BY <3>1, <3>2
  <2> QED BY <2>2, <2>3, <1>11
<1>14. At' = Start(j + 1)
  <2>1. Len(Left') = len - size
    BY <1>13, <1>9, <1>3, <1>4, <1>18, <1>16
  <2>2. At = Len(All) - Len(wire) - len /\ At' = Len(All) - Len(wire) - Len(Left')
    BY <1>1 DEF At, All
  <2>3. Len(wire) \in Nat
    BY DEF TextInv, WireInv
  <2> QED BY <2>1, <2>2, <2>3, <1>1, <1>4
<1>15. ASSUME NEW k \in 1..Len(Left')
       PROVE  \/ Left'[k] = All[At' + k]
              \/ k = 1 /\ Left'[1] = <<"zero", j + 1>>
  <2>1. CASE k = 1
    BY <2>1, <1>9, <1>13, <1>15
  <2>2. CASE k # 1
    <3>1. /\ end + k \in 1..Len(buf) /\ end + k # end + 1
          /\ size + k \in 2..len /\ start_position + (size + k) = end + k
      <4>1. Len(b) = Len(buf) /\ k \in 1..Len(b) - end
        BY <1>9, <1>13, <1>15
      <4>2. k \in Nat /\ k > 1 /\ k =< Len(buf) - end
        BY <4>1, <2>2, <1>17
      <4>3. end + k \in 1..Len(buf) /\ end + k # end + 1
        BY <4>2, <1>17
      <4>4. start_position + (size + k) = end + k
        BY <4>2, <1>16, <1>17
      <4>5. size + k >= 2 /\ size + k =< len /\ size + k \in Int
        BY <4>2, <1>16, <1>17, SMTT(30)
      <4> QED BY <4>3, <4>4, <4>5, <1>1
    <3>2. Left'[k] = b[end + k]
      BY <1>13, <1>15
    <3>3. b[end + k] = buf[end + k]
      BY <3>1, <1>9
    <3>4. buf[end + k] = Left[size + k]
      BY <3>1, <1>1
    <3>5. Left[size + k] = All[At + (size + k)]
      BY <3>1, <1>2
    <3>6. At + (size + k) = At' + k
      BY <1>14, <1>4
    <3> QED BY <3>2, <3>3, <3>4, <3>5, <3>6
  <2> QED BY <2>1, <2>2
<1> QED BY <1>5, <1>9, <1>10, <1>11, <1>14, <1>15

\* A command is executed with its own data, and the next frame is next.
LEMMA ExecuteFacts ==
  ASSUME TextInv, Execute, NEW j \in 1..N, At = Start(j)
  PROVE  /\ TextInv'
         /\ executed' = Append(executed, Data(script, j))
         /\ fragment_buf' = <<>>
         /\ script' = script
         /\ state' = "open" => connection_type' = "WS" /\ At' = Start(j + 1)
<1> DEFINE size == Size(script, j)
           end == start_position + size
           goesOn == ~nextCommandIsEof /\ end < Len(buf)
<1>1. /\ Handling /\ Arrived /\ wire' = wire /\ script' = script
      /\ answer' = answer /\ fragment_buf' = fragment_buf
  BY DEF Execute
<1>2. fragment_buf = <<>> /\ connection_type = "WS" /\ <<>> \in Seq(Unit) /\ Len(<<>>) = 0
  BY <1>1, EmptySeq DEF Handling, TextInv, BufferInv
<1>3. /\ len > 1 /\ len >= size
      /\ delta_len = Delta(script, j) /\ msg_data_len = script.frames[j].data
      /\ [k \in 1..msg_data_len |-> p(delta_len + k - 1)] = Data(script, j)
  <2>1. len > 1
    BY <1>1 DEF Arrived
  <2> QED BY <2>1, <1>1, FrameHere
<1>4. delta_len + msg_data_len = size
  BY <1>3 DEF Size
<1>5. /\ script \in Script /\ buf \in Seq(Unit) /\ Len(buf) \in Nat /\ start_position \in 0..Len(buf)
      /\ wire \in Seq(Unit) /\ Len(wire) \in Nat /\ Len(buf) =< data_size
  BY <1>2 DEF TextInv, WireInv, BufferInv
<1>6. /\ N \in Nat /\ Len(All) \in Nat
      /\ Start(j + 1) = Start(j) + size /\ size \in Nat /\ size > 2
      /\ Start(j) \in Nat
  BY <1>5, Places
<1>7. executed' = Append(executed, Data(script, j))
  BY <1>3 DEF Execute
<1>8. /\ start_position' = IF goesOn THEN end ELSE 0
      /\ buf' = IF goesOn THEN [buf EXCEPT ![end + 1][1] = "zero"] ELSE <<>>
      /\ state' = IF nextCommandIsEof THEN "server" ELSE "open"
      /\ connection_type' = IF nextCommandIsEof THEN "NULL" ELSE "WS"
  <2>1. start_position + delta_len + msg_data_len = end
    <3>1. Delta(script, j) \in Nat /\ script.frames[j].data \in Nat
      BY <1>5, ScriptFacts DEF N
    <3> QED BY <3>1, <1>3, <1>4, <1>5
  <2> QED BY <2>1 DEF Execute
<1>9. WireInv'
  BY <1>1, WireStays
<1>10. OutputInv'
  <2>1. Data(script, j) \in Seq(Unit)
    <3>1. <<"data", j>> \in Unit /\ script.frames[j].data \in Nat
      BY <1>5, Units, ScriptFacts DEF N
    <3>2. Data(script, j) \in [1..script.frames[j].data -> Unit]
      BY <3>1 DEF Data
    <3> QED BY <3>1, <3>2, FunctionIsSeq
  <2>2. executed' \in Seq(Seq(Unit))
    BY <2>1, <1>7, AppendProperties DEF TextInv, OutputInv
  <2> QED BY <2>2, <1>1, <1>8 DEF TextInv, OutputInv
<1>13. data_size' = data_size /\ data_size \in Nat \ {0}
  BY DEF Execute, TextInv, BufferInv
<1> HIDE DEF goesOn
<1>11. CASE goesOn
  <2>1. /\ start_position' = end /\ buf' = [buf EXCEPT ![end + 1][1] = "zero"]
        /\ state' = "open" /\ connection_type' = "WS"
    BY <1>8, <1>11 DEF goesOn
  <2>2. len > size
    BY <1>11, <1>5, <1>6 DEF goesOn, len
  <2>3. /\ buf' \in Seq(Unit) /\ buf' # <<>> /\ Len(buf') = Len(buf)
        /\ start_position' \in 0..Len(buf') /\ start_position' < Len(buf')
        /\ At' = Start(j + 1) /\ j + 1 \in 1..N
        /\ \A k \in 1..Len(Left') :
             \/ Left'[k] = All[At' + k]
             \/ k = 1 /\ Left'[1] = <<"zero", j + 1>>
    BY <2>1, <2>2, <1>1, GoOn
  <2>4. BufferInv'
    BY <2>1, <2>3, <1>1, <1>2, <1>5, <1>13 DEF BufferInv
  <2>5. Start(j + 1) \in Nat
    BY <1>6
  <2>6. LeftInv'
    BY <2>3, <2>5, <1>1, LeftNext
  <2> QED BY <2>1, <2>3, <2>4, <2>6, <1>1, <1>2, <1>7, <1>9, <1>10 DEF TextInv
<1>12. CASE ~goesOn
  <2>1. start_position' = 0 /\ buf' = <<>>
    BY <1>8, <1>12
  <2>2. BufferInv'
    BY <2>1, <1>1, <1>2, <1>8, <1>13 DEF BufferInv
  <2>3. Left' = <<>>
    BY <2>1, <1>1, <1>2 DEF Left
  <2>4. LeftInv'
    BY <2>3, <1>1, <1>9, NothingLeft
  <2>5. ASSUME state' = "open" PROVE connection_type' = "WS" /\ At' = Start(j + 1)
    <3>1. ~nextCommandIsEof /\ ~(end < Len(buf))
      <4>1. ~nextCommandIsEof
        BY <2>5, <1>8
      <4> QED BY <4>1, <1>12 DEF goesOn
    <3>2. len = size
      <4>1. start_position \in Nat /\ Len(buf) \in Nat /\ size \in Nat
        BY <1>5, <1>6
      <4>2. len = Len(buf) - start_position /\ len >= size
        BY <1>3 DEF len
      <4> HIDE DEF size
      <4> QED BY <3>1, <4>1, <4>2
    <3>3. Len(Left) = len
      BY <1>1, LeftFacts DEF Handling
    <3>4. At = Len(All) - Len(wire) - len /\ At' = Len(All) - Len(wire) - 0
      BY <2>3, <3>3, <1>1, <1>2 DEF At, All
    <3> QED BY <3>1, <3>2, <3>4, <1>5, <1>6, <1>8
  <2> QED BY <2>2, <2>4, <2>5, <1>1, <1>2, <1>7, <1>9, <1>10 DEF TextInv
<1> QED BY <1>11, <1>12

\* A command is executed.
LEMMA ExecuteText ==
  ASSUME TextInv, Execute
  PROVE  TextInv'
<1>1. Handling /\ p(0)[1] \in {"text", "binary", "zero", "pong", "close"}
  BY DEF Execute, StartsFrame
<1>2. PICK j \in 1..N : At = Start(j)
  BY <1>1, FrameBegins
<1> QED BY <1>2, ExecuteFacts

\* Every step keeps the text.
LEMMA TextStep == TextInv /\ [Next]_vars => TextInv'
<1> SUFFICES ASSUME TextInv, [Next]_vars PROVE TextInv'
  OBVIOUS
<1>1. ASSUME NEW n \in 1..data_size, Request(n) PROVE TextInv'
  BY <1>1, RequestText
<1>2. ASSUME NEW n \in 1..data_size, Message(n) PROVE TextInv'
  BY <1>2, MessageText
<1>3. CASE Pong
  BY <1>3, PongText
<1>4. CASE Bad
  BY <1>4, ThrownOutText DEF Bad
<1>5. CASE Keep
  BY <1>5, KeepText
<1>6. CASE Refuse
  BY <1>6, ThrownOutText DEF Refuse
<1>7. CASE Execute
  BY <1>7, ExecuteText
<1>8. CASE Break
  BY <1>8, ThrownOutText DEF Break
<1>9. CASE UNCHANGED vars
  BY <1>9 DEF vars, TextInv, WireInv, BufferInv, LeftInv, OutputInv, All, At, Left, Matches,
              Start, N
<1>10. CASE Others
  BY <1>10, OthersText
<1> QED BY <1>1, <1>2, <1>3, <1>4, <1>5, <1>6, <1>7, <1>8, <1>9, <1>10 DEF Next, Read, Handle

\* Every state has the types: what is executed consists of units of the stream, and
\* what is read, or put together from several reads, lies within the buffer of the
\* thread, whatever the clients send, however it is cut and whatever size other
\* connections have left.
THEOREM FramesTypeOK == Spec => []TypeOK
<1>1. TextInv => TypeOK
  BY TextTypes
<1> QED BY <1>1, InitText, TextStep, PTL DEF Spec

-----------------------------------------------------------------------------
\* The order of the commands

\* What a client of the JS API keeps to: a pong frame carries no command and
\* nothing follows it, and a close frame is no command.
Orderly(s) ==
  \A i \in 1..Len(s.frames) :
    /\ Op(s, i) = "pong" => i = Len(s.frames)
    /\ Op(s, i) \in {"pong", "close"} => ~s.frames[i].known

\* The frames before frame j carry commands, and just these were executed.
Served(j) ==
  /\ executed = [k \in 1..j - 1 |-> Data(script, k)]
  /\ \A k \in 1..j - 1 : Op(script, k) \in {"text", "binary"}

\* Frame j is next: before the answer the request is being read, and behind it
\* frame j begins, or the rest of the request is left that was cut at the end of
\* a line, or the rest of the pong frame that is the last.
Place(j) ==
  IF connection_type = "NULL"
  THEN j = 1 /\ At = 0 /\ answer = "none" /\ Len(All) =< Start(1) + Len(wire)
  ELSE \/ At = Start(j) /\ (j \in 1..N /\ buf = <<>> => Len(fragment_buf) < Size(script, j))
       \/ j = 1 /\ At < Start(1) /\ fragment_buf = <<>>
       \/ j = N /\ At > Start(N) /\ Op(script, N) = "pong"

\* When the script is orderly, the commands before some frame have been executed,
\* and what is left begins with that frame.
OrderInv ==
  Orderly(script) => \E j \in 1..N + 1 : Served(j) /\ (state = "open" => Place(j))

\* A frame begins at one place only.
LEMMA OneFrame ==
  ASSUME script \in Script, NEW i \in 1..N, NEW j \in 1..N + 1, Start(i) = Start(j)
  PROVE  i = j
<1>1. /\ Start(i + 1) = Start(i) + Size(script, i) /\ Size(script, i) > 2
      /\ Size(script, i) \in Nat /\ Start(i) \in Nat /\ Start(j) \in Nat /\ N \in Nat
  BY Places
<1>2. CASE i < j
  <2>1. i + 1 \in 1..N + 1 /\ i + 1 =< j
    BY <1>1, <1>2
  <2>2. Start(i + 1) =< Start(j)
    BY <2>1, Places
  <2> QED BY <2>2, <1>1
<1>3. CASE j < i
  <2>1. j \in 1..N /\ j + 1 =< i /\ j + 1 \in 1..N + 1 /\ i \in 1..N + 1
    BY <1>1, <1>3
  <2>2. /\ Start(j + 1) = Start(j) + Size(script, j) /\ Size(script, j) > 2
        /\ Size(script, j) \in Nat
    BY <2>1, Places
  <2>3. Start(j + 1) =< Start(i)
    BY <2>1, Places
  <2> QED BY <2>2, <2>3, <1>1
<1> QED BY <1>1, <1>2, <1>3

\* When a frame is read it is the next one.
LEMMA NextFrame ==
  ASSUME TextInv, connection_type = "WS", NEW j \in 1..N + 1, Place(j),
         NEW i \in 1..N, At = Start(i)
  PROVE  i = j
<1>1. script \in Script /\ N \in Nat
  BY Places DEF TextInv, WireInv
<1>2. /\ Start(1) =< Start(i) /\ Start(i) =< Start(N)
      /\ Start(1) \in Nat /\ Start(i) \in Nat /\ Start(N) \in Nat
  <2>1. 1 \in 1..N + 1 /\ i \in 1..N + 1 /\ N \in 1..N + 1 /\ i =< N
    BY <1>1
  <2> QED BY <2>1, <1>1, Places
<1>3. CASE At = Start(j)
  BY <1>1, <1>3, OneFrame
<1> QED BY <1>2, <1>3 DEF Place

\* A connection that is closed executes nothing more.
LEMMA ClosedOrder ==
  ASSUME OrderInv, script' = script, executed' = executed, state' # "open"
  PROVE  OrderInv'
<1>1. N' = N /\ \A j : Served(j)' = Served(j)
  BY DEF N, Served
<1> QED BY <1>1 DEF OrderInv

\* OrderInv is inductive: one lemma per action. Nothing is done at first.
LEMMA InitOrder == Init => OrderInv
<1> SUFFICES ASSUME Init, Orderly(script)
             PROVE  \E j \in 1..N + 1 : Served(j) /\ (state = "open" => Place(j))
  BY DEF OrderInv
<1>1. script \in Script /\ wire = All
  BY DEF Init, All
<1>2. N \in Nat /\ Len(All) \in Nat /\ Start(1) \in Nat
  BY <1>1, Places
<1>3. Served(1)
  <2>1. [k \in 1..1 - 1 |-> Data(script, k)] = <<>>
    OBVIOUS
  <2> QED BY <2>1 DEF Served, Init
<1>4. At = 0
  <2>1. Left = <<>> /\ Len(<<>>) = 0
    BY EmptySeq DEF Init, Left
  <2>2. At = Len(All) - Len(All) - 0
    BY <2>1, <1>1, Zenon DEF At
  <2> QED BY <2>2, <1>2
<1>5. Place(1)
  BY <1>1, <1>2, <1>4 DEF Place, Init
<1>6. 1 \in 1..N + 1
  BY <1>2
<1> QED BY <1>3, <1>5, <1>6

\* The request is read up to its end at most.
LEMMA RequestEnd ==
  ASSUME TextInv, NEW n \in 1..data_size, n =< Len(wire), wire[n][2] = 0
  PROVE  Len(All) - Len(wire) + n =< Start(1)
<1>1. script \in Script /\ Len(wire) \in Nat /\ Len(wire) =< Len(All) /\ n \in 1..Len(wire)
  BY LimitFacts DEF TextInv, WireInv
<1>2. Len(All) \in Nat /\ Start(1) \in Nat
  BY <1>1, Places
<1> DEFINE d == Len(All) - Len(wire) + n
<1>3. wire[n] = All[d] /\ d \in 1..Len(All)
  BY <1>1, <1>2 DEF TextInv, WireInv
<1> HIDE DEF d
<1>4. ASSUME d \in Start(1) + 1..Len(All) PROVE FALSE
  <2>1. PICK j \in 1..N : \E k \in 1..Size(script, j) : d = Start(j) + k
    BY <1>1, <1>4, UnitAt
  <2>2. PICK k \in 1..Size(script, j) : d = Start(j) + k
    BY <2>1
  <2>3. All[d][2] = j
    BY <2>2, <1>1, UnitAt
  <2> QED BY <2>3, <1>3
<1>5. d =< Start(1)
  BY <1>2, <1>3, <1>4
<1> QED BY <1>5 DEF d

\* The request comes before the frames.
LEMMA RequestOrder ==
  ASSUME TextInv, TextInv', OrderInv, NEW n \in 1..data_size, Request(n)
  PROVE  OrderInv'
<1>1. /\ Waits /\ connection_type = "NULL" /\ Sent(n) /\ state = "open" /\ buf = <<>>
      /\ wire' = SubSeq(wire, n + 1, Len(wire)) /\ script' = script /\ executed' = executed
  BY DEF Request, Close, Waits
<1>2. /\ n =< Len(wire) /\ Len(wire') = Len(wire) - n
      /\ Left = fragment_buf /\ At \in Nat /\ Len(Assembled(n)) = Len(fragment_buf) + n
  BY <1>1, ReadFacts
<1>3. /\ N' = N /\ All' = All /\ \A j : Start(j)' = Start(j)
      /\ \A j : Served(j)' = Served(j)
  BY <1>1 DEF N, All, Start, Served
<1>4. CASE state' # "open"
  BY <1>1, <1>4, ClosedOrder
<1>5. CASE state' = "open"
  <2> SUFFICES ASSUME Orderly(script)
               PROVE  \E j \in 1..N + 1 : Served(j) /\ Place(j)'
    BY <1>1, <1>3, <1>5 DEF OrderInv
  <2>1. Served(1) /\ Place(1)
    BY <1>1 DEF OrderInv, Place
  <2>2. answer = "none" /\ At = 0 /\ wire[n][2] = 0
    BY <2>1, <1>1 DEF Place, Sent
  <2>3. Len(All) - Len(wire) + n =< Start(1)
    BY <2>2, <1>2, RequestEnd
  <2>4. /\ Len(wire) \in Nat /\ n \in Nat /\ n >= 1 /\ Len(All) \in Nat /\ Start(1) \in Nat
        /\ Len(fragment_buf) \in Nat /\ N \in Nat
    <3>1. script \in Script /\ wire \in Seq(Unit) /\ fragment_buf \in Seq(Unit)
      BY DEF TextInv, WireInv, BufferInv
    <3>2. Len(wire) \in Nat /\ Len(fragment_buf) \in Nat
      BY <3>1, LenProperties
    <3>3. n \in Nat /\ n >= 1
      BY LimitFacts
    <3>4. Len(All) \in Nat /\ Start(1) \in Nat /\ N \in Nat
      BY <3>1, Places
    <3> QED BY <3>2, <3>3, <3>4
  <2>5. CASE Incomplete(Assembled(n))
    <3>1. /\ fragment_buf' = Assembled(n)
          /\ UNCHANGED <<buf, connection_type, answer>>
      BY <2>5 DEF Request
    <3>2. Left' = Assembled(n)
      BY <3>1, <1>1 DEF Left
    <3>3. At' = At
      <4>1. /\ At = Len(All) - Len(wire) - Len(fragment_buf)
            /\ At' = Len(All) - Len(wire') - Len(Assembled(n))
        BY <1>2, <3>2, <1>3 DEF At
      <4> QED BY <4>1, <1>2, <2>4
    <3>4. Len(All) =< Start(1) + Len(wire')
      BY <2>3, <2>4, <1>2
    <3>5. Place(1)'
      BY <3>1, <3>3, <3>4, <2>2, <1>1, <1>3 DEF Place
    <3> QED BY <3>5, <2>1, <2>4
  <2>6. CASE ~Incomplete(Assembled(n))
    <3>1. connection_type' = "WS" /\ fragment_buf' = <<>> /\ buf' = <<>>
      BY <2>6, <1>1, <1>5 DEF Request, Close
    <3>2. Left' = <<>> /\ Len(<<>>) = 0
      BY <3>1, EmptySeq DEF Left
    <3>3. At' = Len(All) - Len(wire) + n
      BY <3>2, <2>4, <1>2, <1>3 DEF At
    <3>4. \A j \in 1..N : Size(script, j) > 2 /\ Size(script, j) \in Nat
      BY Places DEF TextInv, WireInv
    <3>5. At' = Start(1) \/ At' < Start(1)
      BY <3>3, <2>3, <2>4
    <3>6. Place(1)'
      BY <3>1, <3>2, <3>4, <3>5, <1>1, <1>3 DEF Place
    <3> QED BY <3>6, <2>1, <2>4
  <2> QED BY <2>5, <2>6
<1> QED BY <1>4, <1>5

\* What is read is put behind what is left.
LEMMA MessageOrder ==
  ASSUME TextInv, OrderInv, NEW n \in 1..data_size, Message(n)
  PROVE  OrderInv'
<1>1. /\ Waits /\ connection_type = "WS" /\ Sent(n) /\ state = "open" /\ buf = <<>>
      /\ wire' = SubSeq(wire, n + 1, Len(wire)) /\ script' = script /\ executed' = executed
      /\ answer' = answer
  BY DEF Message, Close, Waits
<1>2. /\ n =< Len(wire) /\ Len(wire') = Len(wire) - n
      /\ Left = fragment_buf /\ At \in Nat
      /\ Assembled(n) \in Seq(Unit) /\ Len(Assembled(n)) = Len(fragment_buf) + n
      /\ Assembled(n) # <<>>
  BY <1>1, ReadFacts
<1>3. /\ N' = N /\ All' = All /\ \A j : Start(j)' = Start(j)
      /\ \A j : Served(j)' = Served(j)
  BY <1>1 DEF N, All, Start, Served
<1>4. CASE fragment_buf # <<>> /\ Len(fragment_buf) + n >= MaxFragment
  BY <1>1, <1>4, ClosedOrder DEF Message, Close
<1>5. CASE ~(fragment_buf # <<>> /\ Len(fragment_buf) + n >= MaxFragment)
  <2>1. /\ buf' = Assembled(n) /\ fragment_buf' = <<>>
        /\ UNCHANGED <<start_position, connection_type, state>>
    BY <1>5 DEF Message
  <2>4. At' = At
    BY <1>5, MessageFacts
  <2>5. ASSUME NEW j \in 1..N + 1, Place(j) PROVE Place(j)'
    BY <2>1, <2>4, <2>5, <1>1, <1>2, <1>3 DEF Place
  <2> QED BY <2>1, <2>5, <1>1, <1>3 DEF OrderInv
<1> QED BY <1>4, <1>5

\* Nothing is behind an answer to a ping.
LEMMA PongOrder ==
  ASSUME TextInv, OrderInv, Pong
  PROVE  OrderInv'
<1>1. /\ Handling /\ p(0)[1] = "pong" /\ buf' = <<>> /\ buf # <<>> /\ state = "open"
      /\ UNCHANGED <<script, wire, data_size, connection_type, answer, state, fragment_buf,
                     executed>>
  BY DEF Pong, Done, Handling
<1>2. fragment_buf = <<>> /\ connection_type = "WS" /\ script \in Script /\ wire \in Seq(Unit)
  BY <1>1 DEF TextInv, BufferInv, WireInv
<1>3. /\ N' = N /\ All' = All /\ \A j : Start(j)' = Start(j)
      /\ \A j : Served(j)' = Served(j)
  BY <1>1 DEF N, All, Start, Served
<1> SUFFICES ASSUME Orderly(script)
             PROVE  \E j \in 1..N + 1 : Served(j) /\ Place(j)'
  BY <1>1, <1>3 DEF OrderInv
<1>4. PICK j \in 1..N + 1 : Served(j) /\ Place(j)
  BY <1>1 DEF OrderInv
<1>5. PICK i \in 1..N : At = Start(i) /\ Op(script, i) = "pong"
  <2>1. \E i \in 1..N : At = Start(i) /\ p(0)[1] \in {"zero", Op(script, i)}
    BY <1>1, FrameBegins
  <2> QED BY <2>1, <1>1
<1>6. i = N /\ i = j
  <2>1. i = N
    BY <1>5 DEF Orderly, N
  <2> QED BY <2>1, <1>2, <1>4, <1>5, NextFrame
<1>7. At' > Start(N)
  <2>1. Len(Left) = len /\ len > 0 /\ len \in Nat
    BY <1>1, LeftFacts
  <2>2. Left' = <<>> /\ Len(<<>>) = 0
    BY <1>1, <1>2, EmptySeq DEF Left
  <2>3. At = Len(All) - Len(wire) - len /\ At' = Len(All) - Len(wire) - 0
    BY <2>1, <2>2, <1>1, <1>3 DEF At
  <2>4. Len(All) \in Nat /\ Len(wire) \in Nat /\ At \in Int
    BY <1>2, Places, LeftFacts
  <2> QED BY <2>1, <2>3, <2>4, <1>5, <1>6
<1>8. Place(j)'
  BY <1>1, <1>2, <1>3, <1>5, <1>6, <1>7 DEF Place
<1> QED BY <1>4, <1>8

\* What is kept is what was left.
LEMMA KeepOrder ==
  ASSUME TextInv, OrderInv, Keep
  PROVE  OrderInv'
<1>1. /\ Handling /\ StartsFrame /\ ~Arrived /\ buf' = <<>> /\ buf # <<>> /\ state = "open"
      /\ UNCHANGED <<script, wire, connection_type, answer, state, executed>>
  BY DEF Keep, Done, Handling
<1>2. fragment_buf = <<>> /\ connection_type = "WS" /\ script \in Script
  BY <1>1 DEF TextInv, BufferInv, WireInv
<1>3. /\ N' = N /\ All' = All /\ \A j : Start(j)' = Start(j)
      /\ \A j : Served(j)' = Served(j)
  BY <1>1 DEF N, All, Start, Served
<1> SUFFICES ASSUME Orderly(script)
             PROVE  \E j \in 1..N + 1 : Served(j) /\ Place(j)'
  BY <1>1, <1>3 DEF OrderInv
<1>4. PICK j \in 1..N + 1 : Served(j) /\ Place(j)
  BY <1>1 DEF OrderInv
<1>5. PICK i \in 1..N : At = Start(i)
  BY <1>1, FrameBegins DEF StartsFrame
<1>6. i = j
  BY <1>2, <1>4, <1>5, NextFrame
<1>7. At' = At /\ Left' = Left
  BY KeepText
<1>8. fragment_buf' = Left /\ Len(Left) = len
  BY <1>1, <1>7, LeftFacts DEF Left
<1>9. len < Size(script, i)
  <2>1. ~(len >= Size(script, i))
    BY <1>1, <1>5, FrameHere
  <2>2. len \in Nat /\ Size(script, i) \in Nat
    BY <1>2, <1>8, LeftFacts, Places
  <2> QED BY <2>1, <2>2
<1>10. Place(j)'
  BY <1>1, <1>2, <1>3, <1>5, <1>6, <1>7, <1>8, <1>9 DEF Place
<1> QED BY <1>4, <1>10

\* The frame at the front is the next command.
LEMMA ExecuteOrder ==
  ASSUME TextInv, OrderInv, Execute
  PROVE  OrderInv'
<1>1. /\ Handling /\ StartsFrame /\ Arrived /\ buf # <<>> /\ state = "open"
      /\ script.frames[p(1)[2]].known /\ script' = script
  BY DEF Execute, Handling
<1>2. fragment_buf = <<>> /\ connection_type = "WS" /\ script \in Script
  BY <1>1 DEF TextInv, BufferInv, WireInv
<1>3. N' = N /\ All' = All /\ \A j : Start(j)' = Start(j)
  BY <1>1 DEF N, All, Start
<1> SUFFICES ASSUME Orderly(script)
             PROVE  \E j \in 1..N + 1 : Served(j)' /\ (state' = "open" => Place(j)')
  BY <1>1, <1>3 DEF OrderInv
<1>4. PICK j \in 1..N + 1 : Served(j) /\ Place(j)
  BY <1>1 DEF OrderInv
<1>5. PICK i \in 1..N : At = Start(i)
  BY <1>1, FrameBegins DEF StartsFrame
<1>6. i = j /\ j \in 1..N
  BY <1>2, <1>4, <1>5, NextFrame
<1>7. /\ executed' = Append(executed, Data(script, j))
      /\ fragment_buf' = <<>>
      /\ state' = "open" => connection_type' = "WS" /\ At' = Start(j + 1)
  BY <1>5, <1>6, ExecuteFacts
<1>8. N \in Nat /\ j + 1 \in 1..N + 1
  BY <1>2, <1>6, Places
<1>9. Op(script, j) \in {"text", "binary"}
  <2>1. p(1) = <<"len", j>>
    BY <1>1, <1>5, <1>6, FrameHere DEF Arrived
  <2>2. script.frames[j].known
    BY <2>1, <1>1
  <2>3. Op(script, j) \in {"text", "binary", "pong", "close"}
    BY <1>2, <1>6, ScriptFacts DEF N
  <2> QED BY <2>2, <2>3, <1>6 DEF Orderly, N
<1>10. Served(j + 1)'
  <2> DEFINE e == [k \in 1..j - 1 |-> Data(script, k)]
             f == [k \in 1..j |-> Data(script, k)]
  <2>1. executed = e /\ j \in Nat /\ j >= 1
    BY <1>4, <1>6 DEF Served
  <2>2. Append(e, Data(script, j)) = f
    <3>1. Len(e) = j - 1 /\ Len(e) + 1 = j
      BY <2>1
    <3>2. Append(e, Data(script, j)) =
            [k \in 1..Len(e) + 1 |-> IF k = Len(e) + 1 THEN Data(script, j) ELSE e[k]]
      BY <2>1
    <3>3. \A k \in 1..j : (IF k = j THEN Data(script, j) ELSE e[k]) = Data(script, k)
      BY <2>1
    <3> HIDE DEF e
    <3> QED BY <3>1, <3>2, <3>3
  <2>3. executed' = f /\ (j + 1) - 1 = j
    BY <2>1, <2>2, <1>7
  <2>4. \A k \in 1..j : Op(script, k) \in {"text", "binary"}
    <3>1. \A k \in 1..j - 1 : Op(script, k) \in {"text", "binary"}
      BY <1>4 DEF Served
    <3> QED BY <3>1, <2>1, <1>9
  <2> QED BY <2>3, <2>4, <1>1 DEF Served
<1>11. ASSUME state' = "open" PROVE Place(j + 1)'
  <2>1. Len(<<>>) = 0
    BY EmptySeq
  <2>2. \A k \in 1..N : Size(script, k) > 2 /\ Size(script, k) \in Nat
    BY <1>2, Places
  <2> QED BY <2>1, <2>2, <1>1, <1>3, <1>7, <1>8, <1>11 DEF Place
<1> QED BY <1>8, <1>10, <1>11

\* Every step keeps the order.
LEMMA OrderStep == TextInv /\ OrderInv /\ [Next]_vars => OrderInv'
<1> SUFFICES ASSUME TextInv, OrderInv, [Next]_vars PROVE OrderInv'
  OBVIOUS
<1>1. ASSUME NEW n \in 1..data_size, Request(n) PROVE OrderInv'
  BY <1>1, RequestOrder, RequestText
<1>2. ASSUME NEW n \in 1..data_size, Message(n) PROVE OrderInv'
  BY <1>2, MessageOrder
<1>3. CASE Pong
  BY <1>3, PongOrder
<1>4. CASE Bad
  BY <1>4, ClosedOrder DEF Bad, Close
<1>5. CASE Keep
  BY <1>5, KeepOrder
<1>6. CASE Refuse
  BY <1>6, ClosedOrder DEF Refuse, Close
<1>7. CASE Execute
  BY <1>7, ExecuteOrder
<1>8. CASE Break
  BY <1>8, ClosedOrder DEF Break, Close
<1>9. CASE UNCHANGED vars
  BY <1>9 DEF vars, OrderInv, All, At, Left, Start, N, Served, Place
<1>10. CASE Others
  BY <1>10 DEF Others, OrderInv, All, At, Left, Start, N, Served, Place
<1> QED BY <1>1, <1>2, <1>3, <1>4, <1>5, <1>6, <1>7, <1>8, <1>9, <1>10 DEF Next, Read, Handle

-----------------------------------------------------------------------------
\* The commands

\* The frames that carry commands are in Carriers in their order, the k-th not
\* before frame k; and frame k itself, if all up to it carry commands.
LEMMA CarriersFacts ==
  ASSUME script \in Script
  PROVE  /\ Carriers \in Seq(1..N)
         /\ \A k \in 1..Len(Carriers) :
              Carriers[k] >= k /\ Op(script, Carriers[k]) \in {"text", "binary"}
         /\ \A j \in 1..N : (\A k \in 1..j : Op(script, k) \in {"text", "binary"}) =>
              j =< Len(Carriers) /\ Carriers[j] = j
<1> DEFINE c(i) == Op(script, i) \in {"text", "binary"}
           Eq(f, m) == f = [i \in 0..m |-> IF i = 0 THEN <<>>
                                           ELSE IF c(i) THEN Append(f[i - 1], i)
                                           ELSE f[i - 1]]
           g == CHOOSE f : Eq(f, N)
<1>1. N \in Nat
  BY ScriptFacts DEF N
<1>2. Carriers = g[N]
  BY DEF Carriers, N, Op
<1>3. \E f : Eq(f, N)
  <2> DEFINE S == {m \in 0..N : \E f : Eq(f, m)}
  <2>1. 0 \in S
    <3> DEFINE f == [i \in 0..0 |-> <<>>]
    <3>1. \A i \in 0..0 : f[i] = IF i = 0 THEN <<>> ELSE IF c(i) THEN Append(f[i - 1], i) ELSE f[i - 1]
      OBVIOUS
    <3>2. f = [i \in 0..0 |-> f[i]]
      OBVIOUS
    <3> HIDE DEF f
    <3>3. Eq(f, 0)
      BY <3>1, <3>2
    <3> QED BY <3>3, <1>1
  <2>2. ASSUME NEW m \in 0..N - 1, m \in S
        PROVE  m + 1 \in S
    <3>1. PICK f : Eq(f, m)
      BY <2>2
    <3> DEFINE F(i) == IF i = 0 THEN <<>> ELSE IF c(i) THEN Append(f[i - 1], i) ELSE f[i - 1]
               f2 == [i \in 0..m + 1 |-> F(i)]
    <3>2. \A i \in 0..m : f[i] = F(i)
      <4> DEFINE h == [i \in 0..m |-> F(i)]
      <4>1. f = h
        BY <3>1
      <4>2. \A i \in 0..m : h[i] = F(i)
        OBVIOUS
      <4> HIDE DEF F, h
      <4> QED BY <4>1, <4>2
    <3> HIDE DEF F
    <3>3. \A i \in 0..m : f2[i] = f[i]
      BY <3>2
    <3>4. \A i \in 0..m + 1 : f2[i] = F(i)
      OBVIOUS
    <3>5. f2 = [i \in 0..m + 1 |-> f2[i]]
      OBVIOUS
    <3> HIDE DEF f2
    <3>6. \A i \in 0..m + 1 :
            f2[i] = IF i = 0 THEN <<>> ELSE IF c(i) THEN Append(f2[i - 1], i) ELSE f2[i - 1]
      <4> TAKE i \in 0..m + 1
      <4>1. CASE i = 0
        BY <4>1, <3>4 DEF F
      <4>2. CASE i # 0
        <5>1. i - 1 \in 0..m
          BY <4>2
        <5>2. f2[i - 1] = f[i - 1]
          BY <5>1, <3>3
        <5> QED BY <5>2, <4>2, <3>4 DEF F
      <4> QED BY <4>1, <4>2
    <3>7. Eq(f2, m + 1)
      BY <3>5, <3>6
    <3> HIDE DEF Eq
    <3>8. m + 1 \in 0..N
      BY <1>1
    <3> QED BY <3>7, <3>8
  <2> HIDE DEF S
  <2>3. \A m \in 0..N : m \in S
    BY <2>1, <2>2, <1>1, UpTo
  <2>4. N \in S
    BY <2>3, <1>1
  <2> QED BY <2>4 DEF S
<1>4. Eq(g, N)
  <2> HIDE DEF Eq
  <2> QED BY <1>3
<1>5. \A i \in 0..N : g[i] = IF i = 0 THEN <<>> ELSE IF c(i) THEN Append(g[i - 1], i) ELSE g[i - 1]
  <2> DEFINE F(i) == IF i = 0 THEN <<>> ELSE IF c(i) THEN Append(g[i - 1], i) ELSE g[i - 1]
             h == [i \in 0..N |-> F(i)]
  <2>1. g = h
    BY <1>4
  <2>2. \A i \in 0..N : h[i] = F(i)
    OBVIOUS
  <2> HIDE DEF g, h
  <2> QED BY <2>1, <2>2
<1> HIDE DEF g, Eq, c
<1> DEFINE Good(m) ==
             /\ g[m] \in Seq(1..N) /\ Len(g[m]) =< m
             /\ \A k \in 1..Len(g[m]) : g[m][k] >= k /\ c(g[m][k])
             /\ \A j \in 1..m : (\A k \in 1..j : c(k)) => j =< Len(g[m]) /\ g[m][j] = j
             /\ (\A k \in 1..m : c(k)) => Len(g[m]) = m
           T == {m \in 0..N : Good(m)}
<1>6. 0 \in T
  <2>1. g[0] = <<>> /\ <<>> \in Seq(1..N) /\ Len(<<>>) = 0
    BY <1>1, <1>5, EmptySeq
  <2>2. \A k \in 1..0 : FALSE
    OBVIOUS
  <2>3. Good(0)
    BY <2>1, <2>2
  <2> QED BY <2>3, <1>1
<1>7. ASSUME NEW m \in 0..N - 1, m \in T
      PROVE  m + 1 \in T
  <2>1. /\ m \in Nat /\ m + 1 \in 1..N /\ m + 1 \in 0..N /\ m + 1 # 0 /\ (m + 1) - 1 = m
        /\ \A j \in 1..m + 1 : j \in 1..m \/ j = m + 1
    BY <1>1
  <2>2. Good(m)
    BY <1>7
  <2>3. CASE ~c(m + 1)
    <3>1. g[m + 1] = g[m]
      BY <2>1, <2>3, <1>5
    <3>2. ~(\A k \in 1..m + 1 : c(k))
      BY <2>1, <2>3
    <3>3. ASSUME NEW j \in 1..m + 1, \A k \in 1..j : c(k)
          PROVE  j =< Len(g[m]) /\ g[m][j] = j
      <4>1. j # m + 1
        BY <3>2, <3>3
      <4> QED BY <4>1, <2>1, <2>2, <3>3
    <3>4. Len(g[m]) =< m + 1
      BY <2>1, <2>2
    <3> QED BY <2>1, <2>2, <3>1, <3>2, <3>3, <3>4
  <2>4. CASE c(m + 1)
    <3> DEFINE q == g[m]
               r == Append(q, m + 1)
    <3>1. g[m + 1] = r
      BY <2>1, <2>4, <1>5
    <3>2. q \in Seq(1..N) /\ Len(q) =< m /\ Len(q) \in Nat
      BY <2>2
    <3>3. /\ r \in Seq(1..N) /\ Len(r) = Len(q) + 1 /\ r[Len(q) + 1] = m + 1
          /\ \A k \in 1..Len(q) : r[k] = q[k]
      <4> HIDE DEF q
      <4> QED BY <3>2, <2>1, AppendProperties
    <3> HIDE DEF r
    <3>4. \A k \in 1..Len(r) : r[k] >= k /\ c(r[k])
      <4> TAKE k \in 1..Len(r)
      <4>1. CASE k \in 1..Len(q)
        BY <4>1, <3>3, <2>2
      <4>2. CASE k \notin 1..Len(q)
        <5>1. k = Len(q) + 1
          BY <4>2, <3>2, <3>3
        <5> QED BY <5>1, <3>2, <3>3, <2>1, <2>4
      <4> QED BY <4>1, <4>2
    <3>5. ASSUME NEW j \in 1..m + 1, \A k \in 1..j : c(k)
          PROVE  j =< Len(r) /\ r[j] = j
      <4>1. CASE j \in 1..m
        <5>1. j =< Len(q) /\ q[j] = j
          BY <4>1, <3>5, <2>2
        <5> QED BY <5>1, <4>1, <3>2, <3>3
      <4>2. CASE j = m + 1
        <5>1. \A k \in 1..m : c(k)
          BY <4>2, <3>5, <2>1
        <5>2. Len(q) = m
          BY <5>1, <2>2
        <5> QED BY <5>2, <4>2, <3>3, <2>1
      <4> QED BY <4>1, <4>2, <2>1
    <3>6. (\A k \in 1..m + 1 : c(k)) => Len(r) = m + 1
      <4> SUFFICES ASSUME \A k \in 1..m + 1 : c(k) PROVE Len(r) = m + 1
        OBVIOUS
      <4>1. \A k \in 1..m : c(k)
        BY <2>1
      <4> QED BY <4>1, <2>2, <3>3
    <3>7. Len(r) =< m + 1
      BY <3>2, <3>3, <2>1
    <3>8. Good(m + 1)
      BY <3>1, <3>3, <3>4, <3>5, <3>6, <3>7
    <3> QED BY <3>8, <2>1
  <2> QED BY <2>3, <2>4
<1> HIDE DEF T
<1>8. \A m \in 0..N : m \in T
  BY <1>6, <1>7, <1>1, UpTo
<1>9. Good(N)
  <2>1. N \in T
    BY <1>8, <1>1
  <2> QED BY <2>1 DEF T
<1> QED BY <1>2, <1>9 DEF c

\* What was executed is the beginning of the commands.
LEMMA ServedInOrder ==
  ASSUME script \in Script, NEW j \in 1..N + 1, Served(j)
  PROVE  InOrder
<1>1. /\ Carriers \in Seq(1..N) /\ Len(Carriers) \in Nat /\ N \in Nat
  BY CarriersFacts, Places
<1>2. ASSUME NEW k \in 1..j - 1
      PROVE  k =< Len(Carriers) /\ Carriers[k] = k
  <2>1. k \in 1..N /\ \A i \in 1..k : i \in 1..j - 1
    BY <1>1
  <2> QED BY <2>1, CarriersFacts DEF Served
<1>3. j - 1 =< Len(Carriers)
  <2>1. CASE j = 1
    BY <2>1, <1>1
  <2>2. CASE j # 1
    BY <2>2, <1>2, <1>1
  <2> QED BY <2>1, <2>2
<1>4. /\ executed = [k \in 1..j - 1 |-> Data(script, k)] /\ Len(executed) = j - 1
  BY <1>1 DEF Served
<1>5. /\ Commands = [k \in 1..Len(Carriers) |-> Data(script, Carriers[k])]
      /\ Len(Commands) = Len(Carriers)
  <2>1. DOMAIN Carriers = 1..Len(Carriers)
    BY <1>1
  <2>2. Commands = [k \in 1..Len(Carriers) |-> Data(script, Carriers[k])]
    BY <2>1 DEF Commands
  <2> QED BY <2>2, <1>1
<1>6. \A k \in 1..j - 1 : executed[k] = Commands[k]
  BY <1>1, <1>2, <1>4, <1>5
<1>7. SubSeq(executed, 1, j - 1) = [k \in 1..j - 1 |-> executed[k]]
  BY <1>1, <1>4
<1>8. SubSeq(Commands, 1, j - 1) = [k \in 1..j - 1 |-> Commands[k]]
  BY <1>1, <1>3, <1>5
<1>9. SubSeq(executed, 1, Len(executed)) = SubSeq(Commands, 1, Len(executed))
  BY <1>4, <1>6, <1>7, <1>8
<1> QED BY <1>3, <1>4, <1>5, <1>9 DEF InOrder, IsPrefix

\* The text and the order hold together.
LEMMA TextAndOrder == Spec => [](TextInv /\ OrderInv)
<1>1. Init => TextInv /\ OrderInv
  BY InitText, InitOrder
<1>2. TextInv /\ OrderInv /\ [Next]_vars => (TextInv /\ OrderInv)'
  BY TextStep, OrderStep
<1> QED BY <1>1, <1>2, PTL DEF Spec

\* The commands of orderly clients are executed in the order they were sent,
\* none twice and each with its own data, wherever the stream is cut and
\* however long the frames are (web_socket_request_message's loop).
THEOREM FramesInOrder ==
  ASSUME \A s \in Script : Orderly(s)
  PROVE  Spec => []InOrder
<1>1. ASSUME TextInv, OrderInv PROVE InOrder
  <2>1. script \in Script
    BY <1>1 DEF TextInv, WireInv
  <2>2. PICK j \in 1..N + 1 : Served(j)
    BY <2>1, <1>1 DEF OrderInv
  <2> QED BY <2>1, <2>2, ServedInOrder
<1>2. TextInv /\ OrderInv => InOrder
  BY <1>1
<1> QED BY <1>2, TextAndOrder, PTL

\* A unit of a frame up to c has been read when these frames have been.
LEMMA ReadUnits ==
  ASSUME TextInv, NEW c \in Nat, ReadUpTo(c), NEW d \in 1..Len(All), All[d][2] \in Nat, All[d][2] =< c
  PROVE  d =< Len(All) - Len(wire)
<1>1. Len(wire) \in Nat /\ Len(wire) =< Len(All) /\ Len(All) \in Nat /\ DOMAIN wire = 1..Len(wire)
  BY Places DEF TextInv, WireInv
<1>2. SUFFICES ASSUME ~(d =< Len(All) - Len(wire)) PROVE FALSE
  OBVIOUS
<1>3. PICK k \in 1..Len(wire) : Len(All) - Len(wire) + k = d
  <2>1. d - (Len(All) - Len(wire)) \in 1..Len(wire)
    BY <1>1, <1>2
  <2>2. Len(All) - Len(wire) + (d - (Len(All) - Len(wire))) = d
    BY <1>1
  <2> QED BY <2>1, <2>2
<1>4. wire[k] = All[d]
  BY <1>3 DEF TextInv, WireInv
<1>5. wire[k][2] > c
  BY <1>1 DEF ReadUpTo
<1> QED BY <1>4, <1>5

\* No command that has arrived in full is left undone: what is kept is less
\* than a frame.
LEMMA NothingUndone ==
  ASSUME TextInv, OrderInv, Orderly(script)
  PROVE  ArrivedExecuted
<1> SUFFICES ASSUME Waits, NEW k \in DOMAIN Carriers, ReadUpTo(Carriers[k]), ~(k =< Len(executed))
             PROVE  FALSE
  BY DEF ArrivedExecuted
<1>1. script \in Script /\ state = "open" /\ buf = <<>>
  BY DEF TextInv, WireInv, Waits
<1>2. PICK j \in 1..N + 1 : Served(j) /\ Place(j)
  BY <1>1 DEF OrderInv
<1> DEFINE c == Carriers[k]
<1>3. /\ c \in 1..N /\ k \in Nat /\ c >= k /\ Op(script, c) \in {"text", "binary"} /\ N \in Nat
  <2>1. Carriers \in Seq(1..N) /\ N \in Nat
    BY <1>1, CarriersFacts, Places
  <2>2. k \in 1..Len(Carriers) /\ Len(Carriers) \in Nat
    BY <2>1
  <2> QED BY <2>1, <2>2, <1>1, CarriersFacts
<1>4. Len(executed) = j - 1
  BY <1>2, <1>3 DEF Served
<1> HIDE DEF c
<1>5. j \in 1..N /\ j =< c /\ c \in Nat /\ ReadUpTo(c)
  BY <1>3, <1>4 DEF c
<1>6. /\ Len(wire) \in Nat /\ Len(All) \in Nat /\ Len(fragment_buf) \in Nat
      /\ At = Len(All) - Len(wire) - Len(fragment_buf)
  <2>1. Left = fragment_buf
    BY <1>1 DEF Left
  <2> QED BY <2>1, <1>1, Places DEF TextInv, WireInv, BufferInv, At
<1>7. /\ Start(j) \in Nat /\ Start(j + 1) = Start(j) + Size(script, j)
      /\ Size(script, j) \in Nat /\ Size(script, j) > 2
      /\ Start(j + 1) =< Len(All) /\ Start(1) =< Start(j) /\ Start(1) \in {3, 5}
  <2>1. j + 1 \in 1..N + 1 /\ j \in 1..N + 1
    BY <1>5, <1>3
  <2> QED BY <2>1, <1>1, <1>5, Places
<1>8. Start(j) + Size(script, j) =< Len(All) - Len(wire)
  <2>1. /\ Start(j) + Size(script, j) \in 1..Len(All)
        /\ Size(script, j) \in 1..Size(script, j)
    BY <1>6, <1>7
  <2>2. All[Start(j) + Size(script, j)][2] = j
    BY <2>1, <1>1, <1>5, UnitAt
  <2> QED BY <2>1, <2>2, <1>5, ReadUnits
<1>9. CASE connection_type = "NULL"
  BY <1>2, <1>6, <1>7, <1>8, <1>9 DEF Place
<1>10. CASE connection_type # "NULL"
  <2>1. CASE At = Start(j) /\ Len(fragment_buf) < Size(script, j)
    BY <2>1, <1>6, <1>7, <1>8
  <2>2. CASE j = 1 /\ At < Start(1) /\ fragment_buf = <<>>
    <3>1. Len(fragment_buf) = 0
      BY <2>2, EmptySeq
    <3> QED BY <2>2, <3>1, <1>6, <1>7, <1>8
  <2>3. CASE j = N /\ Op(script, N) = "pong"
    BY <2>3, <1>3, <1>5
  <2> QED BY <2>1, <2>2, <2>3, <1>1, <1>2, <1>5, <1>10 DEF Place
<1> QED BY <1>9, <1>10

\* While the thread of an open connection waits, every command of an orderly
\* client that has arrived in full has been executed, also when several came
\* glued together (comment of web_socket_request_message).
THEOREM FramesArrivedExecuted ==
  ASSUME \A s \in Script : Orderly(s)
  PROVE  Spec => []ArrivedExecuted
<1>1. ASSUME TextInv, OrderInv PROVE ArrivedExecuted
  <2>1. Orderly(script)
    BY <1>1 DEF TextInv, WireInv
  <2> QED BY <2>1, <1>1, NothingUndone
<1>2. TextInv /\ OrderInv => ArrivedExecuted
  BY <1>1
<1> QED BY <1>2, TextAndOrder, PTL

-----------------------------------------------------------------------------
\* Clients that do nothing wrong

\* They are connected or have left, and the request is read to its end.
InnocentInv ==
  Innocent => /\ state # "server"
              /\ connection_type = "WS" => Start(1) =< At

\* What is known of such a client.
LEMMA InnocentFacts ==
  ASSUME script \in Script, Innocent
  PROVE  /\ script.request = "ws" /\ Len(All) < MaxFragment /\ Orderly(script)
         /\ \A i \in 1..N : Op(script, i) = "text" /\ script.frames[i].known
<1>1. DOMAIN script.frames = 1..N
  BY ScriptFacts DEF N
<1>2. \A i \in 1..N : Op(script, i) = "text" /\ script.frames[i].known
  BY <1>1 DEF Innocent, Op
<1>3. Orderly(script)
  BY <1>2 DEF Orderly, N
<1> QED BY <1>2, <1>3 DEF Innocent, All

\* Nothing but a text frame is read.
LEMMA InnocentFrame ==
  ASSUME TextInv, OrderInv, InnocentInv, Innocent, Handling
  PROVE  /\ p(0)[1] \in {"text", "zero"}
         /\ \E j \in 1..N : At = Start(j) /\ script.frames[j].known /\ j + 1 \in 1..N + 1
<1>1. script \in Script /\ connection_type = "WS" /\ state = "open"
  BY DEF TextInv, WireInv, BufferInv, Handling
<1>2. Orderly(script) /\ \A i \in 1..N : Op(script, i) = "text" /\ script.frames[i].known
  BY <1>1, InnocentFacts
<1>3. PICK j \in 1..N + 1 : Place(j)
  BY <1>1, <1>2 DEF OrderInv
<1>4. N \in Nat /\ Start(N + 1) = Len(All) /\ Len(All) \in Nat /\ At \in Int /\ Start(1) \in Nat
  BY <1>1, Places, LeftFacts
<1>5. At = Start(j)
  <2>1. ~(At < Start(1))
    BY <1>1, <1>4 DEF InnocentInv
  <2>2. ASSUME j = N, Op(script, N) = "pong" PROVE FALSE
    <3>1. CASE N \in 1..N
      BY <3>1, <2>2, <1>2
    <3>2. CASE N = 0
      BY <3>2, <2>2, <1>3
    <3> QED BY <3>1, <3>2, <1>4
  <2> QED BY <2>1, <2>2, <1>1, <1>3 DEF Place
<1>6. /\ len > 0 /\ len \in Nat /\ p(0) = Left[1] /\ At + len =< Len(All)
      /\ \/ Left[1] = All[At + 1]
         \/ \E i \in 1..N : At = Start(i) /\ Left[1] = <<"zero", i>>
  <2>1. len > 0 /\ len \in Nat /\ p(0) = Left[1]
    BY LeftFacts DEF Handling
  <2> QED BY <2>1, LeftIsStream
<1>7. j \in 1..N
  BY <1>4, <1>5, <1>6
<1>8. CASE Left[1] = All[At + 1]
  <2>1. 1 \in 1..Size(script, j)
    BY <1>1, <1>7, Places
  <2>2. All[Start(j) + 1] = FrameUnits(script, j)[1]
    BY <2>1, <1>1, <1>7, UnitAt
  <2>3. FrameUnits(script, j)[1] = <<Op(script, j), j>>
    BY <1>1, <1>7, FrameFacts DEF N
  <2> QED BY <2>2, <2>3, <1>2, <1>4, <1>5, <1>6, <1>7, <1>8
<1> QED BY <1>2, <1>4, <1>5, <1>6, <1>7, <1>8

\* The request of such a client is answered when its last line end is read,
\* and the client is not turned away before.
LEMMA InnocentRequest ==
  ASSUME ~LineCuts, TextInv, OrderInv, InnocentInv, Innocent, NEW n \in 1..data_size, Request(n)
  PROVE  InnocentInv'
<1>1. /\ Waits /\ connection_type = "NULL" /\ Sent(n) /\ state = "open" /\ buf = <<>>
      /\ wire' = SubSeq(wire, n + 1, Len(wire)) /\ script' = script /\ script \in Script
  BY DEF Request, Close, Waits, TextInv, WireInv
<1>2. script.request = "ws" /\ Orderly(script)
  BY <1>1, InnocentFacts
<1>3. At = 0 /\ answer = "none"
  BY <1>1, <1>2 DEF OrderInv, Place
<1> DEFINE a == Assembled(n)
<1>4. /\ n =< Len(wire) /\ Len(wire') = Len(wire) - n /\ Left = fragment_buf
      /\ a \in Seq(Unit) /\ Len(a) = Len(fragment_buf) + n /\ Last(a) = wire[n]
      /\ \A k \in 1..Len(a) :
           \/ a[k] = All[At + k]
           \/ k = 1 /\ \E j \in 1..N : At = Start(j) /\ a[1] = <<"zero", j>>
  BY <1>1, ReadFacts
<1> HIDE DEF a
<1>5. /\ N \in Nat /\ Len(All) \in Nat /\ Start(1) \in {3, 5} /\ Start(1) =< Len(All)
      /\ \A j \in 1..N : Start(j) # 0
  <2>1. 1 \in 1..N + 1 /\ \A j \in 1..N : j \in 1..N + 1
    BY <1>1, Places
  <2> QED BY <2>1, <1>1, Places
<1>6. /\ Len(RequestUnits(script)) = 5 /\ Start(1) = 5
      /\ RequestUnits(script) = <<Line, Eol, Key, Eol, Eol>>
  <2>1. RequestUnits(script) = <<Line, Eol, Key, Eol, Eol>>
    BY <1>1, <1>2, RequestFacts
  <2>2. Start(1) = Len(RequestUnits(script))
    BY <1>1, StreamLayout DEF Layout, Start
  <2> QED BY <2>1, <2>2
<1>7. /\ Len(wire) \in Nat /\ n \in Nat /\ n >= 1 /\ Len(fragment_buf) \in Nat
      /\ Len(fragment_buf) = Len(All) - Len(wire)
      /\ wire[n][2] = 0
      /\ \A k \in 1..Len(wire) : wire[k] = All[Len(All) - Len(wire) + k]
  <2>1. Len(wire) \in Nat /\ n \in Nat /\ n >= 1 /\ Len(fragment_buf) \in Nat
    BY LimitFacts DEF TextInv, WireInv, BufferInv
  <2>2. Len(fragment_buf) = Len(All) - Len(wire)
    BY <2>1, <1>3, <1>4, <1>5 DEF At
  <2>3. wire[n][2] = 0
    BY <1>1, <1>3 DEF Sent
  <2> QED BY <2>1, <2>2, <2>3 DEF TextInv, WireInv
<1>8. Len(a) =< 5 /\ Len(a) \in Nat /\ Len(a) >= 1
  <2>1. Len(All) - Len(wire) + n =< 5
    BY <1>4, <1>6, <1>7, RequestEnd
  <2> QED BY <2>1, <1>4, <1>7
<1>9. \A k \in 1..Len(a) : a[k] = RequestUnits(script)[k]
  <2> TAKE k \in 1..Len(a)
  <2>1. a[k] = All[0 + k]
    BY <1>3, <1>4, <1>5
  <2>2. k \in 1..Start(1) /\ 0 + k = k
    BY <1>6, <1>8
  <2> QED BY <2>1, <2>2, <1>1, UnitAt
<1>10. /\ Line # Eol /\ Line # Post /\ Eol # Post /\ Eol # Key /\ Line # Key
  BY DEF Line, Eol, Post, Key
<1>11. CASE wire[n] # Eol
  <2>1. Head(a) = a[1] /\ a[1] = Line
    BY <1>4, <1>6, <1>8, <1>9
  <2>2. Incomplete(a)
    BY <2>1, <1>4, <1>10, <1>11 DEF Incomplete
  <2>3. state' = "open" /\ connection_type' = "NULL"
    BY <2>2, <1>1 DEF Request, a
  <2> QED BY <2>3 DEF InnocentInv
<1>12. CASE wire[n] = Eol
  <2>1. \A k \in n + 1..Len(wire) : wire[k][2] # 0
    BY <1>1, <1>12 DEF Sent
  <2>2. Len(a) = 5
    <3> SUFFICES ASSUME Len(a) # 5 PROVE FALSE
      OBVIOUS
    <3>0. Len(a) < 5
      <4>1. \A m \in Nat : m =< 5 /\ m # 5 => m < 5
        OBVIOUS
      <4> QED BY <4>1, <1>8
    <3>1. /\ n + 1 \in n + 1..Len(wire) /\ n + 1 \in 1..Len(wire)
          /\ Len(All) - Len(wire) + (n + 1) = Len(a) + 1
          /\ Len(a) + 1 \in 1..Start(1)
      BY <3>0, <1>4, <1>5, <1>6, <1>7, <1>8
    <3>2. wire[n + 1] = All[Len(a) + 1]
      BY <3>1, <1>7
    <3>3. All[Len(a) + 1][2] = 0
      BY <3>1, <1>1, UnitAt
    <3> QED BY <3>1, <3>2, <3>3, <2>1
  <2>3. Last(a) = Eol /\ a[3] = Key /\ a[4] = Eol
    BY <2>2, <1>4, <1>6, <1>9, <1>12
  <2>4. ~Incomplete(a) /\ HasKey(a)
    <3>1. 3 \in 1..Len(a) - 1 /\ a[3] = Key /\ a[3 + 1] = Eol
      BY <2>2, <2>3
    <3> QED BY <3>1, <2>3 DEF Incomplete, HasKey
  <2>5. connection_type' = "WS" /\ fragment_buf' = <<>> /\ buf' = <<>> /\ state' = "open"
    BY <2>4, <1>1, <1>2 DEF Request, a
  <2>6. Left' = <<>> /\ Len(<<>>) = 0
    BY <2>5, EmptySeq DEF Left
  <2>7. All' = All /\ Start(1)' = Start(1)
    BY <1>1 DEF All, Start
  <2>8. At' = Len(All) - (Len(wire) - n) - 0
    BY <2>6, <2>7, <1>4 DEF At
  <2>9. At' = 5
    <3>1. Len(fragment_buf) + n = 5 /\ Len(fragment_buf) = Len(All) - Len(wire)
      BY <2>2, <1>4, <1>7
    <3> QED BY <3>1, <2>8, <1>5, <1>7
  <2> QED BY <2>5, <2>7, <2>9, <1>6 DEF InnocentInv
<1> QED BY <1>11, <1>12

\* Every step keeps such a client.
LEMMA InnocentStep ==
  ASSUME ~LineCuts, TextInv, OrderInv, InnocentInv, [Next]_vars
  PROVE  InnocentInv'
<1>0. script' = script /\ Innocent' = Innocent /\ All' = All /\ \A j : Start(j)' = Start(j)
  BY DEF Next, Read, Handle, Request, Message, Pong, Bad, Keep, Refuse, Execute, Break, Close,
         Others, Done, vars, Innocent, All, Start
<1> SUFFICES ASSUME Innocent PROVE InnocentInv'
  BY <1>0 DEF InnocentInv
<1>1. script \in Script /\ \A i \in 1..N : Op(script, i) = "text"
  BY InnocentFacts DEF TextInv, WireInv
<1>2. ASSUME NEW n \in 1..data_size, Request(n) PROVE InnocentInv'
  BY <1>2, InnocentRequest
<1>3. ASSUME NEW n \in 1..data_size, Message(n) PROVE InnocentInv'
  <2>1. Waits /\ Sent(n) /\ connection_type = "WS" /\ state = "open" /\ wire' = SubSeq(wire, n + 1, Len(wire))
    BY <1>3 DEF Message, Waits
  <2>2. n =< Len(wire) /\ Left = fragment_buf /\ At \in Nat
    BY <2>1, <1>0, ReadFacts
  <2>3. /\ Len(wire) \in Nat /\ Len(All) \in Nat /\ Len(fragment_buf) \in Nat /\ n \in Nat
        /\ Len(All) < MaxFragment /\ MaxFragment \in Nat
    BY <1>1, Places, LimitFacts, InnocentFacts DEF TextInv, WireInv, BufferInv
  <2>4. ~(Len(fragment_buf) + n >= MaxFragment)
    BY <2>2, <2>3 DEF At
  <2>5. At' = At /\ UNCHANGED <<connection_type, state>>
    BY <2>4, <1>3, MessageFacts
  <2> QED BY <2>5, <1>0 DEF InnocentInv
<1>4. CASE Pong
  BY <1>4, InnocentFrame DEF Pong
<1>5. CASE Bad
  BY <1>5, InnocentFrame DEF Bad, StartsFrame
<1>6. CASE Keep
  <2>1. At' = At /\ UNCHANGED <<connection_type, state>>
    BY <1>6, KeepText DEF Keep, Done
  <2> QED BY <2>1, <1>0 DEF InnocentInv
<1>7. CASE Refuse
  <2>1. Handling /\ Arrived /\ ~script.frames[p(1)[2]].known
    BY <1>7 DEF Refuse
  <2>2. PICK j \in 1..N : At = Start(j) /\ script.frames[j].known
    BY <2>1, InnocentFrame
  <2>3. p(1) = <<"len", j>>
    BY <2>1, <2>2, FrameHere DEF Arrived
  <2> QED BY <2>1, <2>2, <2>3
<1>8. CASE Execute
  <2>1. Handling
    BY <1>8 DEF Execute
  <2>2. PICK j \in 1..N : At = Start(j) /\ j + 1 \in 1..N + 1
    BY <2>1, InnocentFrame
  <2>3. ~nextCommandIsEof
    BY <2>1, InnocentFrame DEF nextCommandIsEof
  <2>4. state' = "open"
    BY <2>3, <1>8 DEF Execute
  <2>5. At' = Start(j + 1)
    BY <2>2, <2>4, <1>8, ExecuteFacts
  <2>6. Start(1) =< Start(j + 1)
    BY <2>2, <1>1, Places
  <2> QED BY <2>4, <2>5, <2>6, <1>0 DEF InnocentInv
<1>9. CASE Break
  BY <1>9 DEF Break, Close, InnocentInv
<1>10. CASE UNCHANGED vars
  <2>1. At' = At
    BY <1>10, <1>0 DEF vars, At, Left
  <2> QED BY <2>1, <1>10, <1>0 DEF vars, InnocentInv
<1>11. CASE Others
  <2>1. At' = At /\ UNCHANGED <<connection_type, state>>
    BY <1>11, OthersText DEF Others
  <2> QED BY <2>1, <1>0 DEF InnocentInv
<1> QED BY <1>2, <1>3, <1>4, <1>5, <1>6, <1>7, <1>8, <1>9, <1>10, <1>11 DEF Next, Read, Handle

\* A client that sends nothing but commands in text frames, in all less than
\* the server would keep, is never thrown out, provided that its request is not
\* cut exactly at the end of a line (request; see LineCuts).
THEOREM FramesInnocentStays ==
  ASSUME ~LineCuts
  PROVE  Spec => []InnocentStays
<1>1. Init => InnocentInv
  BY DEF Init, InnocentInv
<1>2. TextInv /\ OrderInv /\ InnocentInv /\ [Next]_vars => InnocentInv'
  BY InnocentStep
<1>3. InnocentInv => InnocentStays
  BY DEF InnocentInv, InnocentStays
<1> QED BY <1>1, <1>2, <1>3, TextAndOrder, PTL DEF Spec

=============================================================================
