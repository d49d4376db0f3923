--------------------------- MODULE DbLinkProofs ---------------------------
(***************************************************************************)
(* What DbLink promises of the calls of any set of threads: a change that  *)
(* is reported as made has been made, and retries repeat only what nobody  *)
(* answered.  The invariant follows the stages of a call: before its       *)
(* last attempt MySQL has carried it out exactly as often as it was not    *)
(* heard, and each stage bounds how often that was.                        *)
(***************************************************************************)
EXTENDS DbLink, TLAPS

\* How many attempts a stage has behind it, those out of sync not counted.
Sent(s) ==
  IF s \in {"prepare", "second"} THEN 1
  ELSE IF s \in {"reconnect", "third"} THEN 2
  ELSE IF s = "done" THEN 3 ELSE 0

\* The counts of a call agree with its stage.
Counted(t) ==
  /\ applied[t] <= Sent(stage[t])
  /\ stage[t] # "done" => applied[t] = unheard[t]
  /\ stage[t] = "done" => applied[t] <= unheard[t] + 1
  /\ stage[t] = "done" /\ result[t] = "ok" /\ kind[t] # "select" => applied[t] > 0
  /\ stage[t] = "done" => result[t] # "none"

LinkInv == LinkTypeOK /\ \A t \in Thread : Counted(t)

\* The counts at a stage depend on the thread's own call alone.
Same(t) ==
  /\ stage'[t] = stage[t]
  /\ kind'[t] = kind[t]
  /\ applied'[t] = applied[t]
  /\ unheard'[t] = unheard[t]
  /\ result'[t] = result[t]

\* A call that nobody makes keeps its counts (dbLink.cpp: every thread has a
\* link of its own).
LEMMA OthersKeep ==
  ASSUME NEW t \in Thread, Counted(t), Same(t)
  PROVE  Counted(t)'
BY DEF Counted, Same

\* A link at rest has no calls to count.
LEMMA InitCounted == LinkInit => LinkInv
<1> SUFFICES ASSUME LinkInit PROVE LinkInv
  OBVIOUS
<1>1. LinkTypeOK
  BY DEF LinkInit, LinkTypeOK, Stage, Kind
<1>2. ASSUME NEW t \in Thread PROVE Counted(t)
  BY DEF LinkInit, Counted, Sent
<1> QED BY <1>1, <1>2 DEF LinkInv

-----------------------------------------------------------------------------
\* One lemma for each kind of step: it keeps the types, counts its own call and
\* leaves the others alone.

\* A new call and a call that is done with have not been sent.
LEMMA CallCounted ==
  ASSUME LinkInv, NEW t \in Thread, (\E k \in Kind : Call(t, k)) \/ Rest(t)
  PROVE  LinkInv'
<1>1. LinkTypeOK'
  BY DEF LinkInv, LinkTypeOK, Call, Rest, Stage, Attempt, Kind
<1>2. ASSUME NEW u \in Thread PROVE Counted(u)'
  <2>1. CASE u = t
    BY <2>1 DEF LinkInv, LinkTypeOK, Call, Rest, Counted, Sent
  <2>2. CASE u # t
    <3>1. Same(u)
      BY <2>2 DEF LinkInv, LinkTypeOK, Call, Rest, Same
    <3>2. Counted(u)
      BY DEF LinkInv
    <3> QED BY <3>1, <3>2, OthersKeep
  <2> QED BY <2>1, <2>2
<1> QED BY <1>1, <1>2 DEF LinkInv

\* An attempt is counted as the stage it goes on to allows.
LEMMA ExecuteCounted ==
  ASSUME LinkInv, NEW t \in Thread, NEW o \in Outcome, Execute(t, o)
  PROVE  LinkInv'
<1> USE DEF Execute, StatementAttempt, QueryAttempt, Server, GoOn, Return
<1>1. LinkTypeOK'
  <2>1. applied' \in [Thread -> Nat] /\ unheard' \in [Thread -> Nat]
    BY DEF LinkInv, LinkTypeOK
  <2>2. stage' \in [Thread -> Stage] /\ result' \in [Thread -> {"none", "ok", "error"}]
    BY DEF LinkInv, LinkTypeOK, Stage, Attempt, InsertResult, SelectResult
  <2> QED BY <2>1, <2>2 DEF LinkInv, LinkTypeOK
<1>2. ASSUME NEW u \in Thread PROVE Counted(u)'
  <2>1. CASE u = t
    <3>1. /\ stage[t] \in Attempt
          /\ applied[t] = unheard[t] /\ applied[t] <= Sent(stage[t])
          /\ applied[t] \in Nat /\ unheard[t] \in Nat
      BY DEF LinkInv, LinkTypeOK, Counted, Attempt
    <3>2. /\ applied'[t] = applied[t] + IF o \in Carried THEN 1 ELSE 0
          /\ unheard'[t] = unheard[t] + IF o = "unanswered" THEN 1 ELSE 0
          /\ kind'[t] = kind[t]
      BY DEF LinkInv, LinkTypeOK
    <3>3. CASE StatementAttempt(t, o)
      <4>1. CASE stage'[t] # "done"
        BY <3>1, <3>2, <3>3, <4>1
        DEF Counted, Sent, Carried, Outcome, Attempt, Possible, LinkInv, LinkTypeOK
      <4>2. CASE stage'[t] = "done"
        <5>1. /\ result'[t] = "ok" /\ kind[t] # "select" => o = "ok"
              /\ result'[t] # "none"
          BY <3>3, <4>2 DEF InsertResult, SelectResult, LinkInv, LinkTypeOK
        <5> QED
          BY <2>1, <3>1, <3>2, <4>2, <5>1 DEF Counted, Sent, Carried, Attempt
      <4> QED BY <2>1, <4>1, <4>2
    <3>4. CASE QueryAttempt(t, o)
      <4>1. CASE stage'[t] # "done"
        BY <3>1, <3>2, <3>4, <4>1
        DEF Counted, Sent, Carried, Outcome, Attempt, Possible, LinkInv, LinkTypeOK
      <4>2. CASE stage'[t] = "done"
        <5>1. (result'[t] = "ok" => o = "ok") /\ result'[t] # "none"
          BY <3>4, <4>2 DEF LinkInv, LinkTypeOK
        <5> QED
          BY <2>1, <3>1, <3>2, <4>2, <5>1 DEF Counted, Sent, Carried, Attempt
      <4> QED BY <2>1, <4>1, <4>2
    <3> QED BY <3>3, <3>4
  <2>2. CASE u # t
    <3>1. Same(u)
      BY <2>2 DEF LinkInv, LinkTypeOK, Same
    <3>2. Counted(u)
      BY DEF LinkInv
    <3> QED BY <3>1, <3>2, OthersKeep
  <2> QED BY <2>1, <2>2
<1> QED BY <1>1, <1>2 DEF LinkInv

\* Preparing and connecting send nothing.
LEMMA RelinkCounted ==
  ASSUME LinkInv, NEW t \in Thread, NEW ok \in BOOLEAN,
         Prepare(t, ok) \/ Reconnect(t, ok)
  PROVE  LinkInv'
<1> USE DEF Prepare, Reconnect, GoOn, Return
<1>1. LinkTypeOK'
  BY DEF LinkInv, LinkTypeOK, Stage, Attempt
<1>2. ASSUME NEW u \in Thread PROVE Counted(u)'
  <2>1. CASE u = t
    <3>1. /\ applied[t] = unheard[t] /\ applied[t] <= Sent(stage[t])
          /\ applied'[t] = applied[t] /\ unheard'[t] = unheard[t] /\ kind'[t] = kind[t]
          /\ applied[t] \in Nat
      BY DEF LinkInv, LinkTypeOK, Counted
    <3>2. /\ Sent(stage[t]) <= Sent(stage'[t])
          /\ stage'[t] = "done" /\ result'[t] = "ok" => kind[t] = "select"
          /\ stage'[t] = "done" => result'[t] # "none"
      BY DEF LinkInv, LinkTypeOK, Sent
    <3>3. Sent(stage[t]) \in Nat /\ Sent(stage'[t]) \in Nat
      BY DEF Sent
    <3> QED BY <2>1, <3>1, <3>2, <3>3 DEF Counted
  <2>2. CASE u # t
    <3>1. Same(u)
      BY <2>2 DEF LinkInv, LinkTypeOK, Same
    <3>2. Counted(u)
      BY DEF LinkInv
    <3> QED BY <3>1, <3>2, OthersKeep
  <2> QED BY <2>1, <2>2
<1> QED BY <1>1, <1>2 DEF LinkInv

\* Every step of a link keeps its types and its counts.
LEMMA LinkKept ==
  ASSUME LinkInv, [LinkNext]_linkVars
  PROVE  LinkInv'
<1>1. CASE LinkNext
  <2>1. PICK t \in Thread : LinkStep(t)
    BY <1>1 DEF LinkNext
  <2>2. CASE (\E k \in Kind : Call(t, k)) \/ Rest(t)
    BY <2>2, CallCounted
  <2>3. ASSUME NEW o \in Outcome, Execute(t, o) PROVE LinkInv'
    BY <2>3, ExecuteCounted
  <2>4. ASSUME NEW ok \in BOOLEAN, Prepare(t, ok) \/ Reconnect(t, ok) PROVE LinkInv'
    BY <2>4, RelinkCounted
  <2> QED BY <2>1, <2>2, <2>3, <2>4 DEF LinkStep
<1>2. CASE UNCHANGED linkVars
  BY <1>2 DEF LinkInv, LinkTypeOK, Counted, linkVars
<1> QED BY <1>1, <1>2

-----------------------------------------------------------------------------
\* Theorems

\* The types and the counts of the calls hold in every state (dbLink.cpp: all
\* calls are made by these steps).
THEOREM LinkInvariant == LinkSpec => []LinkInv
BY InitCounted, LinkKept, PTL DEF LinkSpec

\* A change that insert() or query() reports as made has been made.
THEOREM SuccessIsApplied == LinkSpec => []SuccessMeansApplied
<1>1. LinkInv => SuccessMeansApplied
  BY DEF LinkInv, Counted, SuccessMeansApplied
<1> QED BY <1>1, LinkInvariant, PTL

\* MySQL carries a call out at most once more than answers were lost, and at
\* most three times.
THEOREM RetriesBounded == LinkSpec => []OncePerLostAnswer
<1>1. LinkInv => OncePerLostAnswer
  <2> SUFFICES ASSUME LinkInv, NEW t \in Thread
               PROVE  applied[t] <= unheard[t] + 1 /\ applied[t] <= 3
    BY DEF OncePerLostAnswer
  <2>1. applied[t] \in Nat /\ unheard[t] \in Nat /\ Counted(t)
    BY DEF LinkInv, LinkTypeOK
  <2> QED BY <2>1 DEF Counted, Sent
<1> QED BY <1>1, LinkInvariant, PTL
=============================================================================
