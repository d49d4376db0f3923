------------------------------ MODULE DbLink ------------------------------
(***************************************************************************)
(* The link of a thread to MySQL (dbLink.cpp): a call of a prepared        *)
(* statement (stmBase::insert for everything that changes the database,    *)
(* stmBase::select) or of a query in text (dbLink::query, query_format),   *)
(* with its attempts.  MySQL may refuse the statement, be gone, carry it   *)
(* out and not be heard (the read timeout of 3 s), or be in the middle of  *)
(* an answer nobody has read.                                              *)
(*                                                                         *)
(* A thread has one link and makes one call at a time.  A prepared         *)
(* statement is prepared again when the server is lost, and executed       *)
(* again; then the link is made anew for a third attempt.  A query has no  *)
(* second attempt on the old link.                                         *)
(***************************************************************************)
EXTENDS Naturals

CONSTANT Thread

VARIABLES
  stage,   \* where the call of a thread is
  kind,    \* what it calls
  usable,  \* are the statements of the link prepared on a living connection?
  applied, \* ghost: how many times MySQL has carried the call out
  unheard, \* ghost: how many of its answers were lost
  result   \* what the call returned, once its stage is "done"

linkVars == <<stage, kind, usable, applied, unheard, result>>

Kind == {"insert", "select", "query"}

Attempt == {"first", "again", "second", "third"}

Stage == Attempt \cup {"idle", "prepare", "reconnect", "done"}

\* What becomes of an attempt: it is answered, the statement is wrong, the
\* server is gone before or after it has carried the statement out, the rows of
\* a select cannot be stored, or the link still holds another answer.
Outcome == {"ok", "refused", "lost", "unanswered", "unstored", "unsync"}

Carried == {"ok", "unanswered", "unstored"}

LinkTypeOK ==
  /\ stage \in [Thread -> Stage]
  /\ kind \in [Thread -> Kind]
  /\ usable \in [Thread -> BOOLEAN]
  /\ applied \in [Thread -> Nat]
  /\ unheard \in [Thread -> Nat]
  /\ result \in [Thread -> {"none", "ok", "error"}]

LinkInit ==
  /\ stage = [t \in Thread |-> "idle"]
  /\ kind = [t \in Thread |-> "query"]
  /\ usable = [t \in Thread |-> TRUE]
  /\ applied = [t \in Thread |-> 0]
  /\ unheard = [t \in Thread |-> 0]
  /\ result = [t \in Thread |-> "none"]

-----------------------------------------------------------------------------

Call(t, k) ==
  /\ stage[t] \in {"idle", "done"}
  /\ stage' = [stage EXCEPT ![t] = "first"]
  /\ kind' = [kind EXCEPT ![t] = k]
  /\ applied' = [applied EXCEPT ![t] = 0]
  /\ unheard' = [unheard EXCEPT ![t] = 0]
  /\ result' = [result EXCEPT ![t] = "none"]
  /\ UNCHANGED usable

Return(t, r) ==
  /\ stage' = [stage EXCEPT ![t] = "done"]
  /\ result' = [result EXCEPT ![t] = r]

GoOn(t, s) ==
  /\ stage' = [stage EXCEPT ![t] = s]
  /\ UNCHANGED result

\* A statement that is not prepared fails at once, whatever the server says; a
\* query finds no server, as connect() marks even a link it could not make as
\* connected.
Possible(t, o) ==
  /\ o = "unsync" => stage[t] = "first"
  /\ o = "unstored" => kind[t] = "select" /\ stage[t] \in {"first", "second"}
  /\ ~usable[t] /\ stage[t] = "first" =>
       o = IF kind[t] = "query" THEN "lost" ELSE "refused"

\* What the server does: it has the statement carried out or not.
Server(t, o) ==
  /\ stage[t] \in Attempt
  /\ Possible(t, o)
  /\ applied' = [applied EXCEPT ![t] = @ + IF o \in Carried THEN 1 ELSE 0]
  /\ unheard' = [unheard EXCEPT ![t] = @ + IF o = "unanswered" THEN 1 ELSE 0]
  /\ UNCHANGED <<kind, usable>>

\* stmBase::insert: what has succeeded after it was out of sync has no error
\* code, which is not that of a lost server; a third attempt fails in any case.
InsertResult(s, o) ==
  IF s \in {"first", "second"} /\ o = "ok" THEN "ok" ELSE "error"

\* stmBase::select: -1 is returned as a bool after the third attempt.
SelectResult(s, o) ==
  IF s = "third" \/ (s \in {"first", "second"} /\ o = "ok") THEN "ok" ELSE "error"

StatementAttempt(t, o) ==
  /\ kind[t] \in {"insert", "select"}
  /\ Server(t, o)
  /\ \/ o = "unsync" /\ GoOn(t, "again")
     \/ stage[t] \in {"first", "again"} /\ o \in {"lost", "unanswered"} /\ GoOn(t, "prepare")
     \/ stage[t] = "second" /\ o \in {"refused", "lost", "unanswered"} /\ GoOn(t, "reconnect")
     \/ /\ \/ stage[t] \in {"first", "again"} /\ o \in {"ok", "refused", "unstored"}
           \/ stage[t] = "second" /\ o \in {"ok", "unstored"}
           \/ stage[t] = "third"
        /\ Return(t, IF kind[t] = "insert" THEN InsertResult(stage[t], o)
                                           ELSE SelectResult(stage[t], o))

\* Fault: the query goes on to its last attempt in any case.
QueryAttemptTwice(t, o) ==
  /\ kind[t] = "query"
  /\ Server(t, o)
  /\ \/ o = "unsync" /\ GoOn(t, "again")
     \/ o # "unsync" /\ stage[t] # "third" /\ GoOn(t, "reconnect")
     \/ stage[t] = "third" /\ Return(t, IF o = "ok" THEN "ok" ELSE "error")

QueryAttempt(t, o) ==
  /\ kind[t] = "query"
  /\ Server(t, o)
  /\ \/ o = "ok" /\ Return(t, "ok")
     \/ o = "unsync" /\ GoOn(t, "again")
     \/ o \notin {"ok", "unsync"} /\ stage[t] # "third" /\ GoOn(t, "reconnect")
     \/ o \notin {"ok", "unsync"} /\ stage[t] = "third" /\ Return(t, "error")

Execute(t, o) == StatementAttempt(t, o) \/ QueryAttempt(t, o)

\* stmBase::init prepares the statement anew; the client library may find the
\* server again while it does (MYSQL_OPT_RECONNECT).
Prepare(t, ok) ==
  /\ stage[t] = "prepare"
  /\ IF ok THEN GoOn(t, "second") ELSE Return(t, "error")
  /\ UNCHANGED <<kind, usable, applied, unheard>>

\* Fault: -1 is a success, as it is for select.
ReconnectTrue(t, ok) ==
  /\ stage[t] = "reconnect"
  /\ usable' = [usable EXCEPT ![t] = ok]
  /\ IF ok THEN GoOn(t, "third") ELSE Return(t, "ok")
  /\ UNCHANGED <<kind, applied, unheard>>

\* dbLink::reconnect closes the old link, with all its statements, and connect
\* prepares them on the new one.  A link that cannot be made has none;
\* stmBase::select returns -1, which is true.
Reconnect(t, ok) ==
  /\ stage[t] = "reconnect"
  /\ usable' = [usable EXCEPT ![t] = ok]
  /\ IF ok THEN GoOn(t, "third")
           ELSE Return(t, IF kind[t] = "select" THEN "ok" ELSE "error")
  /\ UNCHANGED <<kind, applied, unheard>>

\* The caller is done with the result.
Rest(t) ==
  /\ stage[t] \in {"idle", "done"}
  /\ stage' = [stage EXCEPT ![t] = "idle"]
  /\ kind' = [kind EXCEPT ![t] = "query"]
  /\ applied' = [applied EXCEPT ![t] = 0]
  /\ unheard' = [unheard EXCEPT ![t] = 0]
  /\ result' = [result EXCEPT ![t] = "none"]
  /\ UNCHANGED usable

LinkStep(t) ==
  \/ Rest(t)
  \/ \E k \in Kind : Call(t, k)
  \/ \E o \in Outcome : Execute(t, o)
  \/ \E ok \in BOOLEAN : Prepare(t, ok) \/ Reconnect(t, ok)

LinkNext == \E t \in Thread : LinkStep(t)

LinkSpec == LinkInit /\ [][LinkNext]_linkVars

-----------------------------------------------------------------------------
\* Properties

\* A change that is reported as made has been made: insert() and query() return
\* success only if MySQL has carried the statement out, whatever was lost on
\* the way (dbLink.cpp 132-184, 437-560).
SuccessMeansApplied ==
  \A t \in Thread :
    stage[t] = "done" /\ result[t] = "ok" /\ kind[t] # "select" => applied[t] > 0

\* Retries repeat only what nobody answered: MySQL carries a call out at most
\* once more than answers were lost, and three times in all.
OncePerLostAnswer ==
  \A t \in Thread : applied[t] <= unheard[t] + 1 /\ applied[t] <= 3

\* What a call reports as made has been made, and no oftener than answers were
\* lost, although a link may be lost at every attempt and one that could not be
\* made anew is taken for a link (dbLink.cpp 122-177, 396, 444-573).
CallsAreTrue == SuccessMeansApplied /\ OncePerLostAnswer

\* A change that is reported as failed was not answered: the -1 of insert()
\* is an error (dbLink.cpp 121, "-1 если ошибка и affected_rows если успех").
ErrorMeansUnanswered ==
  \A t \in Thread :
    stage[t] = "done" /\ result[t] = "error" /\ kind[t] # "select" => applied[t] = unheard[t]
=============================================================================
