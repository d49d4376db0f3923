------------------------- MODULE ChannelLogProofs -------------------------
(***************************************************************************)
(* What ChannelLog promises of any connections, threads and scripts, in    *)
(* two parts.                                                              *)
(*                                                                         *)
(* The commands use their links as DbLink says, so that what is proved of  *)
(* a link holds of every call they make; and a client that subscribes and  *)
(* then reads the log misses nothing, as long as one select reads all of   *)
(* it.                                                                     *)
(*                                                                         *)
(* Whatever the links do, the state keeps its type, the log keeps to its   *)
(* length and to its latest messages, and a channel without a log has no   *)
(* messages.  These follow from who still has something to do: a log that  *)
(* is too long has a thread that will trim it, and messages without a      *)
(* setting have a thread that will delete them.                            *)
(***************************************************************************)
EXTENDS ChannelLog, DbLinkProofs, FiniteSetTheorems

\* Each step of a command is a step of one link or leaves the links alone.
LEMMA StepIsLinkStep ==
  ASSUME [Next]_vars
  PROVE  [LinkNext]_linkVars
<1> USE DEF LinkNext, LinkStep
<1>1. ASSUME NEW t \in Thread, NEW s, GoTo(t, s) PROVE LinkNext
  <2>1. StepKind(s) \in Kind /\ Call(t, StepKind(s))
    BY <1>1 DEF GoTo, StepKind, Kind
  <2> QED BY <2>1
<1>2. ASSUME NEW t \in Thread, Answer(t) PROVE LinkNext
  BY <1>2 DEF Answer
<1>3. ASSUME NEW t \in Thread, ThreadStep(t) PROVE [LinkNext]_linkVars
  <2>1. ASSUME NEW o \in Outcome, Database(t, o) PROVE LinkNext
    BY <2>1 DEF Database
  <2>2. ASSUME NEW ok \in BOOLEAN, Relink(t, ok) PROVE LinkNext
    BY <2>2 DEF Relink
  <2>3. CASE NotLogged(t) \/ Trimmed(t)
    BY <2>3 DEF NotLogged, Trimmed, linkVars
  <2>4. CASE Log(t) \/ Logged(t) \/ SettingDeleted(t)
    BY <1>1, <2>4 DEF Log, Logged, SettingDeleted
  <2>5. CASE Send(t) \/ Saved(t) \/ MessagesDeleted(t) \/ Selected(t)
    BY <1>2, <2>5 DEF Send, Saved, MessagesDeleted, Selected
  <2> QED BY <1>3, <2>1, <2>2, <2>3, <2>4, <2>5 DEF ThreadStep
<1>4. ASSUME NEW c \in Conn, Client(c) PROVE [LinkNext]_linkVars
  <2>1. ThreadOf[c] \in Thread
    BY ChannelLogAssumption DEF ChannelLogAssumption
  <2>2. CASE Receive(c)
    BY <1>1, <2>1, <2>2 DEF Receive
  <2>3. CASE Subscribe(c)
    BY <2>3 DEF Subscribe, linkVars
  <2> QED BY <1>4, <2>2, <2>3 DEF Client
<1>5. CASE Next
  BY <1>3, <1>4, <1>5 DEF Next, Tick, linkVars
<1>6. CASE UNCHANGED vars
  BY <1>6 DEF vars, linkVars
<1> QED BY <1>5, <1>6

\* All their calls of the database, whatever fails, are calls as stmBase and
\* dbLink::query make them.
LEMMA CommandsUseLinks == Spec => LinkSpec
<1>1. Init => LinkInit
  BY DEF Init
<1>2. [Next]_vars => [LinkNext]_linkVars
  BY StepIsLinkStep
<1> QED BY <1>1, <1>2, PTL DEF Spec, LinkSpec

\* No command takes a change for made that was not, nor repeats more than what
\* was not answered, over any number of links that are lost at any attempt and
\* may not be made anew (stmBase::insert, dbLink::query).
THEOREM CommandsKeepLinks == Spec => []CallsAreTrue
BY CommandsUseLinks, SuccessIsApplied, RetriesBounded, PTL DEF CallsAreTrue

-----------------------------------------------------------------------------
\* What a reader of the log knows.  A message is sent after it was logged, so
\* what is logged later has not been sent; a row stays in the log until it is
\* deleted; and whoever is subscribed gets what is sent while his select is on
\* its way.

Message == Conn \X Nat
AnyRow == [id : Message \cup {None}, time : Nat]
IdsOf(read) == {r.id : r \in read}

\* The types the argument needs.
LogTypes ==
  /\ served \in [Conn -> Nat]
  /\ task \in [Thread -> Conn \cup {None}]
  /\ step \in [Thread -> Steps \cup {"idle"}]
  /\ uid \in [Thread -> AnyRow]
  /\ rows \in [Thread -> SUBSET AnyRow]
  /\ log \in SUBSET AnyRow /\ IsFiniteSet(log)
  /\ clock \in Nat
  /\ live \in [Conn -> SUBSET Message]
  /\ history \in [Conn -> SUBSET (Message \cup {None})]
  /\ past = [readers |-> past.readers, logged |-> past.logged, gone |-> past.gone,
             trimmed |-> past.trimmed, sent |-> past.sent, longest |-> past.longest,
             overdue |-> past.overdue, raced |-> past.raced]

\* A thread serves a connection of its own, or none.
Serving ==
  \A t \in Thread :
    /\ step[t] # "idle" => task[t] \in Conn /\ ThreadOf[task[t]] = t
    /\ step[t] = "messages_insert" => uid[t].id = <<task[t], served[task[t]] + 1>>
    /\ step[t] # "messages_select" => rows[t] = Unread

\* What has been sent belongs to commands that have been answered.
SentServed == \A m \in past.sent : m \in Message /\ m[2] <= served[m[1]]

\* A row that was logged is in the log until it is deleted.
StaysLogged == \A m \in past.logged : m \in past.gone \/ \E r \in log : r.id = m

\* c has message m, or will have it once he gets those read, or it is gone.
Has(c, m, read) == m \in live[c] \cup history[c] \cup past.gone \cup read \/ m[1] = c

ReadersHave ==
  /\ past.readers \subseteq subscribers /\ subscribers \subseteq Conn
  /\ \A c \in past.readers, m \in past.sent \cap past.logged : Has(c, m, {})

\* So it is with those whose select has been answered.
WillHave ==
  \A t \in Thread :
    step[t] = "messages_select" /\ rows[t] # Unread /\ task[t] \in subscribers =>
      \A m \in past.sent \cap past.logged : Has(task[t], m, IdsOf(rows[t]))

NoGapInv ==
  /\ LogTypes
  /\ Serving
  /\ SentServed
  /\ StaysLogged
  /\ ReadersHave
  /\ WillHave

\* The whole log fits into one select.
LogFits == Cardinality(log) <= SelectLimit

\* At the start nothing is logged, sent or read.
LEMMA InitNoGap == Init => NoGapInv
<1> SUFFICES ASSUME Init PROVE NoGapInv
  OBVIOUS
<1>1. LogTypes
  BY FS_EmptySet DEF Init, LogTypes, AnyRow, NoRow, Unread, Steps
<1>2. Serving /\ SentServed /\ StaysLogged /\ ReadersHave /\ WillHave
  BY DEF Init, Serving, SentServed, StaysLogged, ReadersHave, WillHave
<1> QED BY <1>1, <1>2 DEF NoGapInv

\* Steps that concern neither the tables nor what was sent and read.
LEMMA QuietNoGap ==
  ASSUME NoGapInv,
         UNCHANGED <<served, rows, log, clock, live, history, subscribers>>,
         step' \in [Thread -> Steps \cup {"idle"}],
         task' \in [Thread -> Conn \cup {None}],
         uid' \in [Thread -> AnyRow],
         past' = [past EXCEPT !.overdue = past'.overdue, !.raced = past'.raced],
         Serving',
         \A t \in Thread : step'[t] = "messages_select" /\ rows[t] # Unread =>
            step[t] = "messages_select" /\ task'[t] = task[t]
  PROVE  NoGapInv'
<1>1. LogTypes'
  BY DEF NoGapInv, LogTypes
<1>2. /\ past'.readers = past.readers /\ past'.logged = past.logged
      /\ past'.gone = past.gone /\ past'.sent = past.sent
  BY DEF NoGapInv, LogTypes
<1>3. SentServed' /\ StaysLogged' /\ ReadersHave'
  BY <1>2 DEF NoGapInv, SentServed, StaysLogged, ReadersHave, Has
<1>4. WillHave'
  BY <1>2 DEF NoGapInv, WillHave, Has, IdsOf
<1> QED BY <1>1, <1>3, <1>4 DEF NoGapInv

\* Taking a command, making the link anew and going from call to call.
LEMMA CallsNoGap ==
  ASSUME NoGapInv,
         NEW t \in Thread,
         (\E c \in Conn : t = ThreadOf[c] /\ Receive(c))
           \/ (\E ok \in BOOLEAN : Relink(t, ok))
           \/ NotLogged(t) \/ Log(t) \/ Logged(t) \/ Trimmed(t) \/ SettingDeleted(t)
  PROVE  NoGapInv'
<1> USE DEF session, thread, tables, channel
<1>1. CASE \E c \in Conn : t = ThreadOf[c] /\ Receive(c)
  <2>1. PICK c \in Conn : t = ThreadOf[c] /\ Receive(c)
    BY <1>1
  <2>2. FirstStep(Command(c).op) \in Steps \ {"messages_insert"}
    BY DEF FirstStep, Steps
  <2>3. step[t] = "idle"
    BY <2>1, ChannelLogAssumption
    DEF NoGapInv, Serving, LogTypes, Receive, Idle, ChannelLogAssumption
  <2> QED
    BY <2>1, <2>2, <2>3, QuietNoGap
    DEF NoGapInv, LogTypes, Serving, Receive, GoTo
<1>2. CASE \E ok \in BOOLEAN : Relink(t, ok)
  BY <1>2, QuietNoGap DEF NoGapInv, LogTypes, Serving, Relink
<1>3. CASE NotLogged(t)
  BY <1>3, QuietNoGap DEF NoGapInv, LogTypes, Serving, NotLogged, Returned, Steps
<1>4. CASE Log(t)
  <2>1. uid'[t].id = <<task[t], served[task[t]] + 1>> /\ uid' \in [Thread -> AnyRow]
    BY <1>4 DEF NoGapInv, LogTypes, Serving, Log, Returned, AnyRow, Message, Steps
  <2> QED
    BY <1>4, <2>1, QuietNoGap
    DEF NoGapInv, LogTypes, Serving, Log, Returned, GoTo, Steps
<1>5. CASE Logged(t)
  BY <1>5, QuietNoGap DEF NoGapInv, LogTypes, Serving, Logged, Returned, GoTo, Steps
<1>6. CASE Trimmed(t)
  BY <1>6, QuietNoGap DEF NoGapInv, LogTypes, Serving, Trimmed, Returned, Steps
<1>7. CASE SettingDeleted(t)
  BY <1>7, QuietNoGap DEF NoGapInv, LogTypes, Serving, SettingDeleted, Returned, GoTo, Steps
<1> QED BY <1>1, <1>2, <1>3, <1>4, <1>5, <1>6, <1>7

\* A connection subscribes while its thread serves nobody.
LEMMA SubscribeNoGap ==
  ASSUME NoGapInv, NEW c \in Conn, Subscribe(c)
  PROVE  NoGapInv'
<1> USE DEF thread, tables, Subscribe
<1>1. LogTypes'
  BY DEF NoGapInv, LogTypes
<1>2. \A t \in Thread : step[t] # "idle" => task[t] # c
  BY ChannelLogAssumption DEF NoGapInv, Serving, Idle, ChannelLogAssumption
<1>3. Serving'
  BY <1>2 DEF NoGapInv, LogTypes, Serving
<1>4. SentServed'
  BY DEF NoGapInv, LogTypes, SentServed, Message
<1>5. StaysLogged' /\ ReadersHave'
  BY DEF NoGapInv, StaysLogged, ReadersHave, Has
<1>6. WillHave'
  BY <1>2 DEF NoGapInv, WillHave, Has, IdsOf
<1> QED BY <1>1, <1>3, <1>4, <1>5, <1>6 DEF NoGapInv

\* A select that reads as many rows as the log has reads all of them.
LEMMA ReadsAll ==
  ASSUME IsFiniteSet(log), LogFits, NEW read \in Oldest(SelectLimit, log)
  PROVE  read = log
<1>1. Cardinality(log) \in Nat /\ SelectLimit \in Nat
  BY FS_CardinalityType, ChannelLogAssumption DEF ChannelLogAssumption
<1>2. read \in SUBSET log /\ Cardinality(read) = Cardinality(log)
  BY <1>1 DEF Oldest, kSubset, LogFits
<1> QED BY <1>2, FS_Subset

\* What a trim keeps was in the log.
LEMMA KeepsSome ==
  ASSUME NEW n, NEW kept \in Latest(n)
  PROVE  kept \in SUBSET log
<1>1. PICK newest \in Newest(n, log) :
        kept \in {log \ deleted : deleted \in Newest(TrimLimit, log \ newest)}
  BY DEF Latest
<1> QED BY <1>1

\* A select: its snapshot of the log has what was logged and not deleted.
LEMMA ReadNoGap ==
  ASSUME NoGapInv, LogFits, NEW t \in Thread, step[t] # "idle", NEW o, Read(t, o),
         UNCHANGED <<session, task, step, uid, clock, channel>>
  PROVE  NoGapInv'
<1> USE DEF session, tables, channel, Read
<1>1. PICK read \in IF o = "ok" /\ step[t] = "messages_select"
                       THEN Oldest(SelectLimit, log) ELSE {Unread} :
        rows' = [rows EXCEPT ![t] = read]
  OBVIOUS
<1>2. read = Unread \/ (step[t] = "messages_select" /\ read = log)
  BY <1>1, ReadsAll DEF NoGapInv, LogTypes
<1>3. Unread \in SUBSET AnyRow
  BY DEF Unread, NoRow, AnyRow
<1>4. LogTypes'
  BY <1>1, <1>2, <1>3 DEF NoGapInv, LogTypes
<1>5. Serving'
  BY <1>1, <1>2 DEF NoGapInv, LogTypes, Serving
<1>6. SentServed' /\ StaysLogged' /\ ReadersHave'
  BY DEF NoGapInv, SentServed, StaysLogged, ReadersHave, Has
<1>7. WillHave'
  <2> SUFFICES ASSUME NEW u \in Thread, step[u] = "messages_select", rows'[u] # Unread,
                      task[u] \in subscribers,
                      NEW m \in past.sent \cap past.logged
               PROVE  Has(task[u], m, IdsOf(rows'[u]))
    BY DEF WillHave, Has, IdsOf
  <2>1. CASE u = t
    <3>1. rows'[u] = log
      BY <1>1, <1>2, <2>1 DEF NoGapInv, LogTypes
    <3>2. m \in past.gone \/ m \in IdsOf(log)
      BY DEF NoGapInv, StaysLogged, IdsOf
    <3> QED BY <3>1, <3>2 DEF Has
  <2>2. CASE u # t
    <3>1. rows'[u] = rows[u]
      BY <1>1, <2>2 DEF NoGapInv, LogTypes
    <3> QED BY <3>1 DEF NoGapInv, WillHave, Has
  <2> QED BY <2>1, <2>2
<1> QED BY <1>4, <1>5, <1>6, <1>7 DEF NoGapInv

\* A change of the tables: what is inserted has not been sent, and what is
\* deleted is gone.
LEMMA ChangeNoGap ==
  ASSUME NoGapInv, NEW t \in Thread, step[t] # "idle", NEW o, Change(t, o),
         UNCHANGED <<session, task, step, uid, clock, channel>>
  PROVE  NoGapInv'
<1> USE DEF session, channel, Change, tables
<1>1. LogTypes' /\ StaysLogged' /\ past'.sent = past.sent /\ past'.readers = past.readers
      /\ past.gone \subseteq past'.gone
      /\ (past'.logged = past.logged
            \/ (step[t] = "messages_insert" /\ past'.logged = past.logged \cup {uid[t].id}))
  <2>1. CASE o \in Carried /\ Insert(t)
    <3>1. log' = log \cup {uid[t]} /\ IsFiniteSet(log')
      BY <2>1, FS_AddElement DEF NoGapInv, LogTypes, Insert, Keep
    <3>2. /\ past' = [past EXCEPT !.logged = @ \cup {uid[t].id}]
          /\ UNCHANGED <<length, rows>>
      BY <2>1 DEF Insert
    <3>3. LogTypes' /\ past'.logged = past.logged \cup {uid[t].id} /\ past'.gone = past.gone
          /\ past'.sent = past.sent /\ past'.readers = past.readers
      BY <3>1, <3>2 DEF NoGapInv, LogTypes
    <3>4. StaysLogged'
      BY <3>1, <3>3 DEF NoGapInv, StaysLogged
    <3> QED BY <2>1, <3>3, <3>4 DEF Insert
  <2>2. CASE o \in Carried /\ Trim(t)
    <3>1. PICK kept \in Latest(length[t]) :
            /\ Keep(kept)
            /\ past' = [past EXCEPT !.gone = @ \cup {r.id : r \in log \ kept},
                                    !.trimmed = IF length[t] = settings
                                                  THEN @ \cup (log \ kept) ELSE {},
                                    !.overdue = TooLong(kept, length[t])]
      BY <2>2 DEF Trim
    <3>2. kept \in SUBSET log /\ IsFiniteSet(kept) /\ log' = kept
      BY <3>1, KeepsSome, FS_Subset DEF NoGapInv, LogTypes, Keep
    <3>3. /\ LogTypes' /\ past'.logged = past.logged /\ past'.sent = past.sent
          /\ past'.gone = past.gone \cup {r.id : r \in log \ kept}
          /\ past'.readers = past.readers
      BY <2>2, <3>1, <3>2 DEF NoGapInv, LogTypes
    <3>4. StaysLogged'
      BY <3>2, <3>3 DEF NoGapInv, StaysLogged
    <3> QED BY <3>3, <3>4
  <2>3. CASE o \in Carried /\ Replace(t)
    BY <2>3 DEF NoGapInv, LogTypes, StaysLogged, Replace
  <2>4. CASE o \in Carried /\ Unset(t)
    BY <2>4 DEF NoGapInv, LogTypes, StaysLogged, Unset
  <2>5. CASE o \in Carried /\ Clear(t)
    <3>1. log' = {} /\ IsFiniteSet(log')
      BY <2>5, FS_EmptySet DEF Clear, Keep
    <3>2. /\ LogTypes' /\ past'.logged = past.logged /\ past'.sent = past.sent
          /\ past'.gone = past.gone \cup {r.id : r \in log}
          /\ past'.readers = past.readers
      BY <2>5, <3>1 DEF NoGapInv, LogTypes, Clear
    <3>3. StaysLogged'
      BY <3>1, <3>2 DEF NoGapInv, StaysLogged
    <3> QED BY <3>2, <3>3
  <2>6. CASE o \notin Carried
    BY <2>6 DEF NoGapInv, LogTypes, StaysLogged
  <2> QED BY <2>1, <2>2, <2>3, <2>4, <2>5, <2>6 DEF CarryOut
<1>2. past'.sent \cap past'.logged = past.sent \cap past.logged
  <2>1. step[t] = "messages_insert" => uid[t].id \notin past.sent
    BY DEF NoGapInv, Serving, SentServed, LogTypes
  <2> QED BY <1>1, <2>1
<1>3. Serving' /\ SentServed'
  BY <1>1 DEF NoGapInv, Serving, SentServed
<1>4. ReadersHave' /\ WillHave'
  BY <1>1, <1>2 DEF NoGapInv, ReadersHave, WillHave, Has, IdsOf
<1> QED BY <1>1, <1>3, <1>4 DEF NoGapInv

\* A thread that has answered serves nobody; the count of served commands only
\* grows.
LEMMA AnswerServes ==
  ASSUME NoGapInv, NEW t \in Thread, step[t] # "idle", Answer(t)
  PROVE  /\ served' \in [Conn -> Nat]
         /\ \A c \in Conn : served[c] <= served'[c]
         /\ served'[task[t]] = served[task[t]] + 1
         /\ task[t] \in Conn
         /\ task' \in [Thread -> Conn \cup {None}]
         /\ step' \in [Thread -> Steps \cup {"idle"}]
         /\ uid' \in [Thread -> AnyRow]
         /\ rows' \in [Thread -> SUBSET AnyRow]
         /\ Serving'
         /\ \A u \in Thread : step'[u] # "idle" =>
              u # t /\ step[u] = step'[u] /\ task'[u] = task[u] /\ rows'[u] = rows[u]
<1>1. NoRow \in AnyRow /\ Unread \in SUBSET AnyRow
  BY DEF AnyRow, NoRow, Unread
<1>2. task[t] \in Conn /\ ThreadOf[task[t]] = t
  BY DEF NoGapInv, Serving
<1>3. \A u \in Thread : step[u] # "idle" /\ u # t => task[u] # task[t]
  BY <1>2 DEF NoGapInv, Serving
<1> QED
  BY <1>1, <1>2, <1>3 DEF NoGapInv, LogTypes, Serving, Answer

\* Commands that send nothing to the channel and read nothing are answered.
LEMMA DoneNoGap ==
  ASSUME NoGapInv, NEW t \in Thread, Saved(t) \/ MessagesDeleted(t)
  PROVE  NoGapInv'
<1> USE DEF tables, channel
<1>1. step[t] # "idle" /\ Answer(t)
  BY DEF Saved, MessagesDeleted, Returned
<1>2. /\ UNCHANGED <<log, clock, live, history, subscribers>>
      /\ past' = [past EXCEPT !.raced = past'.raced]
  BY DEF Saved, MessagesDeleted, NoGapInv, LogTypes
<1>3. LogTypes' /\ past'.sent = past.sent /\ past'.logged = past.logged
      /\ past'.gone = past.gone /\ past'.readers = past.readers
  BY <1>1, <1>2, AnswerServes DEF NoGapInv, LogTypes
<1>4. SentServed'
  <2> SUFFICES ASSUME NEW m \in past.sent PROVE m \in Message /\ m[2] <= served'[m[1]]
    BY <1>3 DEF SentServed
  <2>1. m[1] \in Conn /\ m[2] \in Nat /\ m \in Message /\ m[2] <= served[m[1]]
    BY DEF NoGapInv, SentServed, Message
  <2> QED BY <1>1, <2>1, AnswerServes DEF NoGapInv, LogTypes
<1>5. StaysLogged' /\ ReadersHave'
  BY <1>2, <1>3 DEF NoGapInv, StaysLogged, ReadersHave, Has
<1>6. WillHave'
  BY <1>1, <1>2, <1>3, AnswerServes DEF NoGapInv, WillHave, Has, IdsOf, Steps
<1> QED BY <1>1, <1>3, <1>4, <1>5, <1>6, AnswerServes DEF NoGapInv

\* A message reaches every subscriber but the one who has sent it.
LEMMA SendNoGap ==
  ASSUME NoGapInv, NEW t \in Thread, Send(t)
  PROVE  NoGapInv'
<1> DEFINE id == <<task[t], served[task[t]] + 1>>
<1> USE DEF tables
<1>1. step[t] # "idle" /\ Answer(t) /\ UNCHANGED <<log, clock, history, subscribers>>
  BY DEF Send
<1>2. /\ live' = [c \in Conn |-> live[c] \cup IF c \in Receivers(t) THEN {id} ELSE {}]
      /\ past' = [past EXCEPT !.sent = @ \cup {id}]
  BY DEF Send
<1>3. id \in Message /\ id[1] = task[t] /\ id[2] = served[task[t]] + 1 /\ id[1] \in Conn
  BY <1>1, AnswerServes DEF NoGapInv, LogTypes, Message
<1>4. LogTypes' /\ past'.sent = past.sent \cup {id} /\ past'.logged = past.logged
      /\ past'.gone = past.gone /\ past'.readers = past.readers
  <2>1. live' \in [Conn -> SUBSET Message]
    BY <1>2, <1>3 DEF NoGapInv, LogTypes
  <2> QED BY <1>1, <1>2, <2>1, AnswerServes DEF NoGapInv, LogTypes
<1>5. SentServed'
  <2> SUFFICES ASSUME NEW m \in past'.sent PROVE m \in Message /\ m[2] <= served'[m[1]]
    BY DEF SentServed
  <2>1. CASE m = id
    BY <1>1, <1>3, <2>1, AnswerServes DEF NoGapInv, LogTypes
  <2>2. CASE m # id
    <3>1. m \in Message /\ m[1] \in Conn /\ m[2] \in Nat /\ m[2] <= served[m[1]]
      BY <1>4, <2>2 DEF NoGapInv, SentServed, Message
    <3> QED BY <1>1, <3>1, AnswerServes DEF NoGapInv, LogTypes
  <2> QED BY <2>1, <2>2
<1>6. StaysLogged'
  BY <1>1, <1>4 DEF NoGapInv, StaysLogged
<1>7. ASSUME NEW c \in subscribers, NEW m, NEW read,
             m = id \/ Has(c, m, read)
      PROVE  Has(c, m, read)'
  <2>1. c \in Conn
    BY DEF NoGapInv, ReadersHave
  <2>2. CASE m = id
    BY <1>2, <1>3, <2>1, <2>2 DEF Receivers, Has
  <2>3. CASE m # id
    BY <1>1, <1>2, <1>4, <1>7, <2>1, <2>3 DEF Has
  <2> QED BY <2>2, <2>3
<1>8. ReadersHave'
  <2> SUFFICES ASSUME NEW c \in past.readers, NEW m \in past'.sent \cap past.logged
               PROVE  Has(c, m, {})'
    BY <1>1, <1>4 DEF NoGapInv, ReadersHave
  <2> QED BY <1>4, <1>7 DEF NoGapInv, ReadersHave
<1>9. WillHave'
  <2> SUFFICES ASSUME NEW u \in Thread, step'[u] = "messages_select", rows'[u] # Unread,
                      task'[u] \in subscribers, NEW m \in past'.sent \cap past.logged
               PROVE  Has(task[u], m, IdsOf(rows[u]))'
    BY <1>1, <1>4 DEF WillHave
  <2>1. step[u] = step'[u] /\ task'[u] = task[u] /\ rows'[u] = rows[u]
    BY <1>1, AnswerServes
  <2>2. m = id \/ Has(task[u], m, IdsOf(rows[u]))
    BY <1>1, <1>4, <2>1 DEF NoGapInv, WillHave
  <2> QED BY <1>1, <1>7, <2>1, <2>2 DEF Has, IdsOf
<1> QED BY <1>1, <1>4, <1>5, <1>6, <1>8, <1>9, AnswerServes DEF NoGapInv

\* What was selected is received, and who has received it is a reader.
LEMMA SelectedNoGap ==
  ASSUME NoGapInv, NEW t \in Thread, Selected(t)
  PROVE  NoGapInv'
<1> USE DEF tables
<1>1. /\ step[t] = "messages_select" /\ Answer(t)
      /\ UNCHANGED <<log, clock, live, subscribers>>
      /\ task[t] \in Conn
  BY DEF Selected, Returned, NoGapInv, Serving
<1>2. step[t] # "idle"
  BY <1>1
<1>3. /\ history' \in [Conn -> SUBSET (Message \cup {None})]
      /\ \A c \in Conn : history[c] \subseteq history'[c]
      /\ past'.sent = past.sent /\ past'.logged = past.logged /\ past'.gone = past.gone
      /\ past' = [past EXCEPT !.readers = past'.readers]
      /\ past'.readers = past.readers
           \/ /\ past'.readers = past.readers \cup ({task[t]} \cap subscribers)
              /\ rows[t] # Unread
              /\ IdsOf(rows[t]) \subseteq history'[task[t]]
  <2>1. CASE result[t] = "ok" /\ rows[t] # Unread
    <3>1. /\ history' = [history EXCEPT ![task[t]] = @ \cup IdsOf(rows[t])]
          /\ past' = [past EXCEPT !.readers = @ \cup ({task[t]} \cap subscribers)]
      BY <2>1 DEF Selected, IdsOf
    <3>2. IdsOf(rows[t]) \subseteq Message \cup {None}
      BY DEF NoGapInv, LogTypes, IdsOf, AnyRow
    <3> QED BY <1>1, <2>1, <3>1, <3>2 DEF NoGapInv, LogTypes
  <2>2. CASE ~(result[t] = "ok" /\ rows[t] # Unread)
    BY <2>2 DEF Selected, NoGapInv, LogTypes
  <2> QED BY <2>1, <2>2
<1>4. LogTypes'
  <2>1. /\ served' \in [Conn -> Nat] /\ task' \in [Thread -> Conn \cup {None}]
        /\ step' \in [Thread -> Steps \cup {"idle"}]
        /\ uid' \in [Thread -> AnyRow] /\ rows' \in [Thread -> SUBSET AnyRow]
    BY <1>1, <1>2, AnswerServes
  <2> QED BY <1>1, <1>3, <2>1 DEF NoGapInv, LogTypes
<1>5. SentServed'
  <2> SUFFICES ASSUME NEW m \in past.sent PROVE m \in Message /\ m[2] <= served'[m[1]]
    BY <1>3 DEF SentServed
  <2>1. m[1] \in Conn /\ m[2] \in Nat /\ m \in Message /\ m[2] <= served[m[1]]
    BY DEF NoGapInv, SentServed, Message
  <2> QED BY <1>1, <1>2, <2>1, AnswerServes DEF NoGapInv, LogTypes
<1>6. StaysLogged'
  BY <1>1, <1>3 DEF NoGapInv, StaysLogged
<1>7. ASSUME NEW c \in Conn, NEW m, NEW read, Has(c, m, read)
      PROVE  Has(c, m, read)'
  BY <1>1, <1>3, <1>7 DEF Has
<1>8. ReadersHave'
  <2>1. past'.readers \subseteq subscribers
    BY <1>3 DEF NoGapInv, ReadersHave
  <2>2. ASSUME NEW c \in past'.readers, NEW m \in past.sent \cap past.logged
        PROVE  Has(c, m, {})'
    <3>1. c \in Conn
      BY <2>1 DEF NoGapInv, ReadersHave
    <3>2. CASE c \in past.readers
      BY <1>7, <3>1, <3>2 DEF NoGapInv, ReadersHave
    <3>3. CASE c \notin past.readers
      <4>1. c = task[t] /\ task[t] \in subscribers /\ rows[t] # Unread
            /\ IdsOf(rows[t]) \subseteq history'[c]
        BY <1>3, <3>3
      <4>2. Has(c, m, IdsOf(rows[t]))
        BY <1>1, <4>1 DEF NoGapInv, WillHave
      <4>3. /\ live'[c] = live[c] /\ history[c] \subseteq history'[c]
            /\ past'.gone = past.gone
        BY <1>1, <1>3, <3>1
      <4> QED BY <4>1, <4>2, <4>3 DEF Has
    <3> QED BY <3>2, <3>3
  <2> QED BY <1>1, <1>3, <2>1, <2>2 DEF NoGapInv, ReadersHave
<1>9. WillHave'
  <2> SUFFICES ASSUME NEW u \in Thread, step'[u] = "messages_select", rows'[u] # Unread,
                      task'[u] \in subscribers, NEW m \in past.sent \cap past.logged
               PROVE  Has(task[u], m, IdsOf(rows[u]))'
    BY <1>1, <1>3 DEF WillHave
  <2>1. step[u] = step'[u] /\ task'[u] = task[u] /\ rows'[u] = rows[u]
    BY <1>1, <1>2, AnswerServes
  <2>2. Has(task[u], m, IdsOf(rows[u]))
    BY <2>1 DEF NoGapInv, WillHave
  <2> QED BY <1>1, <1>3, <2>1, <2>2 DEF Has, IdsOf, NoGapInv, ReadersHave
<1> QED BY <1>1, <1>2, <1>4, <1>5, <1>6, <1>8, <1>9, AnswerServes DEF NoGapInv

\* Time passes.
LEMMA TickNoGap ==
  ASSUME NoGapInv, Tick
  PROVE  NoGapInv'
<1> USE DEF Tick, session, thread, tables, channel
<1>1. LogTypes'
  BY DEF NoGapInv, LogTypes
<1> QED
  BY <1>1
  DEF NoGapInv, Serving, SentServed, StaysLogged, ReadersHave, WillHave, Has, IdsOf

-----------------------------------------------------------------------------
\* While the whole log fits into one select, a client that subscribes and then
\* asks for the log misses no message (web_pipe_msg_v2 and
\* sql_insert_into_pipes_messages log a message before they send it).
THEOREM NothingMissed == Spec /\ []LogFits => []NoGap
<1>1. Init => NoGapInv
  BY InitNoGap
<1>2. NoGapInv /\ LogFits /\ [Next]_vars => NoGapInv'
  <2> SUFFICES ASSUME NoGapInv, LogFits, [Next]_vars PROVE NoGapInv'
    OBVIOUS
  <2>1. ASSUME NEW t \in Thread, ThreadStep(t) PROVE NoGapInv'
    <3>1. ASSUME NEW o \in Outcome, Database(t, o) PROVE NoGapInv'
      <4>1. step[t] # "idle" /\ UNCHANGED <<session, task, step, uid, clock, channel>>
        BY <3>1 DEF Database
      <4>2. Read(t, o) \/ Change(t, o)
        BY <3>1 DEF Database
      <4> QED BY <4>1, <4>2, ReadNoGap, ChangeNoGap
    <3>2. CASE Send(t)
      BY <3>2, SendNoGap
    <3>3. CASE Saved(t) \/ MessagesDeleted(t)
      BY <3>3, DoneNoGap
    <3>4. CASE Selected(t)
      BY <3>4, SelectedNoGap
    <3> QED BY <2>1, <3>1, <3>2, <3>3, <3>4, CallsNoGap DEF ThreadStep
  <2>2. ASSUME NEW c \in Conn, Client(c) PROVE NoGapInv'
    <3>1. ThreadOf[c] \in Thread
      BY ChannelLogAssumption DEF ChannelLogAssumption
    <3> QED BY <2>2, <3>1, CallsNoGap, SubscribeNoGap DEF Client
  <2>3. CASE UNCHANGED vars
    BY <2>3
    DEF vars, session, thread, tables, channel, NoGapInv, LogTypes, Serving, SentServed,
        StaysLogged, ReadersHave, WillHave, Has, IdsOf
  <2> QED BY <2>1, <2>2, <2>3, TickNoGap DEF Next
<1>3. NoGapInv => NoGap
  BY DEF NoGapInv, ReadersHave, Has, NoGap
<1> QED BY <1>1, <1>2, <1>3, PTL DEF Spec

-----------------------------------------------------------------------------
\* The log itself

MessageSteps == {"settings_select", "messages_insert", "messages_trim", "send"}

\* What a thread does belongs to the command it serves.
Commands ==
  \A t \in Thread :
    /\ step[t] \in MessageSteps => Command(task[t]).op \in {"message", "pipe_msg"}
    /\ step[t] = "settings_replace" => Command(task[t]).op = "setting"
    /\ step[t] = "messages_insert" => uid[t] \in Row

ThreadTypes ==
  /\ \A c \in Conn : served[c] \in 0..Len(script[c])
  /\ \A t \in Thread :
       /\ task[t] = None <=> step[t] = "idle"
       /\ task[t] # None => ThreadOf[task[t]] = t /\ served[task[t]] < Len(script[task[t]])
  /\ served \in [Conn -> Nat]
  /\ task \in [Thread -> Conn \cup {None}]
  /\ step \in [Thread -> Steps \cup {"idle"}]
  /\ length \in [Thread -> Nat]
  /\ uid \in [Thread -> Row \cup {NoRow}]
  /\ rows \in [Thread -> (SUBSET Row) \cup {Unread}]

TableTypes ==
  /\ settings \in Nat
  /\ log \in SUBSET Row /\ IsFiniteSet(log)
  /\ \A r, s \in log : r.id = s.id => r = s

ChannelTypes ==
  /\ clock \in 0..MaxClock
  /\ faults \in 0..MaxFaults
  /\ subscribers \in SUBSET Conn
  /\ live \in [Conn -> SUBSET Id]
  /\ history \in [Conn -> SUBSET Id]
  /\ past \in Past

TypesInv ==
  /\ LinkInv
  /\ script \in {s.commands : s \in Scripts}
  /\ ThreadTypes
  /\ Commands
  /\ TableTypes
  /\ ChannelTypes

\* A thread has the length it has read until its message is sent, and calls what
\* its step calls.
Lengths ==
  \A t \in Thread :
    /\ step[t] \notin MessageSteps => length[t] = 0
    /\ step[t] \in {"messages_insert", "messages_trim"} => length[t] > 0
    /\ step[t] \notin {"idle", "send"} => kind[t] = StepKind(step[t])

\* t will delete the messages of the channel.
Deleting(t) ==
  \/ step[t] = "settings_delete" /\ applied[t] > 0
  \/ step[t] = "messages_delete" /\ applied[t] = 0

\* Who has no log gets no message, and those that are left are to be deleted.
Orphans ==
  ~past.raced /\ settings = 0 =>
    /\ \A t \in Thread : Writing(t) => length[t] = 0
    /\ log = {} \/ \E t \in Thread : Deleting(t)

\* t will trim the log.
Trimming(t) ==
  \/ step[t] = "messages_insert"
  \/ step[t] = "messages_trim" /\ applied[t] = 0

TrimDue == past.overdue \/ \E t \in Thread : Trimming(t)

\* A log that is too long is to be trimmed.
Bounded ==
  /\ settings <= past.longest
  /\ \A t \in Thread : length[t] <= past.longest
  /\ Cardinality(log) <= past.longest \/ TrimDue

NotOlder(r) == {k \in log : r.time <= k.time}

\* Where a row was trimmed there are as many as the setting that are not older.
TrimmedRows ==
  past.trimmed # {} =>
    /\ Cardinality(log) <= settings \/ TrimDue
    /\ \A r \in past.trimmed : Cardinality(NotOlder(r)) >= settings

KeptInv ==
  /\ TypesInv
  /\ Lengths
  /\ Orphans
  /\ Bounded
  /\ TrimmedRows

-----------------------------------------------------------------------------
\* The commands of the connections

\* The current command of a thread that serves somebody, and what it may be.
LEMMA CommandType ==
  ASSUME TypesInv, NEW c \in Conn, served[c] < Len(script[c])
  PROVE  /\ Command(c) \in Request
         /\ Command(c).op = "setting" => Command(c).length \in Nat
<1>1. script \in [Conn -> Seq(Request)]
  BY ChannelLogAssumption DEF TypesInv, ChannelLogAssumption
<1>2. served[c] \in Nat /\ Len(script[c]) \in Nat /\ script[c] \in Seq(Request)
  BY <1>1 DEF TypesInv, ThreadTypes
<1>3. served[c] + 1 \in 1..Len(script[c])
  BY <1>2
<1>4. script[c][served[c] + 1] \in Request
  BY <1>2, <1>3
<1>5. Command(c) \in Request
  BY <1>4 DEF Command
<1> QED BY <1>5 DEF Request

\* The message a thread is at is one of the channel's.
LEMMA CurrentId ==
  ASSUME TypesInv, NEW t \in Thread, step[t] \in MessageSteps
  PROVE  <<task[t], served[task[t]] + 1>> \in Id
<1>1. task[t] \in Conn /\ served[task[t]] < Len(script[task[t]])
  BY DEF TypesInv, ThreadTypes, MessageSteps
<1>2. script \in [Conn -> Seq(Request)]
  BY ChannelLogAssumption DEF TypesInv, ChannelLogAssumption
<1>3. /\ served[task[t]] \in Nat /\ Len(script[task[t]]) \in Nat
      /\ DOMAIN script[task[t]] = 1..Len(script[task[t]])
  BY <1>1, <1>2 DEF TypesInv, ThreadTypes
<1>4. served[task[t]] + 1 \in DOMAIN script[task[t]]
  BY <1>1, <1>3
<1>5. script[task[t]][served[task[t]] + 1].op \in {"message", "pipe_msg"}
  BY DEF TypesInv, Commands, Command
<1> QED BY <1>1, <1>4, <1>5 DEF Id, CommandsOf

\* The messages are those of the script.
LEMMA IdsStay ==
  ASSUME UNCHANGED script
  PROVE  Id' = Id /\ Row' = Row /\ Past' = Past
<1>1. Id' = Id
  BY DEF Id, CommandsOf
<1> QED BY <1>1 DEF Row, Past

\* Links, and what the steps of a thread do to its call.
LEMMA LinksStay ==
  ASSUME LinkInv, [Next]_vars
  PROVE  LinkInv'
BY StepIsLinkStep, LinkKept

\* At the start nothing is logged.
LEMMA InitKept == Init => KeptInv
<1> SUFFICES ASSUME Init PROVE KeptInv
  OBVIOUS
<1>1. PICK s \in Scripts : script = s.commands /\ settings = s.length
  BY DEF Init
<1>2. settings \in Nat /\ script \in [Conn -> Seq(Request)]
  BY <1>1, ChannelLogAssumption DEF ChannelLogAssumption
<1>3. LinkInv
  BY InitCounted DEF Init
<1>4. ThreadTypes
  <2>1. \A c \in Conn : Len(script[c]) \in Nat
    BY <1>2
  <2>2. \A c \in Conn : served[c] \in 0..Len(script[c])
    BY <2>1 DEF Init
  <2>3. uid \in [Thread -> Row \cup {NoRow}] /\ rows \in [Thread -> (SUBSET Row) \cup {Unread}]
    BY DEF Init
  <2> QED BY <2>2, <2>3 DEF Init, ThreadTypes
<1>5. Commands
  BY DEF Init, Commands, MessageSteps
<1>6. TableTypes
  BY <1>2, FS_EmptySet DEF Init, TableTypes
<1>7. ChannelTypes
  <2>1. MaxClock \in Nat /\ MaxFaults \in Nat
    BY ChannelLogAssumption DEF ChannelLogAssumption
  <2>2. past \in Past
    BY <1>2 DEF Init, Past
  <2> QED BY <2>1, <2>2 DEF Init, ChannelTypes
<1>8. Lengths
  BY DEF Init, Lengths, MessageSteps
<1>9. Orphans /\ Bounded /\ TrimmedRows
  BY <1>2, FS_EmptySet DEF Init, Orphans, Bounded, TrimmedRows, Writing
<1> QED
  BY <1>1, <1>3, <1>4, <1>5, <1>6, <1>7, <1>8, <1>9 DEF KeptInv, TypesInv

-----------------------------------------------------------------------------
\* Types

\* A thread goes on with the command it serves.
LEMMA GoOnTypes ==
  ASSUME TypesInv, UNCHANGED session, UNCHANGED task,
         NEW t \in Thread, step[t] # "idle",
         NEW s \in Steps, step' = [step EXCEPT ![t] = s],
         s \in MessageSteps => step[t] \in MessageSteps,
         s = "settings_replace" => step[t] = "settings_replace",
         s = "messages_insert" => uid'[t] \in Row,
         \A u \in Thread : u # t => uid'[u] = uid[u],
         uid' \in [Thread -> Row \cup {NoRow}],
         length' \in [Thread -> Nat],
         rows' \in [Thread -> (SUBSET Row) \cup {Unread}]
  PROVE  ThreadTypes' /\ Commands'
<1>1. UNCHANGED script /\ UNCHANGED served
  BY DEF session
<1>2. Row' = Row
  BY <1>1, IdsStay
<1>3. "idle" \notin Steps
  BY DEF Steps
<1>4. ThreadTypes'
  BY <1>1, <1>2, <1>3 DEF TypesInv, ThreadTypes
<1>5. Commands'
  BY <1>1, <1>2 DEF TypesInv, ThreadTypes, Commands, Command, MessageSteps
<1> QED BY <1>4, <1>5

\* A thread that has answered is idle, and the connection it served has one
\* command less to send.
LEMMA AnswerTypes ==
  ASSUME TypesInv, NEW t \in Thread, step[t] # "idle", Answer(t)
  PROVE  ThreadTypes' /\ Commands'
<1>1. UNCHANGED script /\ Row' = Row
  BY IdsStay DEF Answer
<1>2. /\ task[t] \in Conn /\ ThreadOf[task[t]] = t
      /\ served[task[t]] < Len(script[task[t]])
  BY DEF TypesInv, ThreadTypes
<1>3. \A u \in Thread : u # t => task[u] # task[t]
  BY <1>2 DEF TypesInv, ThreadTypes
<1>4. \A c \in Conn : Len(script[c]) \in Nat
  BY ChannelLogAssumption DEF TypesInv, ChannelLogAssumption
<1>5. /\ served' \in [Conn -> Nat]
      /\ \A c \in Conn : served'[c] \in 0..Len(script[c])
  BY <1>2, <1>4 DEF TypesInv, ThreadTypes, Answer
<1>6. \A u \in Thread : u # t =>
        /\ task'[u] = task[u] /\ step'[u] = step[u] /\ uid'[u] = uid[u]
        /\ task[u] # None => served'[task[u]] = served[task[u]]
  BY <1>2, <1>3 DEF TypesInv, ThreadTypes, Answer
<1>7. task'[t] = None /\ step'[t] = "idle"
  BY DEF TypesInv, ThreadTypes, Answer
<1>8. ThreadTypes'
  <2>1. \A u \in Thread :
          /\ task'[u] = None <=> step'[u] = "idle"
          /\ task'[u] # None =>
               ThreadOf[task'[u]] = u /\ served'[task'[u]] < Len(script[task'[u]])
    BY <1>6, <1>7 DEF TypesInv, ThreadTypes
  <2>2. /\ task' \in [Thread -> Conn \cup {None}]
        /\ step' \in [Thread -> Steps \cup {"idle"}]
        /\ length' \in [Thread -> Nat]
    BY DEF TypesInv, ThreadTypes, Answer
  <2>3. /\ uid' \in [Thread -> Row \cup {NoRow}]
        /\ rows' \in [Thread -> (SUBSET Row) \cup {Unread}]
    BY DEF TypesInv, ThreadTypes, Answer
  <2> QED BY <1>1, <1>5, <2>1, <2>2, <2>3 DEF ThreadTypes
<1>9. Commands'
  BY <1>1, <1>6, <1>7 DEF TypesInv, ThreadTypes, Commands, Command, MessageSteps
<1> QED BY <1>8, <1>9

\* A thread takes a command.
LEMMA ReceiveTypes ==
  ASSUME TypesInv, NEW c \in Conn, Receive(c)
  PROVE  ThreadTypes' /\ Commands'
<1> DEFINE t == ThreadOf[c]
<1>1. /\ t \in Thread /\ None \notin Conn
      /\ UNCHANGED <<script, served, length, uid, rows>> /\ Row' = Row
  BY ChannelLogAssumption, IdsStay DEF Receive, ChannelLogAssumption
<1>2. Command(c) \in Request /\ Command(c)' = Command(c)
  BY <1>1, CommandType DEF Receive, Command
<1>3. PICK s : s = FirstStep(Command(c).op)
  OBVIOUS
<1>4. /\ s \in Steps \ {"messages_insert"}
      /\ s \in MessageSteps => Command(c).op \in {"message", "pipe_msg"}
      /\ s = "settings_replace" => Command(c).op = "setting"
  BY <1>3 DEF FirstStep, Steps, MessageSteps
<1>5. /\ task' = [task EXCEPT ![t] = c] /\ step' = [step EXCEPT ![t] = s]
      /\ served[c] < Len(script[c])
  BY <1>3 DEF Receive, GoTo
<1> HIDE DEF t
<1>6. ThreadOf[c] = t
  BY DEF t
<1>7. "idle" \notin Steps
  BY DEF Steps
<1>8. ThreadTypes'
  BY <1>1, <1>4, <1>5, <1>6, <1>7 DEF TypesInv, ThreadTypes
<1>9. Commands'
  <2> SUFFICES ASSUME NEW u \in Thread
               PROVE  /\ step'[u] \in MessageSteps =>
                           Command(task[u])'.op \in {"message", "pipe_msg"}
                      /\ step'[u] = "settings_replace" => Command(task[u])'.op = "setting"
                      /\ step'[u] = "messages_insert" => uid'[u] \in Row
    BY <1>1 DEF Commands
  <2>1. CASE u = t
    BY <1>1, <1>2, <1>4, <1>5, <2>1 DEF TypesInv, ThreadTypes, Command
  <2>2. CASE u # t
    BY <1>1, <1>5, <2>2 DEF TypesInv, ThreadTypes, Commands, Command
  <2> QED BY <2>1, <2>2
<1> QED BY <1>8, <1>9

\* A connection subscribes while its thread serves nobody.
LEMMA SubscribeTypes ==
  ASSUME TypesInv, NEW c \in Conn, Subscribe(c)
  PROVE  ThreadTypes' /\ Commands' /\ ChannelTypes'
<1> USE DEF thread
<1>1. ThreadOf[c] \in Thread
  BY ChannelLogAssumption DEF ChannelLogAssumption
<1>2. /\ UNCHANGED <<script, thread>> /\ Row' = Row /\ Id' = Id /\ Past' = Past
      /\ served' = [served EXCEPT ![c] = @ + 1]
      /\ served[c] < Len(script[c]) /\ task[ThreadOf[c]] = None
  BY IdsStay DEF Subscribe, Idle
<1>3. \A u \in Thread : task[u] # c
  BY <1>1, <1>2, ChannelLogAssumption
  DEF TypesInv, ThreadTypes, ChannelLogAssumption
<1>4. \A u \in Thread : task[u] # None => served'[task[u]] = served[task[u]]
  BY <1>2, <1>3 DEF TypesInv, ThreadTypes
<1>5. \A d \in Conn : Len(script[d]) \in Nat
  BY ChannelLogAssumption DEF TypesInv, ChannelLogAssumption
<1>6. ThreadTypes'
  <2>1. \A d \in Conn : served'[d] \in 0..Len(script[d])
    BY <1>2, <1>5 DEF TypesInv, ThreadTypes
  <2>2. served' \in [Conn -> Nat]
    BY <1>2 DEF TypesInv, ThreadTypes
  <2> QED BY <1>2, <1>4, <2>1, <2>2 DEF TypesInv, ThreadTypes
<1>7. Commands'
  BY <1>2, <1>4 DEF TypesInv, ThreadTypes, Commands, Command, MessageSteps
<1>8. ChannelTypes'
  BY <1>2 DEF TypesInv, ChannelTypes, Subscribe
<1> QED BY <1>6, <1>7, <1>8

\* A select: what is read are rows of the log.
LEMMA ReadTypes ==
  ASSUME TypesInv, NEW t \in Thread, step[t] # "idle", NEW o, Read(t, o),
         UNCHANGED <<session, task, step, uid>>
  PROVE  ThreadTypes' /\ Commands'
<1>1. UNCHANGED session /\ UNCHANGED task /\ UNCHANGED uid /\ UNCHANGED step
  OBVIOUS
<1>2. step[t] \in Steps /\ step' = [step EXCEPT ![t] = step[t]]
  BY <1>1 DEF TypesInv, ThreadTypes
<1>3. step[t] = "messages_insert" => uid[t] \in Row
  BY DEF TypesInv, Commands
<1>4. length' \in [Thread -> Nat]
  BY DEF Read, TypesInv, ThreadTypes, TableTypes
<1>5. rows' \in [Thread -> (SUBSET Row) \cup {Unread}]
  <2>1. PICK read \in IF o = "ok" /\ step[t] = "messages_select"
                         THEN Oldest(SelectLimit, log) ELSE {Unread} :
          rows' = [rows EXCEPT ![t] = read]
    BY DEF Read
  <2>2. \A kept \in Oldest(SelectLimit, log) : kept \in SUBSET Row
    BY DEF Oldest, kSubset, TypesInv, TableTypes
  <2>3. read \in (SUBSET Row) \cup {Unread}
    BY <2>1, <2>2
  <2> QED BY <2>1, <2>3 DEF TypesInv, ThreadTypes
<1>6. uid' \in [Thread -> Row \cup {NoRow}]
  BY <1>1 DEF TypesInv, ThreadTypes
<1> QED BY <1>1, <1>2, <1>3, <1>4, <1>5, <1>6, GoOnTypes

\* A change: the rows stay those of the script's messages, each once, as the
\* primary key refuses a row that is there.
LEMMA ChangeTypes ==
  ASSUME TypesInv, NEW t \in Thread, step[t] # "idle", NEW o, Change(t, o),
         o \in Carried => Accepts(t),
         UNCHANGED <<session, task, step, uid>>
  PROVE  TableTypes' /\ past' \in Past
<1>1. Row' = Row
  BY IdsStay DEF session
<1>2. /\ settings \in Nat /\ log \in SUBSET Row /\ IsFiniteSet(log) /\ past \in Past
      /\ \A r, s \in log : r.id = s.id => r = s
      /\ \A r \in Row : r.id \in Id
  BY DEF TypesInv, TableTypes, ChannelTypes, Row
<1>3. CASE o \in Carried /\ Insert(t)
  <2>1. uid[t] \in Row /\ \A r \in log : r.id # uid[t].id
    BY <1>3 DEF TypesInv, Commands, Accepts, Insert
  <2>2. log' = log \cup {uid[t]} /\ settings' = settings /\ IsFiniteSet(log')
    BY <1>2, <1>3, FS_AddElement DEF Insert, Keep
  <2>3. past' \in Past
    <3>1. past' = [past EXCEPT !.logged = @ \cup {uid[t].id}] /\ uid[t].id \in Id
      BY <1>2, <1>3, <2>1 DEF Insert
    <3> QED BY <1>2, <3>1 DEF Past
  <2> QED BY <1>1, <1>2, <2>1, <2>2, <2>3 DEF TableTypes
<1>4. CASE o \in Carried /\ Trim(t)
  <2>1. PICK kept \in Latest(length[t]) :
          /\ Keep(kept)
          /\ past' = [past EXCEPT !.gone = @ \cup {r.id : r \in log \ kept},
                                  !.trimmed = IF length[t] = settings
                                                THEN @ \cup (log \ kept) ELSE {},
                                  !.overdue = TooLong(kept, length[t])]
    BY <1>4 DEF Trim
  <2>2. kept \in SUBSET log /\ IsFiniteSet(kept) /\ log' = kept /\ settings' = settings
    BY <1>2, <2>1, KeepsSome, FS_Subset DEF Keep
  <2>3. {r.id : r \in log \ kept} \in SUBSET Id /\ log \ kept \in SUBSET Row
    BY <1>2
  <2>4. past' \in Past
    <3>1. TooLong(kept, length[t]) \in BOOLEAN
      BY DEF TooLong
    <3> QED BY <1>2, <2>1, <2>3, <3>1 DEF Past
  <2> QED BY <1>1, <1>2, <2>2, <2>4 DEF TableTypes
<1>5. CASE o \in Carried /\ Replace(t)
  <2>1. Command(task[t]).length \in Nat
    BY <1>5, CommandType, SMTT(30) DEF TypesInv, ThreadTypes, Commands, Replace
  <2>2. settings' \in Nat /\ UNCHANGED log
    BY <1>5, <2>1 DEF Replace
  <2>3. past' \in Past
    BY <1>2, <1>5, <2>2 DEF Past, Replace
  <2> QED BY <1>1, <1>2, <2>2, <2>3 DEF TableTypes
<1>6. CASE o \in Carried /\ Unset(t)
  <2>1. settings' \in Nat /\ UNCHANGED log
    BY <1>6 DEF Unset
  <2>2. past' \in Past
    <3>1. (past.raced \/ \E u \in Thread : Writing(u)) \in BOOLEAN
      OBVIOUS
    <3> QED BY <1>2, <1>6, <3>1 DEF Past, Unset
  <2> QED BY <1>1, <1>2, <2>1, <2>2 DEF TableTypes
<1>7. CASE o \in Carried /\ Clear(t)
  <2>1. settings' = settings /\ log' = {} /\ IsFiniteSet(log')
    BY <1>7, FS_EmptySet DEF Clear, Keep
  <2>2. past' \in Past
    <3>1. {r.id : r \in log} \in SUBSET Id
      BY <1>2
    <3>2. past' = [past EXCEPT !.gone = @ \cup {r.id : r \in log}, !.trimmed = {}]
      BY <1>7 DEF Clear
    <3> QED BY <1>2, <3>1, <3>2 DEF Past
  <2> QED BY <1>1, <1>2, <2>1, <2>2 DEF TableTypes
<1>8. CASE o \notin Carried
  BY <1>1, <1>2, <1>8 DEF Change, tables, TableTypes
<1> QED BY <1>3, <1>4, <1>5, <1>6, <1>7, <1>8 DEF Change, CarryOut

\* The steps of a thread.
LEMMA ThreadStepTypes ==
  ASSUME TypesInv, NEW t \in Thread, ThreadStep(t)
  PROVE  ThreadTypes' /\ Commands' /\ TableTypes' /\ ChannelTypes'
<1> USE DEF session, thread, channel, tables
<1>1. UNCHANGED script
  BY DEF ThreadStep, Database, Relink, NotLogged, Log, Logged, Trimmed, Send, Saved,
         SettingDeleted, MessagesDeleted, Selected, Answer
<1>2. Row' = Row /\ Id' = Id /\ Past' = Past
  BY <1>1, IdsStay
<1>3. MaxFaults \in Nat /\ MaxClock \in Nat /\ faults \in Nat
  BY ChannelLogAssumption DEF ChannelLogAssumption, TypesInv, ChannelTypes
<1>4. ASSUME UNCHANGED <<settings, log>> PROVE TableTypes'
  BY <1>2, <1>4 DEF TypesInv, TableTypes
<1>5. ASSUME UNCHANGED channel, UNCHANGED clock, faults' \in 0..MaxFaults, past' \in Past
      PROVE  ChannelTypes'
  BY <1>2, <1>5 DEF TypesInv, ChannelTypes
<1>6. past \in Past /\ faults \in 0..MaxFaults
  BY DEF TypesInv, ChannelTypes
<1>7. UNCHANGED <<step, served, task, length, uid, rows>> => ThreadTypes' /\ Commands'
  BY <1>1, <1>2 DEF TypesInv, ThreadTypes, Commands, Command
<1>8. ASSUME NEW failed, Count(failed) PROVE faults' \in 0..MaxFaults
  BY <1>3, <1>6, <1>8 DEF Count
<1>9. ASSUME NEW o \in Outcome, Database(t, o)
      PROVE  ThreadTypes' /\ Commands' /\ TableTypes' /\ ChannelTypes'
  <2>1. /\ UNCHANGED <<session, task, step, uid>> /\ UNCHANGED channel /\ UNCHANGED clock
        /\ step[t] # "idle" /\ faults' \in 0..MaxFaults /\ (o \in Carried => Accepts(t))
    BY <1>8, <1>9 DEF Database, Carried
  <2>2. CASE Read(t, o)
    BY <1>4, <1>5, <1>6, <2>1, <2>2, ReadTypes DEF Read
  <2>3. CASE Change(t, o)
    <3>1. ThreadTypes' /\ Commands'
      BY <1>7, <2>1, <2>3 DEF Change
    <3> QED BY <1>5, <2>1, <2>3, <3>1, ChangeTypes
  <2> QED BY <1>9, <2>2, <2>3 DEF Database
<1>10. ASSUME NEW ok \in BOOLEAN, Relink(t, ok)
       PROVE  ThreadTypes' /\ Commands' /\ TableTypes' /\ ChannelTypes'
  BY <1>4, <1>5, <1>6, <1>7, <1>8, <1>10 DEF Relink
<1>11. CASE NotLogged(t) \/ Logged(t) \/ Trimmed(t) \/ SettingDeleted(t)
  <2>1. PICK s \in Steps \ {"settings_replace", "messages_insert"} :
          /\ step' = [step EXCEPT ![t] = s]
          /\ s \in MessageSteps => step[t] \in MessageSteps
    BY <1>11
    DEF NotLogged, Logged, Trimmed, SettingDeleted, Returned, GoTo, Steps, MessageSteps
  <2>2. /\ UNCHANGED session /\ UNCHANGED task /\ UNCHANGED <<length, uid, rows, tables, clock, faults>>
        /\ UNCHANGED channel /\ step[t] # "idle"
    BY <1>11 DEF NotLogged, Logged, Trimmed, SettingDeleted, Returned
  <2>3. ThreadTypes' /\ Commands'
    BY <1>2, <2>1, <2>2, GoOnTypes DEF TypesInv, ThreadTypes
  <2>4. past' \in Past
    BY <1>6, <1>11 DEF NotLogged, Logged, Trimmed, SettingDeleted, Past
  <2> QED BY <1>4, <1>5, <1>6, <2>2, <2>3, <2>4
<1>12. CASE Log(t)
  <2>1. /\ step[t] \in MessageSteps /\ step[t] # "idle"
        /\ uid' = [uid EXCEPT ![t] = [id |-> <<task[t], served[task[t]] + 1>>, time |-> clock]]
        /\ UNCHANGED session /\ UNCHANGED task /\ UNCHANGED <<length, rows, tables, clock, faults>>
        /\ UNCHANGED channel /\ UNCHANGED past
        /\ step' = [step EXCEPT ![t] = "messages_insert"]
    BY <1>12 DEF Log, Returned, MessageSteps, GoTo
  <2>2. [id |-> <<task[t], served[task[t]] + 1>>, time |-> clock] \in Row
    BY <2>1, CurrentId DEF Row, TypesInv, ChannelTypes
  <2>3. uid' \in [Thread -> Row \cup {NoRow}] /\ uid'[t] \in Row
        /\ \A u \in Thread : u # t => uid'[u] = uid[u]
    BY <2>1, <2>2 DEF TypesInv, ThreadTypes
  <2>4. "messages_insert" \in Steps
    BY DEF Steps
  <2>5. length' \in [Thread -> Nat] /\ rows' \in [Thread -> (SUBSET Row) \cup {Unread}]
    BY <2>1 DEF TypesInv, ThreadTypes
  <2>6. ThreadTypes' /\ Commands'
    BY <2>1, <2>3, <2>4, <2>5, GoOnTypes
  <2> QED BY <1>4, <1>5, <1>6, <2>1, <2>6
<1>13. CASE Send(t)
  <2>1. step[t] \in MessageSteps /\ step[t] # "idle" /\ Answer(t)
    BY <1>13 DEF Send, MessageSteps
  <2>2. PICK id \in Id :
          /\ live' = [c \in Conn |-> live[c] \cup IF c \in Receivers(t) THEN {id} ELSE {}]
          /\ past' = [past EXCEPT !.sent = @ \cup {id}]
    BY <1>13, <2>1, CurrentId DEF Send
  <2>3. live' \in [Conn -> SUBSET Id] /\ past' \in Past
    BY <1>6, <2>2 DEF TypesInv, ChannelTypes, Past
  <2>4. ChannelTypes'
    BY <1>2, <1>13, <2>3 DEF TypesInv, ChannelTypes, Send
  <2> QED BY <1>4, <1>13, <2>1, <2>4, AnswerTypes DEF Send
<1>14. CASE Saved(t) \/ MessagesDeleted(t)
  <2>1. step[t] # "idle" /\ Answer(t) /\ past' \in Past
    BY <1>6, <1>14 DEF Saved, MessagesDeleted, Returned, Past
  <2> QED BY <1>4, <1>5, <1>6, <1>14, <2>1, AnswerTypes DEF Saved, MessagesDeleted
<1>15. CASE Selected(t)
  <2>1. step[t] # "idle" /\ Answer(t) /\ UNCHANGED <<tables, clock, faults, subscribers, live>>
    BY <1>15 DEF Selected, Returned
  <2>2. history' \in [Conn -> SUBSET Id] /\ past' \in Past
    <3>1. CASE result[t] = "ok" /\ rows[t] # Unread
      <4>1. rows[t] \in SUBSET Row
        BY <3>1 DEF TypesInv, ThreadTypes
      <4>2. {r.id : r \in rows[t]} \in SUBSET Id
        BY <4>1 DEF Row
      <4>3. history' = [history EXCEPT ![task[t]] = @ \cup {r.id : r \in rows[t]}]
        BY <1>15, <3>1 DEF Selected
      <4>4. history' \in [Conn -> SUBSET Id]
        BY <4>2, <4>3 DEF TypesInv, ChannelTypes
      <4>5. subscribers \in SUBSET Conn
        BY DEF TypesInv, ChannelTypes
      <4>6. past' = [past EXCEPT !.readers = @ \cup ({task[t]} \cap subscribers)]
        BY <1>15, <3>1 DEF Selected
      <4> QED BY <1>6, <4>4, <4>5, <4>6 DEF Past
    <3>2. CASE ~(result[t] = "ok" /\ rows[t] # Unread)
      BY <1>15, <3>2 DEF Selected, TypesInv, ChannelTypes
    <3> QED BY <3>1, <3>2
  <2>3. ChannelTypes'
    BY <1>2, <2>1, <2>2 DEF TypesInv, ChannelTypes
  <2> QED BY <1>4, <2>1, <2>3, AnswerTypes
<1> QED
  BY <1>9, <1>10, <1>11, <1>12, <1>13, <1>14, <1>15 DEF ThreadStep

\* Every step keeps the types.
LEMMA TypesStep ==
  ASSUME TypesInv, [Next]_vars
  PROVE  TypesInv'
<1> USE DEF session, thread, channel, tables
<1>1. LinkInv'
  BY LinksStay DEF TypesInv
<1>2. ASSUME NEW t \in Thread, ThreadStep(t) PROVE TypesInv'
  <2>1. UNCHANGED script
    BY <1>2
    DEF ThreadStep, Database, Relink, NotLogged, Log, Logged, Trimmed, Send, Saved,
        SettingDeleted, MessagesDeleted, Selected, Answer
  <2> QED BY <1>1, <1>2, <2>1, ThreadStepTypes DEF TypesInv
<1>3. ASSUME NEW c \in Conn, Client(c) PROVE TypesInv'
  <2>1. CASE Receive(c)
    <3>1. UNCHANGED <<script, tables, clock, faults, channel, past>>
      BY <2>1 DEF Receive
    <3>2. TableTypes' /\ ChannelTypes'
      BY <3>1, IdsStay DEF TypesInv, TableTypes, ChannelTypes
    <3> QED BY <1>1, <2>1, <3>1, <3>2, ReceiveTypes DEF TypesInv
  <2>2. CASE Subscribe(c)
    <3>1. UNCHANGED <<script, tables>>
      BY <2>2 DEF Subscribe
    <3>2. TableTypes'
      BY <3>1, IdsStay DEF TypesInv, TableTypes
    <3> QED BY <1>1, <2>2, <3>1, <3>2, SubscribeTypes DEF TypesInv
  <2> QED BY <1>3, <2>1, <2>2 DEF Client
<1>4. CASE Tick
  <2>1. UNCHANGED <<script, served, thread, tables, faults, channel, past>>
    BY <1>4 DEF Tick
  <2>2. ThreadTypes' /\ Commands'
    BY <2>1, IdsStay DEF TypesInv, ThreadTypes, Commands, Command
  <2>3. TableTypes'
    BY <2>1, IdsStay DEF TypesInv, TableTypes
  <2>4. ChannelTypes'
    <3>1. clock' \in 0..MaxClock
      BY <1>4, ChannelLogAssumption DEF Tick, TypesInv, ChannelTypes, ChannelLogAssumption
    <3> QED BY <2>1, <3>1, IdsStay DEF TypesInv, ChannelTypes
  <2> QED BY <1>1, <2>1, <2>2, <2>3, <2>4 DEF TypesInv
<1>5. CASE UNCHANGED vars
  <2>1. UNCHANGED <<session, thread, tables, clock, faults, channel, past>>
    BY <1>5 DEF vars
  <2>2. ThreadTypes' /\ Commands'
    BY <2>1, IdsStay DEF TypesInv, ThreadTypes, Commands, Command
  <2>3. TableTypes'
    BY <2>1, IdsStay DEF TypesInv, TableTypes
  <2>4. ChannelTypes'
    BY <2>1, IdsStay DEF TypesInv, ChannelTypes
  <2> QED BY <1>1, <2>1, <2>2, <2>3, <2>4 DEF TypesInv
<1> QED BY <1>2, <1>3, <1>4, <1>5 DEF Next

-----------------------------------------------------------------------------
\* What a thread has to do

\* An attempt of a call counts what MySQL carries out and leaves the calls of
\* the other threads alone.
LEMMA DatabaseCounts ==
  ASSUME LinkInv, NEW t \in Thread, NEW o, Database(t, o)
  PROVE  /\ UNCHANGED kind
         /\ applied' \in [Thread -> Nat]
         /\ o \in Carried => applied'[t] > 0
         /\ o \notin Carried => applied'[t] = applied[t]
         /\ \A u \in Thread : u # t => applied'[u] = applied[u]
<1>1. /\ kind' = kind
      /\ applied' = [applied EXCEPT ![t] = @ + IF o \in Carried THEN 1 ELSE 0]
  BY DEF Database, Execute, StatementAttempt, QueryAttempt, Server
<1>2. applied \in [Thread -> Nat]
  BY DEF LinkInv, LinkTypeOK
<1> QED BY <1>1, <1>2

\* A new call has not been carried out.
LEMMA GoToCounts ==
  ASSUME LinkInv, NEW t \in Thread, NEW s, GoTo(t, s)
  PROVE  /\ applied' = [applied EXCEPT ![t] = 0]
         /\ kind' = [kind EXCEPT ![t] = StepKind(s)]
         /\ step' = [step EXCEPT ![t] = s]
         /\ applied'[t] = 0
         /\ kind'[t] = StepKind(s)
BY DEF GoTo, Call, LinkInv, LinkTypeOK

\* A call that MySQL has not carried out has failed.
LEMMA NotAppliedFails ==
  ASSUME TypesInv, Lengths, NEW t \in Thread, stage[t] = "done",
         step[t] \in {"messages_trim", "settings_delete", "messages_delete"},
         applied[t] = 0
  PROVE  result[t] = "error"
<1>1. kind[t] # "select"
  BY DEF Lengths, StepKind
<1>2. Counted(t) /\ result[t] \in {"none", "ok", "error"}
  BY DEF TypesInv, LinkInv, LinkTypeOK
<1> QED BY <1>1, <1>2 DEF Counted

\* Each thread keeps to the length it has read and the call of its step.
LEMMA LengthsStep ==
  ASSUME TypesInv, Lengths, [Next]_vars
  PROVE  Lengths'
<1> USE DEF session, thread, tables
<1>1. /\ step \in [Thread -> Steps \cup {"idle"}] /\ length \in [Thread -> Nat]
      /\ kind \in [Thread -> Kind] /\ LinkInv
  BY DEF TypesInv, ThreadTypes, LinkInv, LinkTypeOK
<1>2. ASSUME UNCHANGED <<step, length, kind>> PROVE Lengths'
  BY <1>2 DEF Lengths
<1>3. ASSUME NEW t \in Thread, ThreadStep(t) PROVE Lengths'
  <2>1. ASSUME NEW o \in Outcome, Database(t, o) PROVE Lengths'
    <3>1. UNCHANGED <<step, kind>> /\ step[t] \notin {"idle", "send"}
      BY <1>1, <2>1, DatabaseCounts DEF Database
    <3>2. CASE Read(t, o)
      <4>1. /\ \A u \in Thread : u # t => length'[u] = length[u]
            /\ step[t] \in {"settings_select", "messages_select"}
            /\ step[t] = "messages_select" => length'[t] = 0
        BY <1>1, <3>1, <3>2 DEF Read, StepKind, Steps
      <4> QED BY <3>1, <4>1 DEF Lengths, MessageSteps
    <3>3. CASE Change(t, o)
      BY <1>2, <3>1, <3>3 DEF Change
    <3> QED BY <2>1, <3>2, <3>3 DEF Database
  <2>2. ASSUME NEW ok \in BOOLEAN, Relink(t, ok) PROVE Lengths'
    BY <1>2, <2>2 DEF Relink, Prepare, Reconnect
  <2>3. CASE NotLogged(t) \/ Trimmed(t)
    <3>1. /\ step' = [step EXCEPT ![t] = "send"] /\ UNCHANGED <<length, kind>>
          /\ step[t] \in MessageSteps
      BY <2>3 DEF NotLogged, Trimmed, Returned, MessageSteps, linkVars
    <3> QED BY <1>1, <3>1 DEF Lengths, MessageSteps
  <2>4. CASE Log(t) \/ Logged(t) \/ SettingDeleted(t)
    <3>1. PICK s \in {"messages_insert", "messages_trim", "messages_delete"} :
            /\ GoTo(t, s)
            /\ s = "messages_delete" => step[t] = "settings_delete"
            /\ s = "messages_trim" => step[t] = "messages_insert"
            /\ s = "messages_insert" => length[t] > 0
            /\ UNCHANGED length
      BY <2>4 DEF Log, Logged, SettingDeleted, Returned
    <3>2. /\ step' = [step EXCEPT ![t] = s] /\ kind' = [kind EXCEPT ![t] = StepKind(s)]
      BY <1>1, <3>1, GoToCounts
    <3> QED BY <1>1, <3>1, <3>2 DEF Lengths, MessageSteps
  <2>5. CASE Send(t) \/ Saved(t) \/ MessagesDeleted(t) \/ Selected(t)
    <3>1. Answer(t)
      BY <2>5 DEF Send, Saved, MessagesDeleted, Selected
    <3>2. /\ step' = [step EXCEPT ![t] = "idle"] /\ length' = [length EXCEPT ![t] = 0]
          /\ kind' = [kind EXCEPT ![t] = "query"]
      BY <3>1 DEF Answer, Rest
    <3> QED BY <1>1, <3>2 DEF Lengths, MessageSteps
  <2> QED BY <1>3, <2>1, <2>2, <2>3, <2>4, <2>5 DEF ThreadStep
<1>4. ASSUME NEW c \in Conn, Client(c) PROVE Lengths'
  <2>1. CASE Receive(c)
    <3>1. ThreadOf[c] \in Thread /\ UNCHANGED length
      BY <2>1, ChannelLogAssumption DEF ChannelLogAssumption, Receive
    <3>2. PICK s : s = FirstStep(Command(c).op)
      OBVIOUS
    <3>3. PICK t \in Thread : t = ThreadOf[c]
      BY <3>1
    <3>4. /\ GoTo(t, s)
          /\ step[t] = "idle"
      BY <2>1, <3>2, <3>3 DEF Receive, Idle, TypesInv, ThreadTypes
    <3>5. s \notin {"messages_insert", "messages_trim"}
      BY <3>2 DEF FirstStep
    <3>6. /\ step' = [step EXCEPT ![t] = s]
          /\ kind' = [kind EXCEPT ![t] = StepKind(s)]
      BY <1>1, <3>4, GoToCounts
    <3>7. length[t] = 0
      BY <3>4 DEF Lengths, MessageSteps
    <3> QED BY <1>1, <3>1, <3>5, <3>6, <3>7 DEF Lengths
  <2>2. CASE Subscribe(c)
    BY <1>2, <2>2 DEF Subscribe, linkVars
  <2> QED BY <1>4, <2>1, <2>2 DEF Client
<1>5. CASE Tick \/ UNCHANGED vars
  BY <1>2, <1>5 DEF Tick, vars, linkVars
<1> QED BY <1>3, <1>4, <1>5 DEF Next

\* While the tables stay, the log is kept as long as no thread drops what it has
\* to do and none without a log gets a length.
LEMMA TasksStay ==
  ASSUME KeptInv, UNCHANGED tables,
         past'.longest = past.longest, past'.trimmed = past.trimmed,
         past.raced => past'.raced,
         past.overdue => past'.overdue,
         \A t \in Thread : length'[t] <= past.longest,
         ~past'.raced /\ settings = 0 => \A t \in Thread : Writing(t)' => length'[t] = 0,
         \A t \in Thread : Deleting(t) => Deleting(t)' \/ past'.raced,
         \A t \in Thread : Trimming(t) => Trimming(t)' \/ past'.overdue
  PROVE  Orphans' /\ Bounded' /\ TrimmedRows'
<1> USE DEF tables
<1>1. TrimDue => TrimDue'
  BY DEF TrimDue
<1>2. Orphans'
  <2> SUFFICES ASSUME ~past'.raced, settings' = 0
               PROVE  /\ \A t \in Thread : Writing(t)' => length'[t] = 0
                      /\ log' = {} \/ \E t \in Thread : Deleting(t)'
    BY DEF Orphans
  <2>1. log = {} \/ \E t \in Thread : Deleting(t)
    BY DEF KeptInv, Orphans
  <2> QED BY <2>1
<1>3. Bounded'
  BY <1>1 DEF KeptInv, Bounded
<1>4. TrimmedRows'
  BY <1>1 DEF KeptInv, TrimmedRows, NotOlder
<1> QED BY <1>2, <1>3, <1>4

\* A thread is given a length by a select, and the others keep theirs.
LEMMA ReadKept ==
  ASSUME KeptInv, NEW t \in Thread, NEW o, Database(t, o), Read(t, o)
  PROVE  Orphans' /\ Bounded' /\ TrimmedRows'
<1> USE DEF tables
<1>1. /\ UNCHANGED <<tables, past, step>> /\ StepKind(step[t]) = "select"
      /\ step[t] \notin {"idle", "send"}
      /\ \A u \in Thread : u # t => length'[u] = length[u] /\ applied'[u] = applied[u]
      /\ length'[t] \in {0, settings}
  BY DatabaseCounts DEF KeptInv, TypesInv, ThreadTypes, Database, Read
<1>2. step[t] \in {"settings_select", "messages_select"}
  BY <1>1 DEF KeptInv, TypesInv, ThreadTypes, Steps, StepKind
<1>3. /\ past.longest \in Nat /\ settings \in Nat
  BY DEF KeptInv, TypesInv, TableTypes, ChannelTypes, Past
<1>4. \A u \in Thread : length'[u] <= past.longest
  BY <1>1, <1>3 DEF KeptInv, Bounded
<1>5. ~past'.raced /\ settings = 0 => \A u \in Thread : Writing(u)' => length'[u] = 0
  BY <1>1 DEF KeptInv, Orphans, Writing
<1>6. \A u \in Thread : (Deleting(u) => Deleting(u)') /\ (Trimming(u) => Trimming(u)')
  BY <1>1, <1>2 DEF Deleting, Trimming
<1> QED BY <1>1, <1>4, <1>5, <1>6, TasksStay

\* The steps that neither call the database nor answer.
LEMMA CommandKept ==
  ASSUME KeptInv, NEW t \in Thread,
         (\E c \in Conn : t = ThreadOf[c] /\ Receive(c))
           \/ NotLogged(t) \/ Log(t) \/ Logged(t) \/ Trimmed(t) \/ SettingDeleted(t)
  PROVE  Orphans' /\ Bounded' /\ TrimmedRows'
<1> USE DEF tables
<1>1. /\ past.longest \in Nat /\ length \in [Thread -> Nat] /\ past \in Past
      /\ step \in [Thread -> Steps \cup {"idle"}] /\ LinkInv
      /\ applied \in [Thread -> Nat]
  BY DEF KeptInv, TypesInv, ThreadTypes, ChannelTypes, Past, LinkInv, LinkTypeOK
<1>2. UNCHANGED <<length, tables>>
  BY DEF Receive, NotLogged, Log, Logged, Trimmed, SettingDeleted
<1>3. \A u \in Thread : length'[u] <= past.longest
  BY <1>2 DEF KeptInv, Bounded
<1>4. /\ past'.longest = past.longest /\ past'.trimmed = past.trimmed
      /\ past.raced => past'.raced
      /\ past.overdue => past'.overdue
  BY <1>1 DEF Receive, NotLogged, Log, Logged, Trimmed, SettingDeleted, Past
<1>5. \A u \in Thread : u # t => step'[u] = step[u] /\ applied'[u] = applied[u]
  <2>1. CASE NotLogged(t) \/ Trimmed(t)
    BY <1>1, <2>1 DEF NotLogged, Trimmed, linkVars
  <2>2. CASE ~(NotLogged(t) \/ Trimmed(t))
    <3>1. PICK s : GoTo(t, s)
      BY <2>2 DEF Receive, Log, Logged, SettingDeleted
    <3> QED BY <1>1, <3>1, GoToCounts
  <2> QED BY <2>1, <2>2
<1>6. /\ Writing(t)' /\ length[t] > 0 => Writing(t)
      /\ Deleting(t) => Deleting(t)' \/ past'.raced
      /\ Trimming(t) => Trimming(t)' \/ past'.overdue
  <2>1. CASE \E c \in Conn : t = ThreadOf[c] /\ Receive(c)
    <3>1. step[t] = "idle" /\ length[t] = 0
      BY <2>1 DEF KeptInv, TypesInv, ThreadTypes, Receive, Idle, Lengths, MessageSteps
    <3> QED BY <1>1, <3>1 DEF Deleting, Trimming
  <2>2. CASE NotLogged(t)
    BY <1>1, <2>2 DEF NotLogged, Returned, Writing, Deleting, Trimming
  <2>3. CASE Log(t)
    <3>1. step[t] = "settings_select"
      BY <2>3 DEF Log, Returned
    <3> QED BY <3>1 DEF Writing, Deleting, Trimming
  <2>4. CASE Logged(t)
    <3>1. step[t] = "messages_insert" /\ step'[t] = "messages_trim" /\ applied'[t] = 0
      BY <1>1, <2>4, GoToCounts DEF Logged, Returned
    <3> QED BY <3>1 DEF Writing, Deleting, Trimming
  <2>5. CASE Trimmed(t)
    <3>1. step[t] = "messages_trim" /\ stage[t] = "done" /\ step'[t] = "send"
          /\ past'.overdue = (past.overdue \/ result[t] = "error")
      BY <1>1, <2>5 DEF Trimmed, Returned, Past
    <3>2. applied[t] = 0 => past'.overdue
      BY <3>1, NotAppliedFails DEF KeptInv
    <3> QED BY <3>1, <3>2 DEF Writing, Deleting, Trimming
  <2>6. CASE SettingDeleted(t)
    <3>1. step[t] = "settings_delete" /\ step'[t] = "messages_delete" /\ applied'[t] = 0
      BY <1>1, <2>6, GoToCounts DEF SettingDeleted, Returned
    <3> QED BY <3>1 DEF Writing, Deleting, Trimming
  <2> QED BY <2>1, <2>2, <2>3, <2>4, <2>5, <2>6
<1>7. ~past'.raced /\ settings = 0 => \A u \in Thread : Writing(u)' => length'[u] = 0
  BY <1>1, <1>2, <1>4, <1>5, <1>6 DEF KeptInv, Orphans, Writing
<1>8. \A u \in Thread : /\ Deleting(u) => Deleting(u)' \/ past'.raced
                        /\ Trimming(u) => Trimming(u)' \/ past'.overdue
  BY <1>5, <1>6 DEF Deleting, Trimming
<1> QED BY <1>2, <1>3, <1>4, <1>7, <1>8, TasksStay

\* Who answers has done what it had to do, or it has failed.
LEMMA AnswerKept ==
  ASSUME KeptInv, NEW t \in Thread,
         Send(t) \/ Saved(t) \/ MessagesDeleted(t) \/ Selected(t)
  PROVE  Orphans' /\ Bounded' /\ TrimmedRows'
<1> USE DEF tables
<1>1. /\ past.longest \in Nat /\ length \in [Thread -> Nat] /\ past \in Past
      /\ step \in [Thread -> Steps \cup {"idle"}] /\ applied \in [Thread -> Nat]
  BY DEF KeptInv, TypesInv, ThreadTypes, ChannelTypes, Past, LinkInv, LinkTypeOK
<1>2. Answer(t) /\ UNCHANGED tables
  BY DEF Send, Saved, MessagesDeleted, Selected
<1>3. /\ step'[t] = "idle" /\ length'[t] = 0
      /\ \A u \in Thread : u # t =>
           step'[u] = step[u] /\ length'[u] = length[u] /\ applied'[u] = applied[u]
  BY <1>1, <1>2 DEF Answer, Rest
<1>4. /\ past'.longest = past.longest /\ past'.trimmed = past.trimmed
      /\ past.raced => past'.raced
      /\ past.overdue => past'.overdue
  BY <1>1 DEF Send, Saved, MessagesDeleted, Selected, Past
<1>5. \A u \in Thread : length'[u] <= past.longest
  BY <1>1, <1>3 DEF KeptInv, Bounded
<1>6. ~past'.raced /\ settings = 0 => \A u \in Thread : Writing(u)' => length'[u] = 0
  BY <1>3, <1>4 DEF KeptInv, Orphans, Writing
<1>7. ~Trimming(t)
  BY DEF Trimming, Send, Saved, MessagesDeleted, Selected, Returned
<1>8. Deleting(t) => past'.raced
  <2>1. CASE MessagesDeleted(t)
    <3>1. /\ step[t] = "messages_delete" /\ stage[t] = "done"
          /\ past'.raced = (past.raced \/ result[t] = "error")
      BY <1>1, <2>1 DEF MessagesDeleted, Returned, Past
    <3> QED BY <3>1, NotAppliedFails DEF KeptInv, Deleting
  <2>2. CASE ~MessagesDeleted(t)
    BY <2>2 DEF Deleting, Send, Saved, Selected, Returned
  <2> QED BY <2>1, <2>2
<1>9. \A u \in Thread : /\ Deleting(u) => Deleting(u)' \/ past'.raced
                        /\ Trimming(u) => Trimming(u)' \/ past'.overdue
  BY <1>3, <1>7, <1>8 DEF Deleting, Trimming
<1> QED BY <1>2, <1>4, <1>5, <1>6, <1>9, TasksStay

-----------------------------------------------------------------------------
\* The rows of the log

\* The newest rows of the log are n, or all, and none of the others is newer.
LEMMA NewestFacts ==
  ASSUME IsFiniteSet(log), NEW n \in Nat, NEW newest \in Newest(n, log)
  PROVE  /\ newest \in SUBSET log /\ IsFiniteSet(newest)
         /\ Cardinality(newest) = n \/ newest = log
         /\ \A k \in newest, r \in log \ newest : r.time <= k.time
<1>1. Cardinality(log) \in Nat
  BY FS_CardinalityType
<1>2. /\ newest \in SUBSET log
      /\ Cardinality(newest) = IF n < Cardinality(log) THEN n ELSE Cardinality(log)
      /\ \A k \in newest, r \in log \ newest : r.time <= k.time
  BY DEF Newest, kSubset
<1>3. IsFiniteSet(newest)
  BY <1>2, FS_Subset
<1>4. Cardinality(newest) = n \/ newest = log
  <2>1. CASE n < Cardinality(log)
    BY <1>2, <2>1
  <2>2. CASE ~(n < Cardinality(log))
    BY <1>2, <2>2, FS_Subset
  <2> QED BY <2>1, <2>2
<1> QED BY <1>2, <1>3, <1>4

\* A trim keeps the newest rows, whatever else it has to leave.
LEMMA NewestStay ==
  ASSUME NEW n, NEW kept \in Latest(n)
  PROVE  \E newest \in Newest(n, log) : newest \subseteq kept /\ kept \subseteq log
<1>1. PICK newest \in Newest(n, log) :
        kept \in {log \ deleted : deleted \in Newest(TrimLimit, log \ newest)}
  BY DEF Latest
<1>2. newest \in SUBSET log
  BY DEF Newest, kSubset
<1>3. PICK deleted \in Newest(TrimLimit, log \ newest) : kept = log \ deleted
  BY <1>1
<1>4. deleted \in SUBSET (log \ newest)
  BY <1>3 DEF Newest, kSubset
<1> QED BY <1>1, <1>2, <1>3, <1>4

\* So where there were as many rows as it keeps that were not older, there are.
LEMMA LatestNotOlder ==
  ASSUME IsFiniteSet(log), \A k \in log : k.time \in Nat,
         NEW n \in Nat, NEW kept \in Latest(n), NEW r, r.time \in Nat,
         r \in log \ kept \/ Cardinality(NotOlder(r)) >= n
  PROVE  Cardinality({k \in kept : r.time <= k.time}) >= n
<1> SUFFICES ASSUME NEW newer, newer = {k \in kept : r.time <= k.time}
             PROVE  Cardinality(newer) >= n
  OBVIOUS
<1>1. PICK newest \in Newest(n, log) : newest \subseteq kept /\ kept \subseteq log
  BY NewestStay
<1>2. /\ newest \in SUBSET log /\ IsFiniteSet(newest)
      /\ Cardinality(newest) = n \/ newest = log
      /\ \A k \in newest, s \in log \ newest : s.time <= k.time
  BY NewestFacts
<1>3. CASE newest = log
  <2>1. kept = log
    BY <1>1, <1>3
  <2> QED BY <2>1 DEF NotOlder
<1>4. CASE newest # log
  <2>1. Cardinality(newest) = n
    BY <1>2, <1>4
  <2>2. newest \subseteq newer
    <3>1. CASE r \in log \ kept
      BY <1>1, <1>2, <3>1
    <3>2. CASE Cardinality(NotOlder(r)) >= n
      <4> SUFFICES ASSUME NEW k \in newest, ~(r.time <= k.time) PROVE FALSE
        BY <1>1
      <4>1. NotOlder(r) \subseteq newest
        <5> SUFFICES ASSUME NEW s \in log, r.time <= s.time, s \notin newest PROVE FALSE
          BY DEF NotOlder
        <5>1. s.time <= k.time /\ s.time \in Nat /\ k.time \in Nat
          BY <1>2
        <5> QED BY <5>1
      <4>2. NotOlder(r) \in SUBSET (newest \ {k})
        BY <4>1 DEF NotOlder
      <4>3. IsFiniteSet(newest \ {k}) /\ Cardinality(newest \ {k}) = Cardinality(newest) - 1
        BY <1>2, FS_RemoveElement
      <4>4. Cardinality(NotOlder(r)) <= Cardinality(newest \ {k}) /\ IsFiniteSet(NotOlder(r))
        BY <4>2, <4>3, FS_Subset
      <4>5. Cardinality(NotOlder(r)) \in Nat
        BY <4>4, FS_CardinalityType
      <4> QED BY <2>1, <3>2, <4>3, <4>4, <4>5
    <3> QED BY <3>1, <3>2
  <2>3. newer \in SUBSET log
    BY <1>1
  <2>4. IsFiniteSet(newer)
    BY <2>3, FS_Subset
  <2>5. Cardinality(newest) <= Cardinality(newer)
    BY <2>2, <2>4, FS_Subset
  <2> QED BY <2>1, <2>5
<1> QED BY <1>3, <1>4

\* More rows do not make fewer that are not older.
LEMMA MoreNotOlder ==
  ASSUME IsFiniteSet(log'), log \subseteq log', NEW r
  PROVE  Cardinality(NotOlder(r)) <= Cardinality(NotOlder(r)')
<1>1. IsFiniteSet(NotOlder(r)') /\ NotOlder(r) \in SUBSET NotOlder(r)'
  <2>1. NotOlder(r)' \in SUBSET log'
    BY DEF NotOlder
  <2>2. IsFiniteSet(NotOlder(r)')
    BY <2>1, FS_Subset
  <2> QED BY <2>2 DEF NotOlder
<1> QED BY <1>1, FS_Subset

\* A change of the tables.
LEMMA ChangeKept ==
  ASSUME KeptInv, TypesInv', NEW t \in Thread, NEW o, Database(t, o), Change(t, o)
  PROVE  Orphans' /\ Bounded' /\ TrimmedRows'
<1>1. /\ UNCHANGED <<step, length>>
      /\ applied'[t] \in Nat
      /\ o \in Carried => applied'[t] > 0
      /\ o \notin Carried => applied'[t] = applied[t]
      /\ \A u \in Thread : u # t => applied'[u] = applied[u]
  BY DatabaseCounts DEF KeptInv, TypesInv, Database, Change
<1>2. /\ past \in Past /\ settings \in Nat /\ past.longest \in Nat
      /\ past.trimmed \in SUBSET Row /\ length \in [Thread -> Nat]
      /\ IsFiniteSet(log) /\ Cardinality(log) \in Nat
      /\ IsFiniteSet(log') /\ Cardinality(log') \in Nat
      /\ log \in SUBSET Row /\ \A r \in Row : r.time \in Nat
  <2>1. TypesInv /\ TypesInv'
    BY DEF KeptInv
  <2>2. /\ past \in Past /\ settings \in Nat /\ length \in [Thread -> Nat]
        /\ IsFiniteSet(log) /\ IsFiniteSet(log') /\ log \in SUBSET Row
    BY <2>1 DEF TypesInv, ThreadTypes, TableTypes, ChannelTypes
  <2>3. past.longest \in Nat /\ past.trimmed \in SUBSET Row
    BY <2>2 DEF Past
  <2>4. Cardinality(log) \in Nat /\ Cardinality(log') \in Nat
    BY <2>2, FS_CardinalityType
  <2>5. \A r \in Row : r.time \in Nat
    BY ChannelLogAssumption DEF Row, ChannelLogAssumption
  <2> QED BY <2>2, <2>3, <2>4, <2>5
<1>3. CASE o \in Carried /\ (Insert(t) \/ Trim(t))
  <2>1. length[t] > 0 /\ Writing(t)
    BY <1>3 DEF Insert, Trim, KeptInv, Lengths, Writing
  <2>2. past.raced \/ settings # 0
    BY <2>1 DEF KeptInv, Orphans
  <2>3. past'.raced = past.raced /\ settings' = settings /\ past'.longest = past.longest
    BY <1>2, <1>3 DEF Insert, Trim, Keep, Past
  <2>4. Orphans'
    BY <2>2, <2>3 DEF Orphans
  <2>5. CASE Insert(t)
    <3>1. TrimDue'
      BY <1>1, <2>5 DEF TrimDue, Trimming, Insert
    <3>2. Bounded'
      BY <1>1, <2>3, <3>1 DEF KeptInv, Bounded
    <3>3. past'.trimmed = past.trimmed /\ log \subseteq log'
      BY <1>2, <2>5 DEF Insert, Keep, Past
    <3>4. TrimmedRows'
      <4> SUFFICES ASSUME NEW r \in past.trimmed PROVE Cardinality(NotOlder(r)') >= settings
        BY <2>3, <3>1, <3>3 DEF TrimmedRows
      <4>1. Cardinality(NotOlder(r)) >= settings
        BY DEF KeptInv, TrimmedRows
      <4>2. Cardinality(NotOlder(r)) <= Cardinality(NotOlder(r)')
        BY <1>2, <3>3, MoreNotOlder
      <4>3. IsFiniteSet(NotOlder(r)) /\ IsFiniteSet(NotOlder(r)')
        <5>1. NotOlder(r) \in SUBSET log /\ NotOlder(r)' \in SUBSET log'
          BY DEF NotOlder
        <5> QED BY <1>2, <5>1, FS_Subset
      <4>4. Cardinality(NotOlder(r)) \in Nat /\ Cardinality(NotOlder(r)') \in Nat
        BY <4>3, FS_CardinalityType
      <4> QED BY <1>2, <4>1, <4>2, <4>4
    <3> QED BY <2>4, <3>2, <3>4
  <2>6. CASE Trim(t)
    <3>1. PICK kept \in Latest(length[t]) :
            /\ Keep(kept)
            /\ past' = [past EXCEPT !.gone = @ \cup {r.id : r \in log \ kept},
                                    !.trimmed = IF length[t] = settings
                                                  THEN @ \cup (log \ kept) ELSE {},
                                    !.overdue = TooLong(kept, length[t])]
      BY <2>6 DEF Trim
    <3>2. /\ log' = kept
          /\ past'.trimmed = IF length[t] = settings THEN past.trimmed \cup (log \ kept) ELSE {}
          /\ past'.overdue = TooLong(kept, length[t])
      BY <1>2, <3>1 DEF Keep, Past
    <3>3. length[t] \in Nat /\ (Cardinality(kept) <= length[t] \/ TrimDue')
      <4>1. IsFiniteSet(kept)
        BY <1>2, <3>1, KeepsSome, FS_Subset
      <4>2. Cardinality(kept) \in Nat /\ length[t] \in Nat
        BY <1>2, <4>1, FS_CardinalityType
      <4>3. ASSUME Cardinality(kept) > length[t] PROVE TrimDue'
        <5>1. TooLong(kept, length[t])
          BY <4>3 DEF TooLong
        <5>2. past'.overdue
          BY <3>2, <5>1, Zenon
        <5> QED BY <5>2 DEF TrimDue
      <4> QED BY <4>2, <4>3
    <3>4. Bounded'
      <4>1. length[t] <= past.longest /\ (Cardinality(log') <= past.longest \/ TrimDue')
        BY <1>2, <3>2, <3>3 DEF KeptInv, Bounded
      <4> QED BY <1>1, <2>3, <4>1 DEF KeptInv, Bounded
    <3>5. TrimmedRows'
      <4> SUFFICES ASSUME length[t] = settings
                   PROVE  /\ Cardinality(log') <= settings \/ TrimDue'
                          /\ \A r \in past.trimmed \cup (log \ kept) :
                               Cardinality(NotOlder(r)') >= settings
        BY <2>3, <3>2 DEF TrimmedRows
      <4>1. ASSUME NEW r \in past.trimmed \cup (log \ kept)
            PROVE  Cardinality(NotOlder(r)') >= settings
        <5>1. r.time \in Nat /\ \A k \in log : k.time \in Nat
          BY <1>2
        <5>2. r \in log \ kept \/ Cardinality(NotOlder(r)) >= settings
          BY DEF KeptInv, TrimmedRows
        <5>3. Cardinality({k \in kept : r.time <= k.time}) >= settings
          BY <1>2, <5>1, <5>2, LatestNotOlder
        <5> QED BY <3>2, <5>3 DEF NotOlder
      <4> QED BY <3>2, <3>3, <4>1
    <3> QED BY <2>4, <3>4, <3>5
  <2> QED BY <1>3, <2>5, <2>6
<1>4. CASE o \in Carried /\ Replace(t)
  <2>1. /\ past'.trimmed = {} /\ log' = log
        /\ past'.raced = (past.raced \/ settings' = 0)
        /\ past'.longest = IF settings' > past.longest THEN settings' ELSE past.longest
        /\ past'.overdue = past.overdue
    BY <1>2, <1>4 DEF Replace, Past
  <2>2. settings' \in Nat
    BY DEF TypesInv, TableTypes
  <2>3. settings' <= past'.longest /\ past.longest <= past'.longest /\ past'.longest \in Nat
    BY <1>2, <2>1, <2>2
  <2>4. Orphans' /\ TrimmedRows'
    BY <2>1 DEF Orphans, TrimmedRows
  <2>5. \A u \in Thread : length'[u] <= past'.longest
    BY <1>1, <1>2, <2>3 DEF KeptInv, Bounded
  <2>6. TrimDue => TrimDue'
    BY <1>1, <1>4, <2>1 DEF TrimDue, Trimming, Replace
  <2>7. Cardinality(log') <= past'.longest \/ TrimDue'
    BY <1>2, <2>1, <2>3, <2>6 DEF KeptInv, Bounded
  <2> QED BY <2>3, <2>4, <2>5, <2>7 DEF Bounded
<1>5. CASE o \in Carried /\ Unset(t)
  <2>1. /\ past'.trimmed = {} /\ log' = log /\ settings' = 0
        /\ past'.raced = (past.raced \/ \E u \in Thread : Writing(u))
        /\ past'.longest = past.longest /\ past'.overdue = past.overdue
        /\ step[t] = "settings_delete"
    BY <1>2, <1>5 DEF Unset, Past
  <2>2. \A u \in Thread : Writing(u)' = Writing(u)
    BY <1>1 DEF Writing
  <2>3. Deleting(t)'
    BY <1>1, <1>5, <2>1 DEF Deleting
  <2>4. Orphans' /\ TrimmedRows'
    BY <2>1, <2>2, <2>3 DEF Orphans, TrimmedRows
  <2>5. TrimDue => TrimDue'
    BY <1>1, <2>1 DEF TrimDue, Trimming
  <2>6. Bounded'
    BY <1>1, <1>2, <2>1, <2>5 DEF KeptInv, Bounded
  <2> QED BY <2>4, <2>6
<1>6. CASE o \in Carried /\ Clear(t)
  <2>1. /\ past'.trimmed = {} /\ log' = {} /\ settings' = settings
        /\ past'.raced = past.raced /\ past'.longest = past.longest
    BY <1>2, <1>6 DEF Clear, Keep, Past
  <2>2. Orphans' /\ TrimmedRows'
    BY <1>1, <2>1 DEF KeptInv, Orphans, TrimmedRows, Writing
  <2>3. Cardinality(log') <= past'.longest
    BY <1>2, <2>1, FS_EmptySet
  <2>4. Bounded'
    BY <1>1, <2>1, <2>3 DEF KeptInv, Bounded
  <2> QED BY <2>2, <2>4
<1>7. CASE o \notin Carried
  <2>1. UNCHANGED <<tables, past>> /\ UNCHANGED applied
    <3>1. /\ applied \in [Thread -> Nat] /\ applied' \in [Thread -> Nat]
      BY DEF KeptInv, TypesInv, LinkInv, LinkTypeOK
    <3> QED BY <1>1, <1>7, <3>1 DEF Change
  <2>2. \A u \in Thread : (Deleting(u) => Deleting(u)') /\ (Trimming(u) => Trimming(u)')
    BY <1>1, <2>1 DEF Deleting, Trimming
  <2>3. \A u \in Thread : length'[u] <= past.longest
    BY <1>1 DEF KeptInv, Bounded
  <2>4. ~past'.raced /\ settings = 0 => \A u \in Thread : Writing(u)' => length'[u] = 0
    BY <1>1, <2>1 DEF KeptInv, Orphans, Writing
  <2> QED BY <2>1, <2>2, <2>3, <2>4, TasksStay
<1> QED BY <1>3, <1>4, <1>5, <1>6, <1>7 DEF Change, CarryOut

\* Every step keeps what the threads have to do.
LEMMA KeptStep ==
  ASSUME KeptInv, [Next]_vars
  PROVE  KeptInv'
<1> USE DEF session, thread, tables, channel
<1>1. TypesInv' /\ Lengths'
  BY TypesStep, LengthsStep DEF KeptInv
<1>2. ASSUME UNCHANGED <<step, length, applied, settings, log, past>>
      PROVE  Orphans' /\ Bounded' /\ TrimmedRows'
  BY <1>2
  DEF KeptInv, Orphans, Bounded, TrimmedRows, TrimDue, Trimming, Deleting, Writing, NotOlder
<1>3. ASSUME NEW t \in Thread, ThreadStep(t) PROVE Orphans' /\ Bounded' /\ TrimmedRows'
  <2>1. ASSUME NEW o \in Outcome, Database(t, o)
        PROVE  Orphans' /\ Bounded' /\ TrimmedRows'
    <3>1. Read(t, o) \/ Change(t, o)
      BY <2>1 DEF Database
    <3> QED BY <1>1, <2>1, <3>1, ReadKept, ChangeKept
  <2>2. ASSUME NEW ok \in BOOLEAN, Relink(t, ok)
        PROVE  Orphans' /\ Bounded' /\ TrimmedRows'
    BY <1>2, <2>2 DEF Relink, Prepare, Reconnect
  <2> QED BY <1>3, <2>1, <2>2, CommandKept, AnswerKept DEF ThreadStep
<1>4. ASSUME NEW c \in Conn, Client(c) PROVE Orphans' /\ Bounded' /\ TrimmedRows'
  <2>1. ThreadOf[c] \in Thread
    BY ChannelLogAssumption DEF ChannelLogAssumption
  <2>2. CASE Receive(c)
    BY <2>1, <2>2, CommandKept
  <2>3. CASE Subscribe(c)
    BY <1>2, <2>3 DEF Subscribe, linkVars
  <2> QED BY <1>4, <2>2, <2>3 DEF Client
<1>5. ASSUME Tick \/ UNCHANGED vars PROVE Orphans' /\ Bounded' /\ TrimmedRows'
  <2>1. UNCHANGED <<step, length, applied, settings, log, past>>
    BY <1>5 DEF Tick, vars, linkVars
  <2> QED BY <1>2, <2>1
<1>6. Orphans' /\ Bounded' /\ TrimmedRows'
  BY <1>3, <1>4, <1>5 DEF Next
<1> QED BY <1>1, <1>6 DEF KeptInv

-----------------------------------------------------------------------------
\* Theorems

\* Who has a length, a call or something to do holds in every state.
THEOREM ThreadsKeep == Spec => []KeptInv
BY InitKept, KeptStep, PTL DEF Spec

\* The threads serve one command at a time, each message is in the log at most
\* once and under its own name, and nobody gets a message that was not sent
\* (the primary key of pipe_messages; Client_connection and MySql_connection).
THEOREM LogTypeOK == Spec => []TypeOK
<1>1. KeptInv => TypeOK
  BY DEF KeptInv, TypesInv, LinkInv, ThreadTypes, TableTypes, ChannelTypes, TypeOK
<1> QED BY <1>1, ThreadsKeep, PTL

\* In any state in which no command is served the log is no longer than its
\* setting has been, and what trims to the setting have deleted is not newer
\* than what is left, unless the last trim has failed or had more rows to delete
\* than the 999 it may (addToLog).
THEOREM LogStaysShort == Spec => []LogKept
<1>1. KeptInv => LogKept
  <2> SUFFICES ASSUME KeptInv, Quiet, ~past.overdue
               PROVE  /\ Cardinality(log) <= past.longest
                      /\ \A r \in past.trimmed, k \in log : r.time <= k.time
    BY DEF LogKept, LogBounded, LatestKept
  <2>1. \A t \in Thread : step[t] = "idle"
    BY DEF Quiet, Idle, KeptInv, TypesInv, ThreadTypes
  <2>2. ~TrimDue
    BY <2>1 DEF TrimDue, Trimming
  <2>3. Cardinality(log) <= past.longest
    BY <2>2 DEF KeptInv, Bounded
  <2>4. ASSUME NEW r \in past.trimmed, NEW k \in log PROVE r.time <= k.time
    <3>1. Cardinality(log) <= settings /\ Cardinality(NotOlder(r)) >= settings
      BY <2>2 DEF KeptInv, TrimmedRows
    <3>2. IsFiniteSet(log) /\ NotOlder(r) \in SUBSET log
      BY DEF KeptInv, TypesInv, TableTypes, NotOlder
    <3>3. Cardinality(NotOlder(r)) <= Cardinality(log) /\ IsFiniteSet(NotOlder(r))
      BY <3>2, FS_Subset
    <3>4. settings \in Nat /\ Cardinality(log) \in Nat /\ Cardinality(NotOlder(r)) \in Nat
      BY <3>2, <3>3, FS_CardinalityType DEF KeptInv, TypesInv, TableTypes
    <3>5. Cardinality(log) = Cardinality(NotOlder(r))
      BY <3>1, <3>3, <3>4
    <3>6. log = NotOlder(r)
      BY <3>2, <3>5, FS_Subset
    <3> QED BY <3>6 DEF NotOlder
  <2> QED BY <2>3, <2>4
<1> QED BY <1>1, ThreadsKeep, PTL

\* In any state in which no command is served a channel without a log has no
\* messages, unless one was on its way when the setting was deleted, a deletion
\* has failed or the setting was replaced by 0 (sql_delete_from_pipes_settings).
THEOREM NoOrphansLeft == Spec => []NoOrphans
<1>1. KeptInv => NoOrphans
  <2>1. KeptInv /\ Quiet => \A t \in Thread : step[t] = "idle"
    BY DEF Quiet, Idle, KeptInv, TypesInv, ThreadTypes
  <2> QED BY <2>1 DEF NoOrphans, KeptInv, Orphans, Deleting
<1> QED BY <1>1, ThreadsKeep, PTL
=============================================================================
