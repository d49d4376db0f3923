---------------------------- MODULE ChannelLog ----------------------------
(***************************************************************************)
(* The log of a channel (PipeLog::addToLog and the statements on           *)
(* pipes_settings and pipes_messages of MySql_connection.cpp;              *)
(* web_pipe_msg_v2 and send_pipe_log of Client_connection.cpp), written    *)
(* and read by several threads, each over a link of its own (DbLink).      *)
(*                                                                         *)
(* A connection sends a command when the one before has been answered: a   *)
(* CometQL connection the statements "message" (insert into                *)
(* pipes_messages), "setting" (insert into pipes_settings), "unset"        *)
(* (delete from pipes_settings), "clear" (delete from pipes_messages) and  *)
(* "select"; a connection of the JS API "subscribe", "pipe_msg" and        *)
(* "get_log".  A thread serves one command at a time.  There is one        *)
(* channel, whose name does not begin with trust_.  A statement that was   *)
(* given up is carried out at once or never; Cluster has it carried out    *)
(* later, too.                                                             *)
(***************************************************************************)
EXTENDS DbLink, FiniteSets, Sequences, FiniteSetsExt

CONSTANTS
  Conn,        \* the connections
  ThreadOf,    \* the thread that serves each of them
  Scripts,     \* what may happen: the length of the log at the start, 0 for none,
               \* and the commands of each connection
  SelectLimit, \* rows of a select of pipes_messages (99)
  TrimLimit,   \* rows a trim deletes at most (999)
  MaxFaults,   \* bounds the failures of MySQL and its links
  MaxClock,    \* bounds the clock
  None         \* no connection, no message

Request ==
  [op : {"message", "unset", "clear", "select", "subscribe", "pipe_msg", "get_log"}]
    \cup [op : {"setting"}, length : Nat]

ASSUME ChannelLogAssumption ==
  /\ ThreadOf \in [Conn -> Thread] /\ None \notin Conn
  /\ \A s \in Scripts : s.length \in Nat /\ s.commands \in [Conn -> Seq(Request)]
  /\ {SelectLimit, TrimLimit, MaxFaults, MaxClock} \subseteq Nat

VARIABLES
  script,   \* what the connections send
  served,   \* how many of its commands each connection has had answered
  task,     \* the connection a thread serves, or None
  step,     \* the call of the database its command is at
  length,   \* pipes_settings_select->result_length of the thread
  uid,      \* the row the thread inserts, with its time
  rows,     \* the rows of the thread's select, or Unread
  settings, \* table pipes_settings: the length of the channel's log, or 0
  log,      \* table pipe_messages: rows [id, time]
  clock, faults,
  subscribers,
  live,     \* messages each connection has got as they were sent
  history,  \* messages each connection has got from the log
  past      \* ghosts about what has been: see Past

session == <<script, served>>
thread == <<task, step, length, uid, rows>>
tables == <<settings, log>>
channel == <<subscribers, live, history>>
vars == <<session, thread, tables, clock, faults, channel, past, linkVars>>

Command(c) == script[c][served[c] + 1]

CommandsOf(ops) ==
  UNION {{c} \X {n \in DOMAIN script[c] : script[c][n].op \in ops} : c \in Conn}

Id == CommandsOf({"message", "pipe_msg"})
Row == [id : Id, time : 0..MaxClock]
NoRow == [id |-> None, time |-> 0]
Unread == {NoRow}

Steps == {"settings_select", "messages_insert", "messages_trim", "send",
          "settings_replace", "settings_delete", "messages_delete", "messages_select"}

\* logged: rows that were ever in the log.  gone: those deleted.  trimmed: those
\* addToLog has deleted since the setting or its view of it last changed and the
\* log was last emptied.  sent: messages that have been sent.  longest: the
\* longest setting.  overdue: a trim has failed, or had to leave rows it should
\* have deleted, since the last one that deleted all it should.  raced: the
\* setting was deleted while a message was on its way into the log, a deletion has
\* failed, or the setting was replaced by 0, which deletes no message.  readers:
\* subscribers who have read the log.
Past == [readers : SUBSET Conn, logged : SUBSET Id, gone : SUBSET Id,
         trimmed : SUBSET Row, sent : SUBSET Id,
         longest : Nat, overdue : BOOLEAN, raced : BOOLEAN]

TypeOK ==
  /\ LinkTypeOK
  /\ script \in {s.commands : s \in Scripts}
  /\ \A c \in Conn : served[c] \in 0..Len(script[c])
  /\ \A t \in Thread :
       /\ task[t] = None <=> step[t] = "idle"
       /\ task[t] # None => ThreadOf[task[t]] = t /\ served[task[t]] < Len(script[task[t]])
  /\ step \in [Thread -> Steps \cup {"idle"}]
  /\ length \in [Thread -> Nat]
  /\ uid \in [Thread -> Row \cup {NoRow}]
  /\ rows \in [Thread -> (SUBSET Row) \cup {Unread}]
  /\ settings \in Nat
  /\ log \in SUBSET Row
  /\ \A r, s \in log : r.id = s.id => r = s
  /\ clock \in 0..MaxClock
  /\ faults \in 0..MaxFaults
  /\ subscribers \in SUBSET Conn
  /\ {live, history} \subseteq [Conn -> SUBSET Id]
  /\ past \in Past

Init ==
  /\ LinkInit
  /\ \E s \in Scripts : script = s.commands /\ settings = s.length
  /\ served = [c \in Conn |-> 0]
  /\ task = [t \in Thread |-> None]
  /\ step = [t \in Thread |-> "idle"]
  /\ length = [t \in Thread |-> 0]
  /\ uid = [t \in Thread |-> NoRow]
  /\ rows = [t \in Thread |-> Unread]
  /\ log = {}
  /\ clock = 0
  /\ faults = 0
  /\ subscribers = {}
  /\ live = [c \in Conn |-> {}]
  /\ history = [c \in Conn |-> {}]
  /\ past = [readers |-> {}, logged |-> {}, gone |-> {}, trimmed |-> {}, sent |-> {},
             longest |-> settings, overdue |-> FALSE, raced |-> FALSE]

-----------------------------------------------------------------------------
\* A thread takes a command from a connection

Idle(t) == task[t] = None

FirstStep(op) ==
  IF op \in {"message", "pipe_msg"} THEN "settings_select"
  ELSE IF op = "setting" THEN "settings_replace"
  ELSE IF op = "unset" THEN "settings_delete"
  ELSE IF op = "clear" THEN "messages_delete"
  ELSE "messages_select"

StepKind(s) ==
  IF s \in {"settings_select", "messages_select"} THEN "select"
  ELSE IF s \in {"messages_insert", "messages_delete"} THEN "insert"
  ELSE "query"

GoTo(t, s) ==
  /\ step' = [step EXCEPT ![t] = s]
  /\ Call(t, StepKind(s))

Receive(c) ==
  /\ Idle(ThreadOf[c])
  /\ served[c] < Len(script[c])
  /\ Command(c).op # "subscribe"
  /\ task' = [task EXCEPT ![ThreadOf[c]] = c]
  /\ GoTo(ThreadOf[c], FirstStep(Command(c).op))
  /\ UNCHANGED <<script, served, length, uid, rows, tables, clock, faults, channel, past>>

\* Client_connection::subscription
Subscribe(c) ==
  /\ Idle(ThreadOf[c])
  /\ served[c] < Len(script[c])
  /\ Command(c).op = "subscribe"
  /\ subscribers' = subscribers \cup {c}
  /\ served' = [served EXCEPT ![c] = @ + 1]
  /\ UNCHANGED <<script, thread, tables, clock, faults, live, history, past, linkVars>>

\* Fault: the thread keeps the step it was at.
AnswerUnfinished(t) ==
  /\ served' = [served EXCEPT ![task[t]] = @ + 1]
  /\ task' = [task EXCEPT ![t] = None]
  /\ Rest(t)
  /\ UNCHANGED <<script, step, length, uid, rows>>

\* The command is answered, whatever has become of its calls.
Answer(t) ==
  /\ served' = [served EXCEPT ![task[t]] = @ + 1]
  /\ task' = [task EXCEPT ![t] = None]
  /\ step' = [step EXCEPT ![t] = "idle"]
  /\ length' = [length EXCEPT ![t] = 0]
  /\ uid' = [uid EXCEPT ![t] = NoRow]
  /\ rows' = [rows EXCEPT ![t] = Unread]
  /\ Rest(t)
  /\ UNCHANGED script

-----------------------------------------------------------------------------
\* MySQL

\* `id' is the primary key of pipe_messages.
Accepts(t) == step[t] = "messages_insert" => \A r \in log : r.id # uid[t].id

\* Fault: only what is older than the present second.
OldestPast(n, table) == {{r \in table : r.time < clock}}

\* select ... order by time limit n: n of the oldest rows.
Oldest(n, table) ==
  {read \in kSubset(IF n < Cardinality(table) THEN n ELSE Cardinality(table), table) :
     \A k \in read, r \in table \ read : k.time <= r.time}

\* ... order by time desc limit n.
Newest(n, table) ==
  {read \in kSubset(IF n < Cardinality(table) THEN n ELSE Cardinality(table), table) :
     \A k \in read, r \in table \ read : r.time <= k.time}

\* Fault: order by time, without desc.
LatestOldest(n) ==
  UNION {{log \ deleted : deleted \in Oldest(TrimLimit, log \ oldest)} :
           oldest \in Oldest(n, log)}

\* delete ... order by time desc limit n, 999: what is left are n of the newest
\* rows, and the oldest ones if more than 999 were to be deleted.
Latest(n) ==
  UNION {{log \ deleted : deleted \in Newest(TrimLimit, log \ newest)} :
           newest \in Newest(n, log)}

Keep(kept) ==
  /\ log' = kept
  /\ UNCHANGED settings

Writing(t) == step[t] \in {"settings_select", "messages_insert", "messages_trim"}

Insert(t) ==
  /\ step[t] = "messages_insert"
  /\ Keep(log \cup {uid[t]})
  /\ past' = [past EXCEPT !.logged = @ \cup {uid[t].id}]

TooLong(table, n) == Cardinality(table) > n

Trim(t) ==
  /\ step[t] = "messages_trim"
  /\ \E kept \in Latest(length[t]) :
       /\ Keep(kept)
       /\ past' = [past EXCEPT !.gone = @ \cup {r.id : r \in log \ kept},
                               !.trimmed = IF length[t] = settings
                                             THEN @ \cup (log \ kept) ELSE {},
                               !.overdue = TooLong(kept, length[t])]

Replace(t) ==
  /\ step[t] = "settings_replace"
  /\ settings' = Command(task[t]).length
  /\ past' = [past EXCEPT !.trimmed = {},
                          !.longest = IF settings' > @ THEN settings' ELSE @,
                          !.raced = @ \/ settings' = 0]
  /\ UNCHANGED log

Unset(t) ==
  /\ step[t] = "settings_delete"
  /\ settings' = 0
  /\ past' = [past EXCEPT !.trimmed = {},
                          !.raced = @ \/ \E u \in Thread : Writing(u)]
  /\ UNCHANGED log

Clear(t) ==
  /\ step[t] = "messages_delete"
  /\ Keep({})
  /\ past' = [past EXCEPT !.gone = @ \cup {r.id : r \in log}, !.trimmed = {}]

CarryOut(t) == Insert(t) \/ Trim(t) \/ Replace(t) \/ Unset(t) \/ Clear(t)

\* A select finds no row when the channel has no log; its failure and an empty
\* answer are the same to addToLog.
Read(t, o) ==
  /\ StepKind(step[t]) = "select"
  /\ length' = [length EXCEPT ![t] =
                  IF o = "ok" /\ step[t] = "settings_select" THEN settings ELSE 0]
  /\ \E read \in IF o = "ok" /\ step[t] = "messages_select" THEN Oldest(SelectLimit, log) ELSE {Unread} :
       rows' = [rows EXCEPT ![t] = read]
  /\ UNCHANGED <<tables, past>>

Change(t, o) ==
  /\ StepKind(step[t]) # "select"
  /\ IF o \in Carried THEN CarryOut(t) ELSE UNCHANGED <<tables, past>>
  /\ UNCHANGED <<length, rows>>

Count(failed) ==
  /\ failed => faults < MaxFaults
  /\ faults' = IF failed THEN faults + 1 ELSE faults

\* An attempt of the call a thread makes.
Database(t, o) ==
  /\ step[t] \notin {"idle", "send"}
  /\ o = "refused" \/ Accepts(t) \/ o \notin Carried
  /\ o = "refused" => ~Accepts(t) \/ ~usable[t]
  /\ Execute(t, o)
  /\ Count(o \notin {"ok", "refused"} /\ usable[t])
  /\ Read(t, o) \/ Change(t, o)
  /\ UNCHANGED <<session, task, step, uid, clock, channel>>

Relink(t, ok) ==
  /\ Prepare(t, ok) \/ Reconnect(t, ok)
  /\ Count(~ok)
  /\ UNCHANGED <<session, thread, tables, clock, channel, past>>

-----------------------------------------------------------------------------
\* The command goes on when its call has returned

Returned(t, s) == step[t] = s /\ stage[t] = "done"

\* addToLog: a channel without a log, or whose setting cannot be read.
NotLogged(t) ==
  /\ Returned(t, "settings_select")
  /\ length[t] = 0
  /\ step' = [step EXCEPT ![t] = "send"]
  /\ UNCHANGED <<session, task, length, uid, rows, tables, clock, faults, channel, past, linkVars>>

Log(t) ==
  /\ Returned(t, "settings_select")
  /\ length[t] > 0
  /\ uid' = [uid EXCEPT ![t] =
               [id |-> <<task[t], served[task[t]] + 1>>, time |-> clock]]
  /\ GoTo(t, "messages_insert")
  /\ UNCHANGED <<session, task, length, rows, tables, clock, faults, channel, past>>

\* The result of the insert is ignored.
Logged(t) ==
  /\ Returned(t, "messages_insert")
  /\ GoTo(t, "messages_trim")
  /\ UNCHANGED <<session, task, length, uid, rows, tables, clock, faults, channel, past>>

\* Fault: a trim that has failed is not given up.
TrimmedIfOk(t) ==
  /\ Returned(t, "messages_trim") /\ result[t] = "ok"
  /\ step' = [step EXCEPT ![t] = "send"]
  /\ UNCHANGED <<session, task, length, uid, rows, tables, clock, faults, channel, past, linkVars>>

Trimmed(t) ==
  /\ Returned(t, "messages_trim")
  /\ step' = [step EXCEPT ![t] = "send"]
  /\ past' = [past EXCEPT !.overdue = @ \/ result[t] = "error"]
  /\ UNCHANGED <<session, task, length, uid, rows, tables, clock, faults, channel, linkVars>>

\* send_event_to_pipe sends to every subscriber, web_pipe_msg_v2 to all but the
\* sender.
Receivers(t) ==
  subscribers \ IF Command(task[t]).op = "pipe_msg" THEN {task[t]} ELSE {}

Send(t) ==
  /\ step[t] = "send"
  /\ LET id == <<task[t], served[task[t]] + 1>> IN
       /\ live' = [c \in Conn |-> live[c] \cup IF c \in Receivers(t) THEN {id} ELSE {}]
       /\ past' = [past EXCEPT !.sent = @ \cup {id}]
  /\ Answer(t)
  /\ UNCHANGED <<tables, clock, faults, subscribers, history>>

Saved(t) ==
  /\ Returned(t, "settings_replace")
  /\ Answer(t)
  /\ UNCHANGED <<tables, clock, faults, channel, past>>

\* Fault: the messages stay.
SettingDeletedAlone(t) ==
  /\ Returned(t, "settings_delete")
  /\ past' = [past EXCEPT !.raced = @ \/ result[t] = "error"]
  /\ Answer(t)
  /\ UNCHANGED <<tables, clock, faults, channel>>

\* sql_delete_from_pipes_settings deletes the messages after the setting.
SettingDeleted(t) ==
  /\ Returned(t, "settings_delete")
  /\ past' = [past EXCEPT !.raced = @ \/ result[t] = "error"]
  /\ GoTo(t, "messages_delete")
  /\ UNCHANGED <<session, task, length, uid, rows, tables, clock, faults, channel>>

MessagesDeleted(t) ==
  /\ Returned(t, "messages_delete")
  /\ past' = [past EXCEPT !.raced = @ \/ result[t] = "error"]
  /\ Answer(t)
  /\ UNCHANGED <<tables, clock, faults, channel>>

\* A client of the JS API gets what could be read; nothing tells him that it is
\* all or that it failed.
Selected(t) ==
  /\ Returned(t, "messages_select")
  /\ IF result[t] = "ok" /\ rows[t] # Unread
       THEN /\ history' = [history EXCEPT ![task[t]] = @ \cup {r.id : r \in rows[t]}]
            /\ past' = [past EXCEPT !.readers = @ \cup ({task[t]} \cap subscribers)]
       ELSE UNCHANGED <<history, past>>
  /\ Answer(t)
  /\ UNCHANGED <<tables, clock, faults, subscribers, live>>

ThreadStep(t) ==
  \/ \E o \in Outcome : Database(t, o)
  \/ \E ok \in BOOLEAN : Relink(t, ok)
  \/ NotLogged(t) \/ Log(t) \/ Logged(t) \/ Trimmed(t) \/ Send(t)
  \/ Saved(t) \/ SettingDeleted(t) \/ MessagesDeleted(t) \/ Selected(t)

Client(c) == Receive(c) \/ Subscribe(c)

Tick ==
  /\ clock < MaxClock
  /\ clock' = clock + 1
  /\ UNCHANGED <<session, thread, tables, faults, channel, past, linkVars>>

Next ==
  \/ \E t \in Thread : ThreadStep(t)
  \/ \E c \in Conn : Client(c)
  \/ Tick

Spec == Init /\ [][Next]_vars

\* The threads run, MySQL answers within the read timeout or is lost, and the
\* clients send what they have to send and read what they are sent: a write to one
\* who does not read would hold its thread.
FairSpec ==
  /\ Spec
  /\ \A t \in Thread : WF_vars(ThreadStep(t))
  /\ \A c \in Conn : WF_vars(Client(c))

-----------------------------------------------------------------------------
\* Properties

Quiet == \A t \in Thread : Idle(t)

\* Between two messages a log is no longer than its setting has ever been: each
\* message is followed by a trim, whatever else is written at the same time,
\* unless the last trim has failed or there were more than 999 rows to delete
\* (addToLog 97-107).
LogBounded ==
  Quiet /\ ~past.overdue => Cardinality(log) <= past.longest

\* What trims to the current setting have deleted is not newer than what is in
\* the log, although each thread takes the time of its message before the insert
\* and repeats the insert on its own (addToLog 99-107).  After a trim to another
\* setting, or of an emptied log, an older message may still arrive and stay.
LatestKept ==
  Quiet /\ ~past.overdue => \A r \in past.trimmed, k \in log : r.time <= k.time

\* The log keeps to its length, and to the latest messages.
LogKept == LogBounded /\ LatestKept

\* A client that subscribes and then asks for the log misses no message: what
\* was not sent to him is in what he has read, or has been deleted.  A message
\* is logged before it is sent (MySql_connection.cpp 2552-2553,
\* Client_connection.cpp 1564-1617).
NoGap ==
  \A c \in past.readers :
    \A m \in past.sent \cap past.logged :
      m \in live[c] \cup history[c] \cup past.gone \/ m[1] = c

\* A channel without a log has no messages, unless one was on its way when the
\* setting was deleted, a deletion has failed or the setting was replaced by 0
\* (sql_delete_from_pipes_settings 2997-2998; PipeSettings::save deletes none).
NoOrphans ==
  Quiet /\ ~past.raced /\ settings = 0 => log = {}

\* Every command is answered, whatever becomes of MySQL.
AllServed == <>(\A c \in Conn : served[c] = Len(script[c]))
=============================================================================
