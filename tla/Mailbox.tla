------------------------------- MODULE Mailbox -------------------------------
(***************************************************************************)
(* What the documentation promises of a message to a user: it is shown at  *)
(* once or "placed into a queue of messages and would be delivered when it *)
(* user will be online", and the queue is meant for a short absence, so    *)
(* that a message which has become old may be thrown away.                 *)
(***************************************************************************)
CONSTANT Msg

VARIABLES
  status,  \* [Msg -> "new", "waiting", "seen" or "gone"]
  old      \* the waiting messages that have become old

vars == <<status, old>>

Init ==
  /\ status = [m \in Msg |-> "new"]
  /\ old = {}

Waiting == {m \in Msg : status[m] = "waiting"}

Move(S, s) == status' = [m \in Msg |-> IF m \in S THEN s ELSE status[m]]

\* The application sends a message.
Send(m) ==
  /\ status[m] = "new"
  /\ Move({m}, "waiting")
  /\ UNCHANGED old

\* A device of the user is given the message.
Show(m) ==
  /\ m \in Waiting
  /\ Move({m}, "seen")
  /\ old' = old \ {m}

Age(S) ==
  /\ old' = old \cup S
  /\ UNCHANGED status

Expire ==
  /\ Move(old, "gone")
  /\ old' = {}

Next ==
  \/ \E m \in Msg : Send(m) \/ Show(m)
  \/ \E S \in SUBSET Waiting : Age(S)
  \/ Expire

Spec == Init /\ [][Next]_vars
=============================================================================
