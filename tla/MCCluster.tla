----------------------------- MODULE MCCluster -----------------------------
(***************************************************************************)
(* Instances of Cluster for TLC: nodes n1 and n2, a proxy p that sends, a  *)
(* client j of the JS API and a client q of CometQL that send on node n1,  *)
(* and a client k that only receives on node n2.                           *)
(***************************************************************************)
EXTENDS Cluster, TLC

CONSTANTS n1, n2, p, q, j, k

Nodes == <<n1, n2>>
Others == n1 :> <<n2>> @@ n2 :> <<n1>>
Threads == {p, q, j} \X {n1, n2}
Places == p :> Proxy @@ q :> n1 @@ j :> n1
Homes == j :> n1 @@ k :> n2

ToChannel == [op |-> "pipe", long |-> FALSE]
Long == [op |-> "pipe", long |-> TRUE]
HowMany == [op |-> "count"]
To(c) == [op |-> "user", to |-> c]

Script(proxy, ql, js) == p :> proxy @@ q :> ql @@ j :> js

Talks == {
  Script(<<ToChannel, ToChannel>>, <<>>, <<>>),
  Script(<<ToChannel>>, <<ToChannel>>, <<>>),
  Script(<<>>, <<>>, <<ToChannel, ToChannel>>),
  Script(<<>>, <<>>, <<Long, ToChannel>>),
  Script(<<HowMany>>, <<>>, <<>>),
  Script(<<To(k)>>, <<>>, <<>>),
  Script(<<>>, <<To(j), To(k)>>, <<>>)
}

\* A message for a user goes to a node that is not his.
ToOne == {Script(<<To(j)>>, <<>>, <<>>)}
=============================================================================
