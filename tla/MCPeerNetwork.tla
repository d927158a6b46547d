--------------------------- MODULE MCPeerNetwork ---------------------------
(***************************************************************************)
(* PeerNetwork with three clients.  Node k gives <<"lan", k>> as its own   *)
(* address; it can also be reached as <<"alt", k>>, through its other      *)
(* interface, where a run lets users type that.  Calls arrive from a port  *)
(* the system chose, <<"port", k>>, which is nobody's listening address.   *)
(***************************************************************************)
EXTENDS PeerNetwork, TLC

Nodes == 1 .. 3
Addresses == {"lan", "alt"} \X Nodes
SelfAddress == [n \in Nodes |-> <<"lan", n>>]
Owner == [n \in Nodes |-> [a \in Addresses |-> a[2]]]
Ephemeral == [n \in Nodes |-> <<"port", n>>]

\* Users name other clients by the address these give as their own ...
LanJoins == {j \in Nodes \X ({"lan"} \X Nodes) : j[1] # j[2][2]}
\* ... or by any of their addresses.
AllJoins == {j \in Nodes \X Addresses : j[1] # j[2][2]}

Nobody == {}
Everybody == Nodes
=============================================================================
