------------------------- MODULE MCPlaybackCommands -------------------------
(***************************************************************************)
(* PlaybackCommands on small groups of clients.                            *)
(***************************************************************************)
EXTENDS PlaybackRefinement, TLC

\* Everybody has connected to everybody (what `gossip` is for).
FullMesh == [n \in Node |-> Node \ {n}]

Everybody == Node
Nobody == {}
First == CHOOSE n \in Node : TRUE
OneIssuer == {First}
TwoIssuers == {First, CHOOSE n \in Node : n # First}
Bystanders == Node \ TwoIssuers

=============================================================================
