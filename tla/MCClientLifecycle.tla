------------------------- MODULE MCClientLifecycle -------------------------
(***************************************************************************)
(* ClientLifecycle with two clients, of which n1 lists n2: what n2 would   *)
(* send n1 as it quits, n1 is sent anyway.                                 *)
(***************************************************************************)
EXTENDS ClientLifecycle

CONSTANTS n1, n2

Listed == [n \in Node |-> IF n = n1 THEN {n2} ELSE {}]
Heard  == [n \in Node |-> IF n = n1 THEN {"request", "gossip"} ELSE {}]
=============================================================================
