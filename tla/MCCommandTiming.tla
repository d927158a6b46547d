-------------------------- MODULE MCCommandTiming --------------------------
(***************************************************************************)
(* CommandTiming for a sender and two peers whose clocks are ahead and     *)
(* behind; times are small, and a field of Word values wraps within them.  *)
(***************************************************************************)
EXTENDS CommandTiming

CONSTANTS s, p, q

Order == <<p, q>>
One == <<p>>
Skews == [c \in Client |-> CASE c = s -> 1 [] c = p -> 4 [] c = q -> -5]
Times == {7}
=============================================================================
