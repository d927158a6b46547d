--------------------------- MODULE MCAudioStream ---------------------------
(***************************************************************************)
(* AudioStream with a song of two chunks, one of one, and a file that is   *)
(* no song; the server may find the directory in another order next time.  *)
(***************************************************************************)
EXTENDS AudioStream

CONSTANTS c1, c2, user, handler, long, short, bad

Threads == {<<c1, user>>, <<c1, handler>>, <<c2, user>>}
Lengths == [s \in Song |-> IF s = long THEN 2 ELSE 1]
Songs == Song \ {bad}
Orders == {<<long, bad>>, <<short, long>>}
=============================================================================
