--------------------------- MODULE MCAudioPlayer ---------------------------
(***************************************************************************)
(* AudioPlayer with short songs: a header of 4 bytes, frames of 2, two     *)
(* frames per callback, 5-bit unsigned integers.                           *)
(***************************************************************************)
EXTENDS AudioPlayer

AllOps == {"load", "play", "pause", "resume", "stop", "seek"}
NoSeek == AllOps \ {"seek"}

Offsets == {4, 6, 7, 9, 10, 12}
=============================================================================
