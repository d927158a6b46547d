----------------------------- MODULE PlayerOps -----------------------------
(***************************************************************************)
(* AudioPlayer seen from outside: each of its public operations as one     *)
(* function on the player's observable state.                              *)
(*                                                                         *)
(*   playing  the atomic flag `playing`                                    *)
(*   unit     the audio unit: "none" (null), "ready" (set up, silent),     *)
(*            "running" (calling back for samples)                         *)
(*   cue      the byte position, named and not computed: Start is the      *)
(*            beginning of the song, any other value names the place where *)
(*            some client stood when it was asked                          *)
(*                                                                         *)
(* Songs are long: no song reaches its end here, and a unit that was set   *)
(* up starts when it is told to.  AudioPlayer.tla opens the operations     *)
(* into their steps, with a start that fails and the render callback that  *)
(* ends the song.                                                          *)
(***************************************************************************)

Start == << >>

NewPlayer == [playing |-> FALSE, unit |-> "none", cue |-> Start]

\* loadFromMemory: the cleanup resets `playing` only if there was a unit.
Loaded(p) == [playing |-> p.playing /\ p.unit = "none",
              unit |-> "ready", cue |-> Start]

\* loadFromMemory refusing the data: cleaned up, nothing loaded instead.
Rejected(p) == [p EXCEPT !.playing = @ /\ p.unit = "none", !.unit = "none"]

\* play: starts the unit unless the flag is up; a null unit cannot start.
Played(p) == IF p.playing \/ p.unit = "none"
             THEN p
             ELSE [p EXCEPT !.playing = TRUE, !.unit = "running"]

\* The unit after AudioOutputUnitStop and after AudioOutputUnitStart.
Halt(unit)    == IF unit = "running" THEN "ready" ELSE unit
Restart(unit) == IF unit = "ready" THEN "running" ELSE unit

\* pause at the place called `here` (a unit that does not run stays put).
Paused(p, here) ==
    IF p.playing
    THEN [playing |-> FALSE, unit |-> Halt(p.unit),
          cue |-> IF p.unit = "running" THEN here ELSE p.cue]
    ELSE p

\* resume: raises the flag whether or not the unit could be started.
Resumed(p) == IF p.playing
              THEN p
              ELSE [p EXCEPT !.playing = TRUE, !.unit = Restart(@)]

\* stop: like pause, and back to the beginning; nothing if not playing.
Stopped(p) == IF p.playing
              THEN [playing |-> FALSE, unit |-> Halt(p.unit), cue |-> Start]
              ELSE p
=============================================================================
