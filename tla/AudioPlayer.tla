---------------------------- MODULE AudioPlayer ----------------------------
(***************************************************************************)
(* AudioPlayer step by step: the calls of its control threads (the command *)
(* loop and the handlers of peers' commands) against the render callback   *)
(* that the audio unit runs on a thread of its own.  `playing` and         *)
(* `currentPosition` are atomics, so each access is a step; nothing else   *)
(* orders the threads.                                                     *)
(*                                                                         *)
(* The audio unit is external.  AudioOutputUnitStop called by a control    *)
(* thread lets no callback begin and waits for the one in flight; called   *)
(* by the callback itself it only lets none begin.  Starting a unit that   *)
(* is null or was not initialised is an error.                             *)
(***************************************************************************)
EXTENDS Integers, PlayerOps

CONSTANTS
    Caller,     \* the control threads
    Ops,        \* what they call: names of public operations
    Kinds,      \* how songs are loaded: "file", "memory"
    Lengths,    \* bytes of audio data a song may have
    Positions,  \* arguments of set_position
    InStep,     \* set_position gets positions of the song, of a paused player
    Header,     \* sizeof(WavHeader)
    FrameBytes, \* bytes of one frame
    Buffer,     \* frames the unit asks for in one callback
    Word        \* unsigned int is arithmetic modulo this

ASSUME PlayerAssumption ==
    /\ Ops \subseteq {"load", "play", "pause", "resume", "stop", "seek"}
    /\ Kinds \subseteq {"file", "memory"}
    /\ InStep \in BOOLEAN
    /\ Header \in Nat \ {0} /\ FrameBytes \in Nat \ {0}
    /\ Buffer \in Nat \ {0} /\ Word \in Nat \ {0}
    /\ Lengths \subseteq Nat /\ Positions \subseteq 0 .. (Word - 1)
    /\ \A l \in Lengths \cup {0} : 2 * (Header + l) < Word

VARIABLES
    playing, position,  \* the atomics
    data,               \* audioData, by its length
    unit,               \* "none", "broken" (not initialised), "ready", "running"
    pc, call,           \* where each control thread is, and in which call
    render              \* the callback: where it is and what it reads

vars == <<playing, position, data, unit, pc, call, render>>

Calls == [op : Ops \ {"load", "seek"}]
    \cup [op : Ops \cap {"load"}, kind : Kinds, length : Lengths]
    \cup [op : Ops \cap {"seek"}, to : Positions]

NoCall == [op |-> "none"]

Total == Header + data

TypeOK ==
    /\ playing \in BOOLEAN
    /\ position \in 0 .. (Word - 1)
    /\ data \in Lengths \cup {0}
    /\ unit \in {"none", "broken", "ready", "running"}
    /\ pc \in [Caller -> {"idle", "clean", "halt", "wait", "fill", "setup",
                          "prepare", "test", "raise", "start", "lower",
                          "rewind", "seek"}]
    /\ call \in [Caller -> Calls \cup {NoCall}]
    /\ render \in [at : {"idle", "reading", "ending", "halting"},
                   from : 0 .. (Word - 1), frames : 0 .. Buffer]

NotRendering == [at |-> "idle", from |-> 0, frames |-> 0]

Init ==
    /\ playing = FALSE /\ position = 0 /\ data = 0 /\ unit = "none"
    /\ pc = [c \in Caller |-> "idle"]
    /\ call = [c \in Caller |-> NoCall]
    /\ render = NotRendering

-----------------------------------------------------------------------------
Goto(c, label) ==
    /\ pc' = [pc EXCEPT ![c] = label]
    /\ call' = [call EXCEPT ![c] = IF label = "idle" THEN NoCall ELSE @]

\* A control thread enters an operation.
Invoke(c, o) ==
    /\ pc[c] = "idle"
    /\ (o.op = "seek" /\ InStep) => o.to \in Header .. Total /\ ~playing
    /\ call' = [call EXCEPT ![c] = o]
    /\ pc' = [pc EXCEPT ![c] = CASE o.op = "load" -> "clean"
                                 [] o.op = "play" -> "prepare"
                                 [] o.op = "seek" -> "seek"
                                 [] OTHER         -> "test"]
    /\ UNCHANGED <<playing, position, data, unit, render>>

\* Fault: the unit is left running while the song is replaced.
CleanFlagOnly(c) ==
    /\ pc[c] = "clean"
    /\ playing' = (playing /\ unit = "none")
    /\ Goto(c, "fill")
    /\ UNCHANGED <<position, data, unit, render>>

\* load, loadFromMemory: playback is stopped only if there is a unit.
Clean(c) ==
    /\ pc[c] = "clean"
    /\ IF unit = "none"
       THEN Goto(c, "fill") /\ UNCHANGED playing
       ELSE Goto(c, "halt") /\ playing' = FALSE
    /\ UNCHANGED <<position, data, unit, render>>

\* The song is refused, or copied into the player.
Fill(c) ==
    /\ pc[c] = "fill"
    /\ \/ Goto(c, "idle") /\ UNCHANGED <<position, data>>
       \/ /\ data' = call[c].length
          /\ position' = IF call[c].kind = "file" THEN Header ELSE 0
          /\ Goto(c, "setup")
    /\ UNCHANGED <<playing, unit, render>>

\* setupAudioUnit, which may give up before or after the unit exists.
Setup(c) ==
    /\ pc[c] = "setup"
    /\ unit' \in {"none", "broken", "ready"}
    /\ Goto(c, "idle")
    /\ UNCHANGED <<playing, position, data, render>>

\* play: nothing without data; from the beginning if the song is over.
Prepare(c) ==
    /\ pc[c] = "prepare"
    /\ Goto(c, IF data = 0 THEN "idle" ELSE "test")
    /\ position' = IF data # 0 /\ position >= Total THEN Header ELSE position
    /\ UNCHANGED <<playing, data, unit, render>>

\* play, resume, pause, stop test the flag first.
Test(c) ==
    /\ pc[c] = "test"
    /\ Goto(c, CASE call[c].op \in {"play", "resume"} ->
                      IF playing THEN "idle" ELSE "raise"
                 [] OTHER -> IF playing THEN "lower" ELSE "idle")
    /\ UNCHANGED <<playing, position, data, unit, render>>

Raise(c) ==
    /\ pc[c] = "raise"
    /\ playing' = TRUE
    /\ Goto(c, "start")
    /\ UNCHANGED <<position, data, unit, render>>

\* AudioOutputUnitStart, which may fail also on a unit that is set up; play
\* takes its flag back on an error, resume does not.
StartUnit(c) ==
    /\ pc[c] = "start"
    /\ \/ /\ unit \in {"ready", "running"}
          /\ unit' = "running"
          /\ UNCHANGED playing
       \/ /\ unit # "running"
          /\ playing' = (playing /\ call[c].op # "play")
          /\ UNCHANGED unit
    /\ Goto(c, "idle")
    /\ UNCHANGED <<position, data, render>>

\* Fault: pause leaves the unit running.
LowerOnly(c) ==
    /\ pc[c] = "lower"
    /\ playing' = FALSE
    /\ Goto(c, IF call[c].op = "stop" THEN "rewind" ELSE "idle")
    /\ UNCHANGED <<position, data, unit, render>>

\* pause, stop.
Lower(c) ==
    /\ pc[c] = "lower"
    /\ playing' = FALSE
    /\ Goto(c, IF call[c].op = "stop" THEN "rewind" ELSE "halt")
    /\ UNCHANGED <<position, data, unit, render>>

\* stop goes back to the beginning before it stops the unit.
Rewind(c) ==
    /\ pc[c] = "rewind"
    /\ position' = Header
    /\ Goto(c, "halt")
    /\ UNCHANGED <<playing, data, unit, render>>

\* AudioOutputUnitStop is called: no callback begins any more ...
HaltUnit(c) ==
    /\ pc[c] = "halt"
    /\ unit' = Halt(unit)
    /\ Goto(c, "wait")
    /\ UNCHANGED <<playing, position, data, render>>

\* ... and returns: none is in flight.  A load then disposes of the unit.
UnitHalted(c) ==
    /\ pc[c] = "wait"
    /\ render.at = "idle"
    /\ IF call[c].op = "load"
       THEN unit' = "none" /\ Goto(c, "fill")
       ELSE Goto(c, "idle") /\ UNCHANGED unit
    /\ UNCHANGED <<playing, position, data, render>>

\* set_position, called before resume by the handler of a peer's resume.
Seek(c) ==
    /\ pc[c] = "seek"
    /\ position' = call[c].to
    /\ Goto(c, "idle")
    /\ UNCHANGED <<playing, data, unit, render>>

-----------------------------------------------------------------------------
\* dataPosition and framesAvailable of the callback, in unsigned arithmetic.
DataPosition(pos) == (pos - Header) % Word

\* Fault: the header is counted as audio data.
FramesInFile(pos) == ((Total - DataPosition(pos)) % Word) \div FrameBytes

\* Fault: signed arithmetic, past the end the count is negative.
FramesSigned(pos) == (data - DataPosition(pos)) \div FrameBytes

FramesAvailable(pos) == ((data - DataPosition(pos)) % Word) \div FrameBytes

\* RenderCallback: what to copy is fixed by one read of the position.
RenderBegin ==
    /\ unit = "running"
    /\ render.at = "idle"
    /\ LET available == FramesAvailable(position)
       IN render' = [at |-> "reading", from |-> position,
                     frames |-> IF available < Buffer THEN available
                                ELSE Buffer]
    /\ UNCHANGED <<playing, position, data, unit, pc, call>>

\* Fault: the end of the song goes unnoticed.
RenderOn ==
    /\ render.at = "reading"
    /\ position' = (position + render.frames * FrameBytes) % Word
    /\ render' = NotRendering
    /\ UNCHANGED <<playing, data, unit, pc, call>>

\* fetch_add on whatever the position is by now.
RenderAdvance ==
    /\ render.at = "reading"
    /\ position' = (position + render.frames * FrameBytes) % Word
    /\ render' = IF render.frames < Buffer
                 THEN [render EXCEPT !.at = "ending"] ELSE NotRendering
    /\ UNCHANGED <<playing, data, unit, pc, call>>

\* The end of the song: flag down, then the unit stopped.
RenderEnd ==
    /\ render.at = "ending"
    /\ playing' = FALSE
    /\ render' = [render EXCEPT !.at = "halting"]
    /\ UNCHANGED <<position, data, unit, pc, call>>

\* Fault: the callback takes a lock that a thread holds as it stops the unit.
RenderHaltLocked ==
    /\ render.at = "halting"
    /\ \A c \in Caller : pc[c] # "wait"
    /\ unit' = Halt(unit)
    /\ render' = NotRendering
    /\ UNCHANGED <<playing, position, data, pc, call>>

RenderHalt ==
    /\ render.at = "halting"
    /\ unit' = Halt(unit)
    /\ render' = NotRendering
    /\ UNCHANGED <<playing, position, data, pc, call>>

Step(c) ==
    \/ Clean(c) \/ Fill(c) \/ Setup(c) \/ Prepare(c) \/ Test(c) \/ Raise(c)
    \/ StartUnit(c) \/ Lower(c) \/ Rewind(c) \/ HaltUnit(c) \/ UnitHalted(c)
    \/ Seek(c)

Render == RenderBegin \/ RenderAdvance \/ RenderEnd \/ RenderHalt

Next == \/ \E c \in Caller, o \in Calls : Invoke(c, o)
        \/ \E c \in Caller : Step(c)
        \/ Render

\* Control threads run and a running unit keeps calling back; nobody has to
\* call anything.
Fairness == WF_vars(Render) /\ \A c \in Caller : WF_vars(Step(c))

Spec == Init /\ [][Next]_vars /\ Fairness
-----------------------------------------------------------------------------
Quiescent == render.at = "idle" /\ \A c \in Caller : pc[c] = "idle"

\* The callback copies samples of the song and nothing else, whatever the
\* position is when it looks: its unsigned subtractions never wrap.
ReadsInBounds ==
    render.at = "reading" =>
        DataPosition(render.from) + render.frames * FrameBytes <= data

\* A song played from its beginning, or from a position in it, is played to
\* its end and not beyond, even if stop puts the position back between a
\* callback's read of it and its fetch_add.  Left out: callbacks that begin
\* before the header, and songs shorter than what one callback asks for.
PlaysWithinSong ==
    render.from >= Header /\ data >= Buffer * FrameBytes => ReadsInBounds

\* A call that silences the player does: when no call is under way, a unit
\* that still runs has the flag up, so that the next pause or stop reaches it.
SoundHasItsFlag == Quiescent /\ unit = "running" => playing

\* Audio data is never replaced under a callback that copies from it.
NoFillUnderRender == \A c \in Caller : pc[c] = "fill" => render.at = "idle"

\* Every call returns: waiting for the callback is not waiting for ever.
CallsReturn == \A c \in Caller : pc[c] # "idle" ~> pc[c] = "idle"

\* A song that is left alone ends: if the control threads call nothing more,
\* the unit stops for good and does not run on in silence.
SongEnds == <>[](\A c \in Caller : pc[c] = "idle") => <>[](unit # "running")
=============================================================================
